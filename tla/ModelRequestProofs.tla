------------------------- MODULE ModelRequestProofs -------------------------
(***************************************************************************)
(* Theorems about what the model is asked: the requests a session makes of *)
(* its messages (Conversation), for any thresholds, batches and numbers of *)
(* turns, and the journaled calls that carry them (ProviderCall), for any  *)
(* number of calls, retries, chunks and failing writes and any capacity of *)
(* the channel.                                                            *)
(*                                                                         *)
(* ProviderCall: Shape types the state.  Tidy says where a call may have   *)
(* its event: not before the stream is finalized, and never behind the     *)
(* latest call.  Own says whose attempts a collector and an event hold.    *)
(* Shape /\ Tidy /\ Own is inductive; the invariants of the runs follow.   *)
(*                                                                         *)
(* Conversation: Talk says of a sequence of rows that summaries are in     *)
(* front and messages in the order they were said, calls before their      *)
(* results; Account says that its rows, what they cover, what was trimmed  *)
(* and what was lost are all the messages said, each once.  TalkInv says   *)
(* so of the context and the request, and is inductive.                    *)
(***************************************************************************)
EXTENDS ProviderCall, Conversation, FiniteSetTheorems, NaturalsInduction,
        WellFoundedInduction, TLAPS


Attempts == [call: Calls, number: 1..(RetryMax + 1), status: Statuses]

\* The places of a task that has an attempt ahead of it or under way.
Trying == {"attempt", "http", "wait", "stream", "record"}

TaskShape ==
  \A c \in Calls : task[c].pc \in Trying => task[c].tried <= RetryMax

Shape ==
  /\ TypeOK /\ TaskShape
  /\ events \in [Calls -> Seq(Seq(Attempts))]
  /\ consumer # "idle" => call \in Calls

\* A finalized stream has left at most one event, an unfinalized one none.
Single == \A c \in Calls : events[c] = <<>> \/ Len(events[c]) = 1
Pending == consumer = "polling" => ~stream.finalized /\ events[call] = <<>>
Closed ==
  consumer = "terminal" => stream.finalized /\ (hit[call] \/ Len(events[call]) = 1)

Tidy == Single /\ Pending /\ Closed

Mine(c, attempts) == \A n \in DOMAIN attempts : attempts[n].call = c

Own ==
  \A c \in Calls :
    /\ Mine(c, collector[c])
    /\ \A i \in DOMAIN events[c] : Mine(c, events[c][i])

(***************************************************************************)
(* The helpers of the actions.                                             *)
(***************************************************************************)
\* A send keeps the channels typed and within their capacity.
LEMMA SendShape ==
  ASSUME TypeOK, NEW c \in Calls, NEW item \in Items, Send(c, item)
  PROVE  /\ chan' \in [Calls -> Seq(Items)]
         /\ provider = "http" => \A d \in Calls : Len(chan'[d]) <= Capacity
<1>1. CASE Gone(c)
  BY <1>1 DEF Send, TypeOK
<1>2. CASE ~Gone(c)
  <2>1. /\ Len(chan[c]) < Capacity
        /\ chan' = [chan EXCEPT ![c] = Append(chan[c], item)]
    BY <1>2 DEF Send, Room
  <2>2. chan[c] \in Seq(Items) /\ chan \in [Calls -> Seq(Items)]
    BY DEF TypeOK
  <2>3. /\ Append(chan[c], item) \in Seq(Items)
        /\ Len(Append(chan[c], item)) = Len(chan[c]) + 1
    BY <2>2
  <2>4. Len(chan[c]) \in Nat /\ Capacity \in Nat
    BY <2>2, ProviderCallAssumption
  <2> QED
    BY <2>1, <2>2, <2>3, <2>4 DEF TypeOK
<1> QED BY <1>1, <1>2

\* What a task records is an attempt of its own call.
LEMMA RecordShape ==
  ASSUME TypeOK, Own, NEW c \in Calls, NEW number \in 1..(RetryMax + 1),
         NEW status \in Statuses, Record(c, number, status)
  PROVE  /\ collector' \in [Calls -> Seq(Attempts)]
         /\ http' \in [Calls -> Seq(Statuses)]
         /\ \A d \in Calls : Mine(d, collector'[d])
<1> DEFINE new == Append(collector[c], Attempt(c, number, status))
<1>1. /\ collector \in [Calls -> Seq(Attempts)]
      /\ http \in [Calls -> Seq(Statuses)]
  BY DEF TypeOK, Attempts
<1>2. Attempt(c, number, status) \in Attempts /\ Attempt(c, number, status).call = c
  BY DEF Attempt, Attempts
<1>3. collector[c] \in Seq(Attempts)
  BY <1>1
<1>4. new \in Seq(Attempts) /\ DOMAIN new = 1..(Len(collector[c]) + 1)
      /\ \A n \in DOMAIN new : new[n] = IF n = Len(collector[c]) + 1
                                        THEN Attempt(c, number, status)
                                        ELSE collector[c][n]
  BY <1>2, <1>3
<1>5. collector' = [collector EXCEPT ![c] = new]
  BY DEF Record, Observer
<1>6. Mine(c, new)
  <2>1. Mine(c, collector[c]) /\ DOMAIN collector[c] = 1..Len(collector[c])
        /\ Len(collector[c]) \in Nat
    BY <1>3 DEF Own
  <2> HIDE DEF new
  <2> QED BY <1>2, <1>4, <2>1 DEF Mine
<1>7. http' \in [Calls -> Seq(Statuses)]
  BY <1>1 DEF Record
<1> HIDE DEF new
<1> QED BY <1>1, <1>4, <1>5, <1>6, <1>7 DEF Own

\* What finalize appends is a sequence of attempts of the call.
LEMMA FinalShape ==
  ASSUME TypeOK, Own, call \in Calls, NEW s, s.last_error \in BOOLEAN
  PROVE  FinalAttempts(s) \in Seq(Attempts) /\ Mine(call, FinalAttempts(s))
<1>1. CASE collector[call] # <<>>
  BY <1>1 DEF FinalAttempts, TypeOK, Own, Attempts
<1>2. CASE collector[call] = <<>>
  <2>1. PICK status \in Statuses : FinalAttempts(s) = <<Attempt(call, 1, status)>>
    <3>1. CASE s.last_error = TRUE
      BY <1>2, <3>1 DEF FinalAttempts, Statuses
    <3>2. CASE s.last_error = FALSE
      BY <1>2, <3>2 DEF FinalAttempts, Statuses
    <3> QED BY <3>1, <3>2
  <2>2. Attempt(call, 1, status) \in Attempts /\ Attempt(call, 1, status).call = call
    BY ProviderCallAssumption DEF Attempt, Attempts
  <2> QED BY <2>1, <2>2 DEF Mine
<1> QED BY <1>1, <1>2

\* Appending one sequence of own attempts to the events of the call.
LEMMA EventShape ==
  ASSUME Shape, Own, call \in Calls, events[call] = <<>>,
         NEW attempts \in Seq(Attempts), Mine(call, attempts),
         events' = [events EXCEPT ![call] = Append(@, attempts)]
  PROVE  /\ events' \in [Calls -> Seq(Seq(Attempts))]
         /\ Len(events'[call]) = 1
         /\ \A c \in Calls \ {call} : events'[c] = events[c]
         /\ \A c \in Calls : \A i \in DOMAIN events'[c] : Mine(c, events'[c][i])
<1> DEFINE new == Append(events[call], attempts)
<1>1. new \in Seq(Seq(Attempts)) /\ Len(new) = 1 /\ DOMAIN new = {1} /\ new[1] = attempts
  OBVIOUS
<1>2. events \in [Calls -> Seq(Seq(Attempts))] /\ events' = [events EXCEPT ![call] = new]
  BY DEF Shape
<1> HIDE DEF new
<1> QED BY <1>1, <1>2 DEF Own

\* finalize of a stream that is not yet finalized drains the collector and leaves
\* one event, unless a write failed.
LEMMA FinalizeOnce ==
  ASSUME Shape, Own, call \in Calls, events[call] = <<>>,
         NEW s \in [last_error: BOOLEAN, done_seen: BOOLEAN, finalized: BOOLEAN],
         ~s.finalized, finalize(s)
  PROVE  /\ stream' \in [last_error: BOOLEAN, done_seen: BOOLEAN, finalized: BOOLEAN]
         /\ stream'.finalized
         /\ collector' = [collector EXCEPT ![call] = <<>>]
         /\ hit' \in [Calls -> BOOLEAN] /\ faults' \in 0..MaxFaults
         /\ events' \in [Calls -> Seq(Seq(Attempts))]
         /\ (hit'[call] /\ events' = events) \/ Len(events'[call]) = 1
         /\ \A c \in Calls \ {call} : events'[c] = events[c]
         /\ \A c \in Calls : \A i \in DOMAIN events'[c] : Mine(c, events'[c][i])
<1>1. /\ hit \in [Calls -> BOOLEAN] /\ faults \in 0..MaxFaults
      /\ events \in [Calls -> Seq(Seq(Attempts))]
  BY DEF Shape, TypeOK
<1>2. /\ stream' = [s EXCEPT !.finalized = TRUE]
      /\ collector' = [collector EXCEPT ![call] = <<>>]
  BY DEF finalize
<1>3. CASE /\ events' = [events EXCEPT ![call] = Append(@, FinalAttempts(s))]
           /\ UNCHANGED <<hit, faults>>
  <2>1. FinalAttempts(s) \in Seq(Attempts) /\ Mine(call, FinalAttempts(s))
    BY FinalShape DEF Shape
  <2> QED BY <1>1, <1>2, <1>3, <2>1, EventShape
<1>4. CASE /\ Fault
           /\ hit' = [hit EXCEPT ![call] = TRUE]
           /\ UNCHANGED events
  <2>1. faults' \in 0..MaxFaults
    BY <1>1, <1>4, ProviderCallAssumption DEF Fault
  <2> QED BY <1>1, <1>2, <1>4, <2>1 DEF Own
<1> QED BY <1>3, <1>4 DEF finalize

\* Draining a collector keeps the others.
LEMMA DrainShape ==
  ASSUME TypeOK, Own, call \in Calls, collector' = [collector EXCEPT ![call] = <<>>]
  PROVE  /\ collector' \in [Calls -> Seq(Attempts)]
         /\ \A c \in Calls : Mine(c, collector'[c])
<1>1. collector \in [Calls -> Seq(Attempts)]
  BY DEF TypeOK, Attempts
<1>2. <<>> \in Seq(Attempts) /\ Mine(call, <<>>)
  BY DEF Mine
<1> QED BY <1>1, <1>2 DEF Own

IInv == Shape /\ Tidy /\ Own

(***************************************************************************)
(* The task: it changes its own place, its channel and its collector.      *)
(***************************************************************************)
TaskRecords == [pc: TaskPcs, tried: 0..(RetryMax + 1), sent: 0..MaxChunks]

\* The records of the tasks, with the limit on retries.
TasksTyped(tasks) ==
  /\ tasks \in [Calls -> TaskRecords]
  /\ \A c \in Calls : tasks[c].pc \in Trying => tasks[c].tried <= RetryMax

ChannelsTyped(channels) ==
  /\ channels \in [Calls -> Seq(Items)]
  /\ provider = "http" => \A c \in Calls : Len(channels[c]) <= Capacity

EvidenceTyped(attempts, statuses) ==
  /\ attempts \in [Calls -> Seq(Attempts)]
  /\ \A c \in Calls : Mine(c, attempts[c])
  /\ statuses \in [Calls -> Seq(Statuses)]

\* What the parts of a task's step have to show.
LEMMA TaskFrame ==
  ASSUME IInv, NEW c \in Calls, task[c].pc # "none", UNCHANGED consumerVars,
         TasksTyped(task'), \A d \in Calls \ {c} : task'[d] = task[d],
         ChannelsTyped(chan'), EvidenceTyped(collector', http'),
         faults' \in 0..MaxFaults
  PROVE  IInv'
<1>1. /\ provider' = provider /\ call' = call /\ consumer' = consumer
      /\ stream' = stream /\ events' = events /\ hit' = hit
  BY DEF consumerVars
<1>2. c <= call /\ \A d \in Calls : d > call => task[d] = NewTask /\ events[d] = <<>>
  BY DEF IInv, Shape, TypeOK, NewTask, Calls
<1>3. TypeOK'
  <2>1. \A d \in Calls : d > call => task'[d] = NewTask /\ events[d] = <<>>
    <3>1. ASSUME NEW d \in Calls, d > call PROVE d # c
      <4>1. call \in Nat /\ c \in Nat
        BY ProviderCallAssumption DEF IInv, Shape, TypeOK, Calls
      <4> QED BY <1>2, <3>1, <4>1
    <3> QED BY <1>2, <3>1
  <2>2. /\ task' \in [Calls -> TaskRecords]
        /\ chan' \in [Calls -> Seq(Items)]
        /\ provider = "http" => \A d \in Calls : Len(chan'[d]) <= Capacity
        /\ collector' \in [Calls -> Seq(Attempts)]
        /\ http' \in [Calls -> Seq(Statuses)]
    BY DEF TasksTyped, ChannelsTyped, EvidenceTyped
  <2> QED BY <1>1, <2>1, <2>2 DEF IInv, Shape, TypeOK, TaskRecords, Attempts
<1>4. Shape'
  BY <1>1, <1>3 DEF IInv, Shape, TasksTyped, TaskShape, Attempts
<1>5. Tidy'
  BY <1>1 DEF IInv, Tidy, Single, Pending, Closed
<1>6. Own'
  BY <1>1 DEF IInv, Own, EvidenceTyped, Mine
<1> QED BY <1>4, <1>5, <1>6 DEF IInv

LEMMA TaskStepKeeps ==
  ASSUME IInv, NEW c \in Calls, TaskStep(c)
  PROVE  IInv'
<1>a. TypeOK /\ TaskShape /\ Own
  BY DEF IInv, Shape
<1>b. /\ TasksTyped(task) /\ ChannelsTyped(chan) /\ EvidenceTyped(collector, http)
      /\ faults \in 0..MaxFaults
  BY <1>a DEF TypeOK, TaskShape, TasksTyped, TaskRecords, ChannelsTyped, EvidenceTyped,
              Attempts, Own
<1>c. RetryMax \in Nat /\ MaxChunks \in Nat /\ MaxFaults \in Nat
  BY ProviderCallAssumption
<1>d. task[c].tried \in Nat /\ task[c].sent \in Nat
  BY <1>b, <1>c DEF TasksTyped, TaskRecords
<1>e. ASSUME task[c].pc \in Trying, NEW status \in Statuses,
             Record(c, task[c].tried + 1, status)
      PROVE  EvidenceTyped(collector', http')
  <2>1. task[c].tried + 1 \in 1..(RetryMax + 1)
    BY <1>b, <1>c, <1>d, <1>e DEF TasksTyped
  <2> QED BY <1>a, <1>e, <2>1, RecordShape DEF EvidenceTyped
<1>f. ASSUME NEW item \in Items, Send(c, item)
      PROVE  ChannelsTyped(chan')
  BY <1>a, <1>f, SendShape DEF ChannelsTyped
<1>1. CASE Request(c)
  <2>1. /\ task[c].pc = "attempt"
        /\ \A d \in Calls \ {c} : task'[d] = task[d]
        /\ UNCHANGED <<consumerVars, chan>>
    BY <1>1, <1>b DEF Request, TasksTyped
  <2>2. TasksTyped(task')
    BY <1>1, <1>b DEF Request, TasksTyped, TaskRecords, TaskPcs, Trying
  <2>3. EvidenceTyped(collector', http') /\ faults' \in 0..MaxFaults
    <3>1. CASE UNCHANGED <<collector, http, faults>>
      BY <1>b, <3>1
    <3>2. CASE Fault /\ Record(c, task[c].tried + 1, "Failed")
      BY <1>b, <1>c, <1>e, <2>1, <3>2 DEF Fault, Trying, Statuses
    <3> QED BY <1>1, <3>1, <3>2 DEF Request
  <2> QED BY <1>b, <2>1, <2>2, <2>3, TaskFrame
<1>2. CASE RateLimited(c)
  <2>1. /\ task[c].pc = "http" /\ EvidenceTyped(collector', http')
        /\ \A d \in Calls \ {c} : task'[d] = task[d]
        /\ UNCHANGED <<consumerVars, chan, faults>>
    BY <1>2, <1>b, <1>e DEF RateLimited, TasksTyped, Trying, Statuses
  <2>2. TasksTyped(task')
    <3>1. task[c].tried + 1 \in 0..(RetryMax + 1)
      BY <1>b, <1>c, <1>d, <2>1 DEF TasksTyped, Trying
    <3> QED BY <1>2, <1>b, <1>c, <1>d, <3>1
               DEF RateLimited, TasksTyped, TaskRecords, TaskPcs, Trying
  <2> QED BY <1>b, <2>1, <2>2, TaskFrame
<1>3. CASE Wait(c)
  <2>1. /\ task[c].pc = "wait" /\ ChannelsTyped(chan')
        /\ \A d \in Calls \ {c} : task'[d] = task[d]
        /\ UNCHANGED <<consumerVars, collector, http, faults>>
    BY <1>3, <1>b, <1>f DEF Wait, TasksTyped, Items, ChunkItems
  <2>2. TasksTyped(task')
    BY <1>3, <1>b DEF Wait, TasksTyped, TaskRecords, TaskPcs, Trying
  <2> QED BY <1>b, <2>1, <2>2, TaskFrame
<1>4. CASE Ready(c)
  <2>1. /\ task[c].pc = "http" /\ ChannelsTyped(chan')
        /\ \A d \in Calls \ {c} : task'[d] = task[d]
        /\ UNCHANGED <<consumerVars, collector, http, faults>>
    BY <1>4, <1>b, <1>f DEF Ready, TasksTyped, Items, ChunkItems
  <2>2. TasksTyped(task')
    BY <1>4, <1>b DEF Ready, TasksTyped, TaskRecords, TaskPcs, Trying
  <2> QED BY <1>b, <2>1, <2>2, TaskFrame
<1>5. CASE AttemptFails(c)
  <2>1. /\ task[c].pc \in {"http", "stream"} /\ EvidenceTyped(collector', http')
        /\ \A d \in Calls \ {c} : task'[d] = task[d]
        /\ UNCHANGED <<consumerVars, chan, faults>>
    BY <1>5, <1>b, <1>e DEF AttemptFails, TasksTyped, Trying, Statuses
  <2>2. TasksTyped(task')
    BY <1>5, <1>b DEF AttemptFails, TasksTyped, TaskRecords, TaskPcs, Trying
  <2> QED BY <1>b, <2>1, <2>2, TaskFrame
<1>6. CASE Chunk(c)
  <2>1. /\ task[c].pc = "stream" /\ ChannelsTyped(chan')
        /\ \A d \in Calls \ {c} : task'[d] = task[d]
        /\ UNCHANGED <<consumerVars, collector, http, faults>>
    BY <1>6, <1>b, <1>f DEF Chunk, TasksTyped, Items, ChunkItems
  <2>2. TasksTyped(task')
    <3>1. task[c].sent + 1 \in 0..MaxChunks
      BY <1>6, <1>c, <1>d DEF Chunk
    <3> QED BY <1>6, <1>b, <3>1, ZenonT(60) DEF Chunk, TasksTyped, TaskRecords, TaskPcs, Trying
  <2> QED BY <1>b, <2>1, <2>2, TaskFrame
<1>7. CASE Done(c)
  <2>1. /\ task[c].pc = "stream" /\ ChannelsTyped(chan')
        /\ UNCHANGED <<consumerVars, collector, faults>>
    BY <1>7, <1>f DEF Done, Items
  <2>2. PICK pc \in {"record", "exit"} : task' = [task EXCEPT ![c].pc = pc]
    BY <1>7 DEF Done
  <2>3. TasksTyped(task') /\ \A d \in Calls \ {c} : task'[d] = task[d]
    BY <1>b, <2>1, <2>2 DEF TasksTyped, TaskRecords, TaskPcs, Trying
  <2>4. EvidenceTyped(collector', http')
    BY <1>7, <1>b, <2>1 DEF Done, EvidenceTyped, Statuses
  <2> QED BY <1>b, <2>1, <2>3, <2>4, TaskFrame
<1>8. CASE RecordSuccess(c)
  <2>1. /\ task[c].pc = "record" /\ EvidenceTyped(collector', http')
        /\ \A d \in Calls \ {c} : task'[d] = task[d]
        /\ UNCHANGED <<consumerVars, chan, faults>>
    BY <1>8, <1>b, <1>e DEF RecordSuccess, TasksTyped, Trying, Statuses
  <2>2. TasksTyped(task')
    BY <1>8, <1>b DEF RecordSuccess, TasksTyped, TaskRecords, TaskPcs, Trying
  <2> QED BY <1>b, <2>1, <2>2, TaskFrame
<1>9. CASE SendErr(c)
  <2>1. /\ task[c].pc = "err" /\ ChannelsTyped(chan')
        /\ \A d \in Calls \ {c} : task'[d] = task[d]
        /\ UNCHANGED <<consumerVars, collector, http, faults>>
    BY <1>9, <1>b, <1>f DEF SendErr, TasksTyped, Items
  <2>2. TasksTyped(task')
    BY <1>9, <1>b DEF SendErr, TasksTyped, TaskRecords, TaskPcs, Trying
  <2> QED BY <1>b, <2>1, <2>2, TaskFrame
<1> QED
  BY <1>1, <1>2, <1>3, <1>4, <1>5, <1>6, <1>7, <1>8, <1>9 DEF TaskStep

(***************************************************************************)
(* The stream and the agent loop: they change the latest call only.        *)
(***************************************************************************)
Streams == [last_error: BOOLEAN, done_seen: BOOLEAN, finalized: BOOLEAN]

\* What the parts of a step that finalizes the stream of the call have to show.
LEMMA FinalizeFrame ==
  ASSUME IInv, consumer = "polling", consumer' = "terminal", UNCHANGED taskVars,
         ChannelsTyped(chan'), stream' \in Streams, stream'.finalized,
         collector' = [collector EXCEPT ![call] = <<>>],
         hit' \in [Calls -> BOOLEAN], faults' \in 0..MaxFaults,
         events' \in [Calls -> Seq(Seq(Attempts))],
         (hit'[call] /\ events' = events) \/ Len(events'[call]) = 1,
         \A c \in Calls \ {call} : events'[c] = events[c],
         \A c \in Calls : \A i \in DOMAIN events'[c] : Mine(c, events'[c][i])
  PROVE  IInv'
<1>1. /\ provider' = provider /\ call' = call /\ task' = task /\ http' = http
      /\ call \in Calls /\ events[call] = <<>>
  BY DEF taskVars, IInv, Shape, Tidy, Single, Pending, Closed
<1>2. /\ collector' \in [Calls -> Seq(Attempts)]
      /\ \A c \in Calls : Mine(c, collector'[c])
  BY <1>1, DrainShape DEF IInv, Shape
<1>3. TypeOK'
  <2>1. \A c \in Calls : c > call => task'[c] = NewTask /\ events'[c] = <<>>
    <3>1. ASSUME NEW c \in Calls, c > call PROVE c # call
      BY <1>1, <3>1, ProviderCallAssumption DEF Calls
    <3> QED BY <1>1, <3>1 DEF IInv, Shape, TypeOK
  <2> QED BY <1>1, <1>2, <2>1 DEF IInv, Shape, TypeOK, Streams, ChannelsTyped, Attempts
<1>4. Shape'
  BY <1>1, <1>3 DEF IInv, Shape, TaskShape, Attempts
<1>5. Tidy'
  BY <1>1 DEF IInv, Tidy, Single, Pending, Closed
<1>6. Own'
  BY <1>2 DEF Own, Mine
<1> QED BY <1>4, <1>5, <1>6 DEF IInv

LEMMA PopShape ==
  ASSUME IInv, call \in Calls, chan[call] # <<>>, Pop
  PROVE  ChannelsTyped(chan')
<1>1. chan \in [Calls -> Seq(Items)] /\ chan[call] \in Seq(Items)
  BY DEF IInv, Shape, TypeOK
<1>2. Tail(chan[call]) \in Seq(Items) /\ Len(Tail(chan[call])) = Len(chan[call]) - 1
  BY <1>1
<1>3. Len(chan[call]) \in Nat /\ Capacity \in Nat
  BY <1>1, ProviderCallAssumption
<1>4. chan' = [chan EXCEPT ![call] = Tail(chan[call])]
  BY DEF Pop
<1> QED BY <1>1, <1>2, <1>3, <1>4 DEF ChannelsTyped, IInv, Shape, TypeOK

LEMMA PollKeeps ==
  ASSUME IInv, Poll
  PROVE  IInv'
<1>1. /\ consumer = "polling" /\ call \in Calls /\ events[call] = <<>>
      /\ stream \in Streams /\ stream.finalized = FALSE /\ ChannelsTyped(chan)
  <2>1. consumer = "polling"
    BY DEF Poll, PollChunk, PollDone, PollChunkNotStored, PollErr, PollNone
  <2> QED BY <2>1 DEF IInv, Shape, Tidy, Single, Pending, Closed, TypeOK, Streams, ChannelsTyped
<1>2. CASE PollChunk
  <2>1. ChannelsTyped(chan')
    BY <1>1, <1>2, PopShape DEF PollChunk
  <2>2. UNCHANGED <<taskVars, consumer, stream, collector, events, hit, faults>>
    BY <1>2 DEF PollChunk
  <2>3. Shape'
    BY <2>1, <2>2 DEF IInv, Shape, TypeOK, TaskShape, ChannelsTyped, taskVars, Attempts
  <2>4. Tidy' /\ Own'
    BY <2>2 DEF IInv, Tidy, Single, Pending, Closed, Own, Mine, taskVars
  <2> QED BY <2>3, <2>4 DEF IInv
<1>3. ASSUME NEW s \in Streams, ~s.finalized, finalize(s), UNCHANGED taskVars,
             consumer' = "terminal", ChannelsTyped(chan')
      PROVE  IInv'
  BY <1>1, <1>3, FinalizeOnce, FinalizeFrame DEF Streams, IInv
<1>4. CASE PollDone
  <2>1. [stream EXCEPT !.done_seen = TRUE] \in Streams
        /\ ~[stream EXCEPT !.done_seen = TRUE].finalized
    BY <1>1 DEF Streams
  <2> QED BY <1>1, <1>3, <1>4, <2>1, PopShape DEF PollDone
<1>5. CASE PollErr
  <2>1. [stream EXCEPT !.last_error = TRUE, !.done_seen = TRUE] \in Streams
        /\ ~[stream EXCEPT !.last_error = TRUE, !.done_seen = TRUE].finalized
    BY <1>1 DEF Streams
  <2> QED BY <1>1, <1>3, <1>5, <2>1, PopShape DEF PollErr
<1>6. CASE PollNone
  <2>1. [stream EXCEPT !.done_seen = TRUE] \in Streams
        /\ ~[stream EXCEPT !.done_seen = TRUE].finalized
    BY <1>1 DEF Streams
  <2> QED BY <1>1, <1>3, <1>6, <2>1 DEF PollNone
<1>7. CASE PollChunkNotStored
  <2> DEFINE attempts == FinalAttempts([stream EXCEPT !.last_error = TRUE])
  <2>1. /\ consumer' = "terminal" /\ UNCHANGED taskVars /\ ChannelsTyped(chan')
        /\ collector' = [collector EXCEPT ![call] = <<>>]
    BY <1>1, <1>7, PopShape DEF PollChunkNotStored
  <2>2. stream' \in Streams /\ stream'.finalized
    BY <1>1, <1>7 DEF PollChunkNotStored, Streams
  <2>3. hit' \in [Calls -> BOOLEAN] /\ hit'[call] /\ faults' \in 0..MaxFaults
    BY <1>1, <1>7, ProviderCallAssumption, SMTT(60) DEF PollChunkNotStored, Fault, IInv, Shape, TypeOK
  <2>4. attempts \in Seq(Attempts) /\ Mine(call, attempts)
    <3> DEFINE s == [stream EXCEPT !.last_error = TRUE]
    <3>1. s.last_error \in BOOLEAN
      BY <1>1 DEF Streams
    <3> HIDE DEF s
    <3>2. FinalAttempts(s) \in Seq(Attempts) /\ Mine(call, FinalAttempts(s))
      BY <1>1, <3>1, FinalShape DEF IInv, Shape
    <3> QED BY <3>2 DEF s
  <2>5. /\ events' \in [Calls -> Seq(Seq(Attempts))]
        /\ events' = events \/ Len(events'[call]) = 1
        /\ \A c \in Calls \ {call} : events'[c] = events[c]
        /\ \A c \in Calls : \A i \in DOMAIN events'[c] : Mine(c, events'[c][i])
    <3>1. CASE events' = [events EXCEPT ![call] = Append(@, attempts)]
      <4> HIDE DEF attempts
      <4> QED BY <1>1, <2>4, <3>1, EventShape DEF IInv
    <3>2. CASE UNCHANGED events
      BY <3>2 DEF IInv, Shape, Own
    <3> QED BY <1>7, <3>1, <3>2 DEF PollChunkNotStored
  <2> QED BY <1>1, <2>1, <2>2, <2>3, <2>5, FinalizeFrame
<1> QED BY <1>2, <1>4, <1>5, <1>6, <1>7 DEF Poll

(***************************************************************************)
(* The theorems.                                                           *)
(***************************************************************************)
LEMMA InitHolds == Init => IInv
<1> SUFFICES ASSUME Init PROVE IInv
  OBVIOUS
<1>1. TypeOK
  <2>1. <<>> \in Seq(Items) /\ <<>> \in Seq(Statuses) /\ <<>> \in Seq(Attempts)
        /\ Len(<<>>) = 0
    OBVIOUS
  <2>2. /\ NewTask \in TaskRecords /\ NewStream \in Streams
        /\ 0 \in 0..MaxCalls /\ 0 \in 0..MaxFaults /\ 0 <= Capacity
    BY ProviderCallAssumption DEF NewTask, NewStream, TaskRecords, TaskPcs, Streams
  <2> QED BY <2>1, <2>2 DEF Init, TypeOK, TaskRecords, Streams, Attempts
<1>2. Shape
  <2>1. <<>> \in Seq(Seq(Attempts))
    OBVIOUS
  <2> QED BY <1>1, <2>1 DEF Shape, TaskShape, Init, NewTask, Trying
<1>3. Tidy /\ Own
  BY DEF Init, Tidy, Single, Pending, Closed, Own, Mine
<1> QED BY <1>2, <1>3 DEF IInv

\* A call begins: its task and its events are untouched so far.
LEMMA NextCallFacts ==
  ASSUME IInv, NextCall
  PROVE  /\ call + 1 \in Calls /\ call' = call + 1 /\ call' \in 0..MaxCalls
         /\ task[call + 1] = NewTask /\ events[call + 1] = <<>>
         /\ \A c \in Calls : c > call' => task[c] = NewTask /\ events[c] = <<>>
<1>1. call \in 0..MaxCalls /\ call < MaxCalls /\ call' = call + 1
  BY DEF NextCall, IInv, Shape, TypeOK
<1>2. call + 1 \in Calls /\ call + 1 > call
  BY <1>1, ProviderCallAssumption DEF Calls
<1>3. \A c \in Calls : c > call + 1 => c > call
  BY <1>1, ProviderCallAssumption DEF Calls
<1> QED BY <1>1, <1>2, <1>3, ProviderCallAssumption DEF IInv, Shape, TypeOK

LEMMA CallKeeps ==
  ASSUME IInv, Complete \/ RequestNotStored \/ CompleteFails
  PROVE  IInv'
<1>1. NextCall
  BY DEF Complete, RequestNotStored, CompleteFails
<1>a. /\ call + 1 \in Calls /\ call' = call + 1 /\ call' \in 0..MaxCalls
      /\ task[call + 1] = NewTask /\ events[call + 1] = <<>>
      /\ \A c \in Calls : c > call' => task[c] = NewTask /\ events[c] = <<>>
  BY <1>1, NextCallFacts
<1>b. \A c \in Calls : c > call' => c # call + 1
  BY <1>a DEF Calls
<1>c. NewStream \in Streams /\ ~NewStream.finalized
  BY DEF NewStream, Streams
<1>2. CASE Complete
  <2>1. /\ consumer' = "polling" /\ stream' = NewStream
        /\ UNCHANGED <<provider, collector, events, http, hit, faults>>
    BY <1>2 DEF Complete
  <2>2. /\ task' \in [Calls -> TaskRecords]
        /\ \A c \in Calls : task'[c].pc \in Trying => task'[c].tried <= RetryMax
        /\ \A c \in Calls \ {call + 1} : task'[c] = task[c]
    <3>1. PICK pc \in {"attempt", "exit"} : task' = [task EXCEPT ![call + 1].pc = pc]
      BY <1>2 DEF Complete
    <3>2. /\ task \in [Calls -> TaskRecords]
          /\ \A c \in Calls : task[c].pc \in Trying => task[c].tried <= RetryMax
          /\ task[call + 1].tried <= RetryMax
      BY <1>a, ProviderCallAssumption DEF IInv, Shape, TypeOK, TaskShape, TaskRecords, NewTask
    <3> QED BY <3>1, <3>2, <1>a DEF TaskRecords, TaskPcs
  <2>3. ChannelsTyped(chan')
    <3>1. CASE UNCHANGED chan
      BY <2>1, <3>1 DEF ChannelsTyped, IInv, Shape, TypeOK
    <3>2. CASE /\ provider = "playback"
               /\ \E script \in Scripts : chan' = [chan EXCEPT ![call + 1] = script]
      BY <3>2, ScriptsAssumption DEF ChannelsTyped, IInv, Shape, TypeOK, Items, ChunkItems
    <3> QED BY <1>2, <3>1, <3>2 DEF Complete
  <2>4. \A c \in Calls : c > call' => task'[c] = NewTask /\ events'[c] = <<>>
    BY <1>a, <1>b, <2>1, <2>2
  <2>5. TypeOK'
    BY <1>a, <1>c, <2>1, <2>2, <2>3, <2>4
       DEF IInv, Shape, TypeOK, Streams, ChannelsTyped, TaskRecords
  <2>6. Shape'
    BY <1>a, <2>1, <2>2, <2>5 DEF IInv, Shape, TaskShape, Attempts
  <2>7. Tidy' /\ Own'
    BY <1>a, <1>c, <2>1 DEF IInv, Tidy, Single, Pending, Closed, Own, Mine
  <2> QED BY <2>6, <2>7 DEF IInv
<1>3. CASE RequestNotStored \/ CompleteFails
  <2>1. /\ consumer' = "idle" /\ stream' = NewStream
        /\ UNCHANGED <<provider, task, chan, collector, http>>
    BY <1>3 DEF RequestNotStored, CompleteFails
  <2>2. hit' \in [Calls -> BOOLEAN] /\ faults' \in 0..MaxFaults
    <3>1. hit \in [Calls -> BOOLEAN] /\ faults \in 0..MaxFaults
      BY DEF IInv, Shape, TypeOK
    <3>2. CASE UNCHANGED <<hit, faults>>
      BY <3>1, <3>2
    <3>3. CASE Fault /\ hit' = [hit EXCEPT ![call + 1] = TRUE]
      <4>1. faults' \in 0..MaxFaults
        BY <3>1, <3>3, ProviderCallAssumption DEF Fault
      <4>2. hit' \in [Calls -> BOOLEAN]
        BY <3>1, <3>3
      <4> QED BY <4>1, <4>2
    <3>4. CASE RequestNotStored
      BY <3>3, <3>4 DEF RequestNotStored
    <3>5. CASE CompleteFails
      BY <3>2, <3>3, <3>5 DEF CompleteFails
    <3> QED BY <1>3, <3>4, <3>5
  <2>3. /\ events' \in [Calls -> Seq(Seq(Attempts))]
        /\ events'[call + 1] = <<>> \/ Len(events'[call + 1]) = 1
        /\ \A i \in DOMAIN events'[call + 1] : Mine(call + 1, events'[call + 1][i])
        /\ \A c \in Calls \ {call + 1} : events'[c] = events[c]
    <3>1. CASE UNCHANGED events
      BY <1>a, <3>1 DEF IInv, Shape, Own
    <3>2. CASE events' = [events EXCEPT ![call + 1] =
                            Append(@, <<Attempt(call + 1, 1, "Failed")>>)]
      <4> DEFINE attempts == <<Attempt(call + 1, 1, "Failed")>>
      <4>1. attempts \in Seq(Attempts) /\ Mine(call + 1, attempts)
        <5>1. Attempt(call + 1, 1, "Failed") \in Attempts
              /\ Attempt(call + 1, 1, "Failed").call = call + 1
          BY <1>a, ProviderCallAssumption DEF Attempt, Attempts, Statuses
        <5> QED BY <5>1 DEF Mine
      <4> HIDE DEF attempts
      <4>2. Append(<<>>, attempts) = <<attempts>> /\ <<attempts>> \in Seq(Seq(Attempts))
        BY <4>1
      <4>3. events' = [events EXCEPT ![call + 1] = <<attempts>>]
        BY <1>a, <3>2, <4>2 DEF attempts, IInv, Shape
      <4> QED BY <1>a, <4>1, <4>2, <4>3 DEF IInv, Shape
    <3> QED BY <1>3, <3>1, <3>2 DEF RequestNotStored, CompleteFails
  <2>4. \A c \in Calls : c > call' => task'[c] = NewTask /\ events'[c] = <<>>
    BY <1>a, <1>b, <2>1, <2>3
  <2>5. TypeOK'
    BY <1>a, <1>c, <2>1, <2>2, <2>4 DEF IInv, Shape, TypeOK, Streams
  <2>6. Shape'
    BY <2>1, <2>3, <2>5 DEF IInv, Shape, TaskShape, Attempts
  <2>7. Single' /\ Pending' /\ Closed'
    BY <2>1, <2>3 DEF IInv, Tidy, Single, Pending, Closed
  <2>8. Own'
    <3>1. \A c \in Calls \ {call + 1} : \A i \in DOMAIN events[c] : Mine(c, events[c][i])
      BY DEF IInv, Own
    <3>2. \A c \in Calls : \A i \in DOMAIN events'[c] : Mine(c, events'[c][i])
      BY <2>3, <3>1
    <3>3. \A c \in Calls : Mine(c, collector'[c])
      BY <2>1 DEF IInv, Own
    <3> QED BY <3>2, <3>3 DEF Own, Mine
  <2> QED BY <2>6, <2>7, <2>8 DEF IInv, Tidy
<1> QED BY <1>2, <1>3

\* A step that changes nothing, or only lets the agent loop leave the stream.
LEMMA LeavingKeeps ==
  ASSUME IInv, consumer' \in {consumer, "idle"},
         UNCHANGED <<provider, call, stream, task, chan, collector, events, http,
                     hit, faults>>
  PROVE  IInv'
<1>1. TypeOK'
  BY DEF IInv, Shape, TypeOK
<1>2. Shape'
  BY <1>1 DEF IInv, Shape, TaskShape, Attempts
<1>3. Single' /\ Pending' /\ Closed'
  BY DEF IInv, Tidy, Single, Pending, Closed
<1>4. Own'
  BY DEF IInv, Own, Mine
<1> QED BY <1>2, <1>3, <1>4 DEF IInv, Tidy

LEMMA NextKeeps == IInv /\ [Next]_vars => IInv'
<1> SUFFICES ASSUME IInv, [Next]_vars PROVE IInv'
  OBVIOUS
<1>1. CASE Complete \/ RequestNotStored \/ CompleteFails
  BY <1>1, CallKeeps
<1>2. CASE \E c \in Calls : TaskStep(c)
  BY <1>2, TaskStepKeeps
<1>3. CASE Poll
  BY <1>3, PollKeeps
<1>4. CASE PollAgain
  <2>1. consumer = "terminal" /\ finalize(stream) /\ UNCHANGED <<taskVars, consumer, chan>>
    BY <1>4 DEF PollAgain
  <2>2. stream.finalized
    BY <2>1 DEF IInv, Tidy, Closed
  <2>3. UNCHANGED <<stream, collector, events, hit, faults>>
    BY <2>1, <2>2 DEF finalize
  <2> QED BY <2>1, <2>3, LeavingKeeps DEF taskVars
<1>5. CASE DropStream
  BY <1>5, LeavingKeeps DEF DropStream
<1>6. CASE UNCHANGED vars
  BY <1>6, LeavingKeeps DEF vars
<1> QED BY <1>1, <1>2, <1>3, <1>4, <1>5, <1>6 DEF Next

\* Every reachable state is well-shaped, tidy, and holds own attempts only.
THEOREM CallInductive == Spec => []IInv
  BY InitHolds, NextKeeps, PTL DEF Spec

\* The state keeps its shape: the channel its capacity, the retries their limit.
THEOREM CallTypeCorrect == Spec => []TypeOK
<1>1. IInv => TypeOK
  BY DEF IInv, Shape
<1> QED BY <1>1, CallInductive, PTL

\* A call has at most one ProviderCall event, whatever its stream, its task and
\* failing writes do.
THEOREM OneEventPerCall == Spec => []CallJournaledOnce
<1>1. IInv => CallJournaledOnce
  <2> SUFFICES ASSUME IInv, NEW c \in Calls PROVE Len(events[c]) <= 1
    BY DEF CallJournaledOnce
  <2>1. events[c] = <<>> \/ Len(events[c]) = 1
    BY DEF IInv, Tidy, Single
  <2>2. CASE events[c] = <<>>
    <3>1. Len(events[c]) = 0
      BY <2>2
    <3> QED BY <3>1
  <2>3. CASE Len(events[c]) = 1
    BY <2>3
  <2> QED BY <2>1, <2>2, <2>3
<1> QED BY <1>1, CallInductive, PTL

\* When the terminal item has been handed on, the event is in the journal, unless
\* a write failed.
THEOREM TerminalAlwaysJournaled == Spec => []TerminalIsJournaled
<1>1. IInv => TerminalIsJournaled
  <2>1. IInv => Closed
    BY DEF IInv, Tidy
  <2> QED BY <2>1 DEF Closed, TerminalIsJournaled
<1> QED BY <1>1, CallInductive, PTL

\* No event holds an attempt that was made for another call, however long the
\* task of an earlier call goes on.
THEOREM EventsHoldOwnAttempts == Spec => []OwnAttempts
<1>1. IInv => OwnAttempts
  BY DEF IInv, Own, Mine, OwnAttempts
<1> QED BY <1>1, CallInductive, PTL

(***************************************************************************)
(* Numbers in order, and parts of a sequence by their positions.           *)
(***************************************************************************)
LEMMA LeastNumber ==
  ASSUME NEW T \in SUBSET Nat, T # {}
  PROVE  \E m \in T : \A n \in T : m <= n
<1> DEFINE Less == {p \in Nat \X Nat : p[1] < p[2]}
<1>1. IsWellFoundedOn(Less, Nat)
  <2>1. OpToRel(<, Nat) = Less
    BY DEF OpToRel
  <2> QED BY <2>1, NatLessThanWellFounded
<1> HIDE DEF Less
<1>2. PICK m \in T : \A n \in T : <<n, m>> \notin Less
  BY <1>1, WFMin, Zenon
<1>3. ASSUME NEW n \in T PROVE m <= n
  <2>1. <<n, m>> \in Nat \X Nat /\ <<n, m>>[1] = n /\ <<n, m>>[2] = m
    OBVIOUS
  <2> QED BY <1>2, <2>1 DEF Less
<1> QED BY <1>3

LEMMA FinitePart ==
  ASSUME NEW n \in Nat, NEW S \in SUBSET (1..n)
  PROVE  IsFiniteSet(S) /\ Cardinality(S) \in Nat /\ Cardinality(S) <= n
<1>1. IsFiniteSet(1..n) /\ Cardinality(1..n) = n
  BY FS_Interval
<1> QED BY <1>1, FS_Subset, FS_CardinalityType

\* A set of numbers has one of every rank.
LEMMA Ranked ==
  ASSUME NEW n \in Nat, NEW S \in SUBSET (1..n), NEW r \in 1..Cardinality(S)
  PROVE  \E p \in S : Cardinality({q \in S : q <= p}) = r
<1> DEFINE Good(m) == \A T \in SUBSET (1..m) : \A k \in 1..Cardinality(T) :
                        \E p \in T : Cardinality({q \in T : q <= p}) = k
           Bad == {m \in Nat : ~Good(m)}
<1>1. SUFFICES Bad = {}
  <2>1. SUFFICES ASSUME Bad = {} PROVE Good(n)
    BY Zenon
  <2> HIDE DEF Good
  <2> QED BY <2>1
<1>2. SUFFICES ASSUME Bad # {} PROVE FALSE
  OBVIOUS
<1>3. PICK m \in Bad : \A j \in Bad : m <= j
  BY <1>2, LeastNumber
<1>3a. PICK T \in SUBSET (1..m) :
         \E k \in 1..Cardinality(T) : \A p \in T : Cardinality({q \in T : q <= p}) # k
  BY <1>3, ZenonT(60)
<1>4. PICK k \in 1..Cardinality(T) : \A p \in T : Cardinality({q \in T : q <= p}) # k
  BY <1>3a
<1>5. IsFiniteSet(T) /\ Cardinality(T) \in Nat /\ Cardinality(T) # 0
  <2>1. m \in Nat
    BY <1>3
  <2>2. IsFiniteSet(T) /\ Cardinality(T) \in Nat
    BY <2>1, FinitePart
  <2> QED BY <2>2, <1>4
<1>6. m # 0
  <2>1. CASE m = 0
    <3>1. T = {}
      BY <2>1
    <3> QED BY <3>1, <1>5, FS_EmptySet
  <2> QED BY <2>1
<1>7. m - 1 \in Nat /\ Good(m - 1)
  <2> HIDE DEF Good
  <2>1. m \in Nat /\ m - 1 \in Nat /\ ~(m <= m - 1)
    BY <1>3, <1>6
  <2> QED BY <1>3, <2>1
<1>8. CASE m \notin T
  <2>1. T \in SUBSET (1..(m - 1))
    BY <1>8
  <2> QED BY <2>1, <1>4, <1>7
<1>9. CASE m \in T
  <2> DEFINE U == T \ {m}
  <2>1. U \in SUBSET (1..(m - 1))
    OBVIOUS
  <2>2. IsFiniteSet(U) /\ Cardinality(U) = Cardinality(T) - 1
    BY <1>5, <1>9, FS_RemoveElement
  <2>3. CASE k = Cardinality(T)
    <3>1. {q \in T : q <= m} = T
      <4>1. m \in Nat /\ \A q \in T : q <= m
        BY <1>3
      <4> QED BY <4>1
    <3> QED BY <3>1, <2>3, <1>4, <1>9
  <2>4. CASE k # Cardinality(T)
    <3>1. k \in 1..Cardinality(U)
      BY <2>4, <2>2, <1>4, <1>5
    <3>2. PICK p \in U : Cardinality({q \in U : q <= p}) = k
      BY <3>1, <2>1, <1>7
    <3>3. {q \in T : q <= p} = {q \in U : q <= p}
      BY <2>1
    <3> QED BY <3>2, <3>3, <1>4
  <2> QED BY <2>3, <2>4
<1> QED BY <1>8, <1>9

\* The number of an element that is not past p is its place.
LEMMA Placed ==
  ASSUME NEW n \in Nat, NEW S \in SUBSET (1..n), NEW p \in S,
         NEW r, Cardinality({q \in S : q <= p}) = r
  PROVE  r \in 1..Cardinality(S) /\ InOrder(S)[r] = p
<1> DEFINE Below(x) == {q \in S : q <= x}
<1>1. \A x \in S : Below(x) \in SUBSET S /\ Below(x) \in SUBSET (1..n)
                   /\ IsFiniteSet(Below(x)) /\ Cardinality(Below(x)) \in Nat
  BY FinitePart
<1>2. IsFiniteSet(S) /\ Cardinality(S) \in Nat
  BY FinitePart
<1>3. ASSUME NEW x \in S, NEW y \in S, x < y
      PROVE  Cardinality(Below(x)) # Cardinality(Below(y))
  <2>0. x \in Int /\ y \in Int /\ \A q \in S : q \in Int
    OBVIOUS
  <2>1. Below(x) \in SUBSET Below(y) /\ y \in Below(y) /\ y \notin Below(x)
    <3>1. ASSUME NEW q \in S, q <= x PROVE q <= y
      BY <2>0, <1>3, <3>1
    <3>2. y \in Below(y) /\ y \notin Below(x)
      BY <2>0, <1>3
    <3> QED BY <3>1, <3>2
  <2>2. IsFiniteSet(Below(y)) /\ Below(x) # Below(y)
    BY <1>1, <2>1
  <2> HIDE DEF Below
  <2> QED BY <2>1, <2>2, FS_Subset
<1>4. \A x \in S : Cardinality(Below(x)) = r => x = p
  <2> HIDE DEF Below
  <2>1. Cardinality(Below(p)) = r
    BY DEF Below
  <2>2. SUFFICES ASSUME NEW x \in S, Cardinality(Below(x)) = r, x # p PROVE FALSE
    OBVIOUS
  <2>3. x \in Nat /\ p \in Nat
    OBVIOUS
  <2>4. CASE x < p
    BY <2>1, <2>2, <2>4, <1>3
  <2>5. CASE p < x
    BY <2>1, <2>2, <2>5, <1>3
  <2> QED BY <2>2, <2>3, <2>4, <2>5
<1>5. r \in 1..Cardinality(S)
  <2>1. p \in Below(p) /\ Cardinality(Below(p)) = r
    OBVIOUS
  <2> HIDE DEF Below
  <2>2. Cardinality(Below(p)) # 0
    BY <1>1, <2>1, FS_EmptySet
  <2>3. Cardinality(Below(p)) <= Cardinality(S)
    BY <1>1, <1>2, FS_Subset
  <2> QED BY <1>1, <1>2, <2>1, <2>2, <2>3
<1>6. (CHOOSE x \in S : Cardinality({q \in S : q <= x}) = r) = p
  BY <1>4
<1> QED BY <1>5, <1>6 DEF InOrder

\* And each place is somebody's.
LEMMA Place ==
  ASSUME NEW n \in Nat, NEW S \in SUBSET (1..n), NEW r \in 1..Cardinality(S)
  PROVE  /\ InOrder(S)[r] \in S
         /\ Cardinality({q \in S : q <= InOrder(S)[r]}) = r
<1>1. PICK p \in S : Cardinality({q \in S : q <= p}) = r
  BY Ranked
<1>2. InOrder(S)[r] = p
  BY <1>1, Placed
<1> QED BY <1>1, <1>2

LEMMA OrderType ==
  ASSUME NEW n \in Nat, NEW S \in SUBSET (1..n)
  PROVE  Cardinality(S) \in Nat /\ InOrder(S) \in [1..Cardinality(S) -> S]
<1>1. Cardinality(S) \in Nat
  BY FinitePart
<1>2. ASSUME NEW r \in 1..Cardinality(S)
      PROVE  (CHOOSE p \in S : Cardinality({q \in S : q <= p}) = r) \in S
  BY Ranked
<1> QED BY <1>1, <1>2 DEF InOrder

LEMMA OrderIncreases ==
  ASSUME NEW n \in Nat, NEW S \in SUBSET (1..n),
         NEW i \in 1..Cardinality(S), NEW j \in 1..Cardinality(S), i < j
  PROVE  InOrder(S)[i] < InOrder(S)[j]
<1> DEFINE p == InOrder(S)[i]
           q == InOrder(S)[j]
           Below(x) == {y \in S : y <= x}
<1>1. p \in S /\ q \in S /\ Cardinality(Below(p)) = i /\ Cardinality(Below(q)) = j
  BY Place
<1> HIDE DEF p, q
<1>2. CASE q <= p
  <2>1. Below(q) \in SUBSET Below(p) /\ Below(p) \in SUBSET (1..n)
    <3>1. p \in Int /\ q \in Int /\ \A y \in S : y \in Int
      BY <1>1
    <3>2. \A y \in S : y <= q => y <= p
      BY <3>1, <1>2
    <3> QED BY <3>2
  <2> HIDE DEF Below
  <2>2. Cardinality(Below(q)) <= Cardinality(Below(p))
    BY <2>1, FinitePart, FS_Subset
  <2>3. i \in Int /\ j \in Int
    BY <1>1
  <2> QED BY <1>1, <2>2, <2>3
<1>3. CASE ~(q <= p)
  <2>1. p \in Int /\ q \in Int
    BY <1>1
  <2> QED BY <1>3, <2>1 DEF p, q
<1> QED BY <1>2, <1>3

\* The positions up to a and from b on.
Ends(a, b, n) == (1..a) \cup (b..n)

LEMMA OrderOfEnds ==
  ASSUME NEW n \in Nat, NEW a \in Nat, NEW b \in 1..(n + 1), a < b
  PROVE  LET m == a + (n + 1 - b)
         IN  /\ Cardinality(Ends(a, b, n)) = m
             /\ InOrder(Ends(a, b, n)) = [r \in 1..m |-> IF r <= a THEN r ELSE r - a + b - 1]
<1> DEFINE S == Ends(a, b, n)
           m == a + (n + 1 - b)
<1>1. S \in SUBSET (1..n) /\ m \in Nat
  BY DEF Ends
<1>2. ASSUME NEW p \in b..n
      PROVE  Cardinality((1..a) \cup (b..p)) = a + (p + 1 - b)
  <2>1. IsFiniteSet(1..a) /\ Cardinality(1..a) = a
    BY FS_Interval
  <2>2. IsFiniteSet(b..p) /\ Cardinality(b..p) = p + 1 - b
    <3>1. b \in Int /\ p \in Int /\ ~(b > p)
      OBVIOUS
    <3> QED BY <3>1, FS_Interval
  <2>3. (1..a) \cap (b..p) = {}
    OBVIOUS
  <2> DEFINE A == 1..a
             B == b..p
  <2>4. IsFiniteSet(A) /\ IsFiniteSet(B) /\ A \cap B = {}
        /\ Cardinality(A) = a /\ Cardinality(B) = p + 1 - b
    BY <2>1, <2>2, <2>3
  <2> HIDE DEF A, B
  <2>5. Cardinality(A \cup B) = Cardinality(A) + Cardinality(B) - Cardinality(A \cap B)
    BY <2>4, FS_Union
  <2>6. Cardinality(A \cup B) = a + (p + 1 - b) - 0
    BY <2>4, <2>5, FS_EmptySet
  <2> QED BY <2>6 DEF A, B
<1>3. Cardinality(S) = m
  <2>1. CASE b <= n
    BY <2>1, <1>2 DEF Ends
  <2>2. CASE ~(b <= n)
    <3>1. S = 1..a /\ m = a
      BY <2>2 DEF Ends
    <3> HIDE DEF S, m
    <3> QED BY <3>1, FS_Interval
  <2> QED BY <2>1, <2>2
<1>4. ASSUME NEW r \in 1..m
      PROVE  InOrder(S)[r] = IF r <= a THEN r ELSE r - a + b - 1
  <2>1. CASE r <= a
    <3>1. {q \in S : q <= r} = 1..r /\ r \in S
      BY <2>1 DEF Ends
    <3>2. Cardinality(1..r) = r
      BY FS_Interval
    <3> HIDE DEF S, m
    <3> QED BY <3>1, <3>2, <2>1, <1>1, Placed
  <2>2. CASE ~(r <= a)
    <3> DEFINE p == r - a + b - 1
    <3>1. p \in b..n
      BY <2>2
    <3>2. {q \in S : q <= p} = (1..a) \cup (b..p) /\ p \in S
      <4>1. p \in b..n
        BY <3>1
      <4> HIDE DEF p
      <4> QED BY <4>1 DEF Ends
    <3>3. a + (p + 1 - b) = r
      BY <2>2
    <3> HIDE DEF p
    <3>4. Cardinality({q \in S : q <= p}) = r
      BY <3>1, <3>2, <3>3, <1>2
    <3> HIDE DEF S, m
    <3>5. InOrder(S)[r] = p
      BY <3>2, <3>4, <1>1, Placed
    <3> QED BY <3>5, <2>2 DEF p
  <2> QED BY <2>1, <2>2
<1>5. InOrder(S) \in [1..m -> S]
  BY <1>1, <1>3, OrderType
<1> QED BY <1>3, <1>4, <1>5

(***************************************************************************)
(* Rows, and what stays in order of them.                                  *)
(***************************************************************************)
Rows == [role : {"user", "assistant", "tool", "system"}, id : Nat, calls : Nat,
         of : Nat \X Nat, cleared : BOOLEAN, covers : SUBSET Nat]

\* The elements of t are those of s up to a and from b on.
IsCut(t, s, a, b) ==
  /\ t \in Seq(Rows) /\ Len(t) = a + (Len(s) + 1 - b)
  /\ \A k \in 1..a : t[k] = s[k]
  /\ \A k \in 1..(Len(s) + 1 - b) : t[a + k] = s[b - 1 + k]

LEMMA AtEnds ==
  ASSUME NEW s \in Seq(Rows), NEW a \in Nat, NEW b \in 1..(Len(s) + 1), a < b
  PROVE  IsCut(At(s, Ends(a, b, Len(s))), s, a, b)
<1> DEFINE n == Len(s)
           m == a + (n + 1 - b)
           o == [r \in 1..m |-> IF r <= a THEN r ELSE r - a + b - 1]
           t == At(s, Ends(a, b, n))
<1>1. n \in Nat /\ m \in Nat /\ \A k \in 1..n : s[k] \in Rows
  OBVIOUS
<1>2. InOrder(Ends(a, b, n)) = o
  BY <1>1, OrderOfEnds
<1>3. t = [r \in 1..m |-> s[o[r]]]
  <2>1. DOMAIN o = 1..m
    OBVIOUS
  <2> HIDE DEF o
  <2> QED BY <1>2, <2>1 DEF At
<1>4. \A r \in 1..m : o[r] = (IF r <= a THEN r ELSE r - a + b - 1) /\ o[r] \in 1..n
  BY <1>1
<1> HIDE DEF o
<1>5. t \in [1..m -> Rows] /\ \A r \in 1..m : t[r] = s[o[r]]
  BY <1>1, <1>3, <1>4
<1> HIDE DEF t
<1>6. t \in Seq(Rows) /\ Len(t) = m
  <2> HIDE DEF m
  <2> QED BY <1>1, <1>5
<1>7. ASSUME NEW k \in 1..a PROVE t[k] = s[k]
  <2>1. k \in 1..m /\ k <= a
    OBVIOUS
  <2> QED BY <2>1, <1>4, <1>5
<1>8. ASSUME NEW k \in 1..(n + 1 - b) PROVE t[a + k] = s[b - 1 + k]
  <2>1. a + k \in 1..m /\ ~(a + k <= a) /\ a + k - a + b - 1 = b - 1 + k
    OBVIOUS
  <2> QED BY <2>1, <1>4, <1>5
<1>9. IsCut(t, s, a, b)
  BY <1>6, <1>7, <1>8 DEF IsCut
<1> QED BY <1>9 DEF t

\* The rows told by the system are the first n.
Front(s, n) == n \in 0..Len(s) /\ \A k \in 1..Len(s) : IsSystem(s[k]) <=> k <= n

\* Messages are in the order they were said.
InOrderSaid(s) ==
  \A i, j \in 1..Len(s) : i < j /\ ~IsSystem(s[i]) /\ ~IsSystem(s[j]) => s[i].id < s[j].id

\* Only results are cleared, and not the newest.
NewestWhole(s) ==
  \A k \in 1..Len(s) : ~IsSystem(s[k]) /\ s[k].cleared =>
    s[k].role = "tool" /\ k + MicroKeep <= Len(s)

\* Behind an answer are its results, unless the answer is among those without;
\* while its batch runs (open), the last row is an answer that waits.
ResultsBehind(s, without, open) ==
  \A k \in 1..Len(s) :
    ~IsSystem(s[k]) /\ s[k].id \notin without /\ ~(open /\ k = Len(s)) =>
      \A c \in 1..s[k].calls : k + c <= Len(s) /\ s[k + c].of = <<s[k].id, c>>

\* A result is the first row left, or behind its answer or the result before it.
Follows(s, k) ==
  \/ k = 1 \/ IsSystem(s[k - 1])
  \/ s[k - 1].id = s[k].of[1] /\ s[k].of[2] = 1
  \/ s[k - 1].of = <<s[k].of[1], s[k].of[2] - 1>>
ResultsFollow(s) == \A k \in 1..Len(s) : s[k].role = "tool" => Follows(s, k)

Talk(s, n, without, open) ==
  /\ s \in Seq(Rows) /\ Front(s, n)
  /\ InOrderSaid(s) /\ NewestWhole(s)
  /\ ResultsBehind(s, without, open) /\ ResultsFollow(s)

\* t has the messages of s behind p, with system rows in front.
Newest(t, m, s, p) ==
  /\ t \in Seq(Rows) /\ m \in Nat /\ p \in 0..Len(s) /\ Len(t) = m + (Len(s) - p)
  /\ \A k \in 1..m : IsSystem(t[k])
  /\ \A k \in 1..(Len(s) - p) : t[m + k] = s[p + k]

LEMMA NewestTalk ==
  ASSUME NEW s, NEW t, NEW n \in Nat, NEW m \in Nat, NEW p \in Nat, n <= p,
         NEW without, NEW open, Talk(s, n, without, open), Newest(t, m, s, p),
         MicroKeep \in Nat
  PROVE  Talk(t, m, without, open)
<1> DEFINE d == Len(s) - p
<1>1. /\ s \in Seq(Rows) /\ Len(s) \in Nat /\ t \in Seq(Rows) /\ Len(t) = m + d /\ d \in Nat
      /\ Len(t) \in Nat
  BY DEF Talk, Newest
<1>2. ASSUME NEW k \in 1..Len(t)
      PROVE  \/ k <= m /\ IsSystem(t[k])
             \/ /\ k > m /\ k - m + p \in 1..Len(s) /\ t[k] = s[k - m + p] /\ ~IsSystem(t[k])
  <2>1. CASE k <= m
    BY <2>1 DEF Newest
  <2>2. CASE ~(k <= m)
    <3>1. k - m \in 1..d /\ m + (k - m) = k /\ p + (k - m) = k - m + p
      BY <2>2, <1>1
    <3>2. t[k] = s[k - m + p] /\ k - m + p \in 1..Len(s)
      BY <3>1, <1>1, SMTT(30) DEF Newest
    <3>3. ~(k - m + p <= n)
      BY <2>2, <1>1
    <3>4. ~IsSystem(s[k - m + p])
      BY <3>2, <3>3 DEF Talk, Front
    <3> QED BY <2>2, <3>2, <3>4
  <2> QED BY <2>1, <2>2
<1>3. Front(t, m)
  BY <1>1, <1>2 DEF Front
<1>4. InOrderSaid(t)
  <2> SUFFICES ASSUME NEW i \in 1..Len(t), NEW j \in 1..Len(t), i < j,
                      ~IsSystem(t[i]), ~IsSystem(t[j])
               PROVE  t[i].id < t[j].id
    BY DEF InOrderSaid
  <2>1. /\ i - m + p \in 1..Len(s) /\ t[i] = s[i - m + p] /\ ~IsSystem(s[i - m + p])
        /\ j - m + p \in 1..Len(s) /\ t[j] = s[j - m + p] /\ ~IsSystem(s[j - m + p])
        /\ i - m + p < j - m + p
    BY <1>1, <1>2
  <2> QED BY <2>1 DEF Talk, InOrderSaid
<1>5. NewestWhole(t)
  <2> SUFFICES ASSUME NEW k \in 1..Len(t), ~IsSystem(t[k]), t[k].cleared
               PROVE  t[k].role = "tool" /\ k + MicroKeep <= Len(t)
    BY DEF NewestWhole
  <2>1. k > m /\ k - m + p \in 1..Len(s) /\ t[k] = s[k - m + p]
    BY <1>2
  <2>2. s[k - m + p].role = "tool" /\ k - m + p + MicroKeep <= Len(s)
    BY <2>1 DEF Talk, NewestWhole
  <2> QED BY <2>1, <2>2, <1>1, SMTT(60)
<1>6. ResultsBehind(t, without, open)
  <2> SUFFICES ASSUME NEW k \in 1..Len(t), ~IsSystem(t[k]), t[k].id \notin without,
                      ~(open /\ k = Len(t)), NEW c \in 1..t[k].calls
               PROVE  k + c <= Len(t) /\ t[k + c].of = <<t[k].id, c>>
    BY DEF ResultsBehind
  <2> DEFINE i == k - m + p
  <2>1. i \in 1..Len(s) /\ t[k] = s[i] /\ k > m /\ ~IsSystem(s[i])
    BY <1>2
  <2>2. ~(open /\ i = Len(s))
    BY <1>1, <2>1
  <2>3. i + c <= Len(s) /\ s[i + c].of = <<s[i].id, c>>
    BY <2>1, <2>2 DEF Talk, ResultsBehind
  <2>4. t[k].calls \in Nat
    <3>1. t[k] \in Rows
      BY <1>1
    <3> QED BY <3>1 DEF Rows
  <2>5. k + c <= Len(t) /\ k + c \in 1..Len(t) /\ ~(k + c <= m) /\ (k + c) - m + p = i + c
    <3>1. c \in Nat /\ c >= 1 /\ k \in Nat
      BY <2>4
    <3>2. i + c <= Len(s) /\ k > m
      BY <2>1, <2>3
    <3>3. Len(s) \in Nat /\ Len(t) = m + (Len(s) - p)
      BY <1>1
    <3> QED BY <3>1, <3>2, <3>3
  <2>6. t[k + c] = s[i + c]
    <3> HIDE DEF i
    <3>1. t[k + c] = s[(k + c) - m + p]
      BY <2>5, <1>2
    <3> QED BY <3>1, <2>5
  <2> QED BY <2>1, <2>3, <2>5, <2>6
<1>7. ResultsFollow(t)
  <2> SUFFICES ASSUME NEW k \in 1..Len(t), t[k].role = "tool" PROVE Follows(t, k)
    BY DEF ResultsFollow
  <2> DEFINE i == k - m + p
  <2>1. i \in 1..Len(s) /\ t[k] = s[i] /\ k > m
    BY <1>2 DEF IsSystem
  <2>2. Follows(s, i)
    BY <2>1 DEF Talk, ResultsFollow
  <2>3. CASE k = 1
    BY <2>3 DEF Follows
  <2>4. CASE k # 1
    <3>1. k - 1 \in 1..Len(t)
      BY <2>4, <1>1
    <3>2. CASE k - 1 <= m
      <4>1. IsSystem(t[k - 1])
        BY <3>1, <3>2, <1>2
      <4> QED BY <4>1 DEF Follows
    <3>3. CASE ~(k - 1 <= m)
      <4>1. (k - 1) - m + p = i - 1
        BY <1>1
      <4>2. t[k - 1] = s[i - 1] /\ ~IsSystem(s[i - 1]) /\ i - 1 \in 1..Len(s)
        BY <3>1, <3>3, <4>1, <1>2
      <4>3. i # 1
        BY <4>2
      <4> QED BY <2>1, <2>2, <4>2, <4>3 DEF Follows
    <3> QED BY <3>2, <3>3
  <2> QED BY <2>3, <2>4
<1> QED BY <1>1, <1>3, <1>4, <1>5, <1>6, <1>7 DEF Talk

(***************************************************************************)
(* Every message said is somewhere.                                        *)
(***************************************************************************)
IsMessage(s, k) == k \in 1..Len(s) /\ ~IsSystem(s[k])
IsNote(s, k) == k \in 1..Len(s) /\ IsSystem(s[k])

\* Of n messages, s holds or covers those that are neither in T nor in L; what
\* is in T or covered is older than all messages of s, and covered once.
Account(s, n, T, L) ==
  /\ n \in Nat /\ T \in SUBSET (1..n) /\ L \in SUBSET (1..n)
  /\ Ids(s) = (1..n) \ (T \cup L)
  /\ \A k : IsMessage(s, k) => \A old \in T : old < s[k].id
  /\ \A i, k : IsNote(s, i) /\ IsMessage(s, k) => \A old \in s[i].covers : old < s[k].id
  /\ \A i, j : IsNote(s, i) /\ IsNote(s, j) /\ i # j => s[i].covers \cap s[j].covers = {}

LEMMA IdsAre ==
  ASSUME NEW s \in Seq(Rows)
  PROVE  /\ \A k : IsMessage(s, k) => s[k].id \in Ids(s) /\ s[k].id \in Nat
         /\ \A k : IsNote(s, k) => s[k].covers \subseteq Ids(s)
         /\ \A x \in Ids(s) : \/ \E k : IsMessage(s, k) /\ x = s[k].id
                              \/ \E k : IsNote(s, k) /\ x \in s[k].covers
<1>1. DOMAIN s = 1..Len(s) /\ \A k \in 1..Len(s) : s[k] \in Rows
  OBVIOUS
<1>2. \A x : x \in Ids(s) <=> \E k \in 1..Len(s) : x \in IdsOf(s[k])
  BY <1>1 DEF Ids
<1>3. \A k \in 1..Len(s) : IdsOf(s[k]) = IF IsSystem(s[k]) THEN s[k].covers ELSE {s[k].id}
  BY DEF IdsOf, IsSystem
<1>4. \A k \in 1..Len(s) : s[k].id \in Nat
  BY <1>1 DEF Rows
<1>5. ASSUME NEW k, IsMessage(s, k) PROVE s[k].id \in Ids(s) /\ s[k].id \in Nat
  BY <1>2, <1>3, <1>4, <1>5 DEF IsMessage
<1>6. ASSUME NEW k, IsNote(s, k) PROVE s[k].covers \subseteq Ids(s)
  BY <1>2, <1>3, <1>6 DEF IsNote
<1>7. ASSUME NEW x \in Ids(s)
      PROVE  \/ \E k : IsMessage(s, k) /\ x = s[k].id
             \/ \E k : IsNote(s, k) /\ x \in s[k].covers
  <2>1. PICK k \in 1..Len(s) : x \in IdsOf(s[k])
    BY <1>2
  <2>2. CASE IsSystem(s[k])
    BY <2>1, <2>2, <1>3 DEF IsNote
  <2>3. CASE ~IsSystem(s[k])
    BY <2>1, <2>3, <1>3 DEF IsMessage
  <2> QED BY <2>2, <2>3
<1> QED BY <1>5, <1>6, <1>7

LEMMA MessageIds ==
  ASSUME NEW s \in Seq(Rows), NEW n, NEW T, NEW L, Account(s, n, T, L)
  PROVE  \A k : IsMessage(s, k) => s[k].id \in 1..n
BY IdsAre DEF Account

\* New messages, said after all others.
NewRows(b, n) ==
  /\ b \in Seq(Rows)
  /\ \A k \in 1..Len(b) : ~IsSystem(b[k]) /\ b[k].id = n + k /\ ~b[k].cleared

LEMMA Joins ==
  ASSUME NEW s \in Seq(Rows), NEW b \in Seq(Rows)
  PROVE  /\ s \o b \in Seq(Rows) /\ Len(s \o b) = Len(s) + Len(b)
         /\ \A k \in 1..Len(s) : (s \o b)[k] = s[k]
         /\ \A k \in 1..Len(b) : (s \o b)[Len(s) + k] = b[k]
         /\ \A k \in 1..Len(s \o b) : k \in 1..Len(s) \/ \E i \in 1..Len(b) : k = Len(s) + i
<1>1. \A k \in 1..(Len(s) + Len(b)) : k \in 1..Len(s) \/ k - Len(s) \in 1..Len(b)
  OBVIOUS
<1>2. \A k \in 1..(Len(s) + Len(b)) : k = Len(s) + (k - Len(s))
  OBVIOUS
<1>3. \A k \in 1..(Len(s) + Len(b)) : k \in 1..Len(s) \/ \E i \in 1..Len(b) : k = Len(s) + i
  BY <1>1, <1>2
<1> QED BY <1>3

LEMMA PushAccount ==
  ASSUME NEW s \in Seq(Rows), NEW n, NEW T, NEW L, Account(s, n, T, L),
         NEW b, NewRows(b, n)
  PROVE  Account(s \o b, n + Len(b), T, L)
<1> DEFINE u == s \o b
           N == n + Len(b)
<1>1. /\ u \in Seq(Rows) /\ Len(u) = Len(s) + Len(b) /\ Len(s) \in Nat /\ Len(b) \in Nat
      /\ b \in Seq(Rows) /\ n \in Nat
      /\ \A k \in 1..Len(s) : u[k] = s[k]
      /\ \A k \in 1..Len(b) : u[Len(s) + k] = b[k]
      /\ \A k \in 1..Len(u) : k \in 1..Len(s) \/ \E i \in 1..Len(b) : k = Len(s) + i
  BY Joins DEF NewRows, Account
<1> HIDE DEF u
<1>2. \A k : IsNote(u, k) <=> IsNote(s, k)
  BY <1>1 DEF NewRows, IsNote
<1>3. \A k : IsMessage(s, k) => IsMessage(u, k) /\ u[k] = s[k]
  BY <1>1 DEF IsMessage
<1>4. \A k \in 1..Len(b) : IsMessage(u, Len(s) + k) /\ u[Len(s) + k].id = n + k
  <2> SUFFICES ASSUME NEW k \in 1..Len(b)
               PROVE  IsMessage(u, Len(s) + k) /\ u[Len(s) + k].id = n + k
    OBVIOUS
  <2>1. Len(s) + k \in 1..Len(u)
    BY <1>1
  <2>2. u[Len(s) + k] = b[k] /\ ~IsSystem(b[k]) /\ b[k].id = n + k
    BY <1>1 DEF NewRows
  <2> QED BY <2>1, <2>2 DEF IsMessage
<1>5. ASSUME NEW k, IsMessage(u, k)
      PROVE  \/ IsMessage(s, k) /\ u[k] = s[k]
             \/ \E i \in 1..Len(b) : u[k].id = n + i
  BY <1>1, <1>4, <1>5 DEF IsMessage
<1>6. \A k : IsNote(s, k) => u[k] = s[k]
  BY <1>1 DEF IsNote
<1>7. Ids(u) = Ids(s) \cup (n + 1)..N
  <2>1. ASSUME NEW x \in Ids(u) PROVE x \in Ids(s) \cup (n + 1)..N
    <3>1. CASE \E k : IsMessage(u, k) /\ x = u[k].id
      <4>1. PICK k : IsMessage(u, k) /\ x = u[k].id
        BY <3>1
      <4>2. CASE IsMessage(s, k) /\ u[k] = s[k]
        BY <4>1, <4>2, IdsAre
      <4>3. CASE \E i \in 1..Len(b) : u[k].id = n + i
        BY <4>1, <4>3, <1>1
      <4> QED BY <4>1, <4>2, <4>3, <1>5
    <3>2. CASE \E k : IsNote(u, k) /\ x \in u[k].covers
      BY <3>2, <1>2, <1>6, IdsAre
    <3> QED BY <3>1, <3>2, <1>1, IdsAre
  <2>2. ASSUME NEW x \in Ids(s) PROVE x \in Ids(u)
    <3>1. CASE \E k : IsMessage(s, k) /\ x = s[k].id
      <4>1. PICK k : IsMessage(s, k) /\ x = s[k].id
        BY <3>1
      <4>2. IsMessage(u, k) /\ x = u[k].id
        BY <4>1, <1>3
      <4> QED BY <4>2, <1>1, IdsAre
    <3>2. CASE \E k : IsNote(s, k) /\ x \in s[k].covers
      BY <3>2, <1>1, <1>2, <1>6, IdsAre
    <3> QED BY <3>1, <3>2, IdsAre
  <2>3. ASSUME NEW x \in (n + 1)..N PROVE x \in Ids(u)
    <3>1. x - n \in 1..Len(b) /\ n + (x - n) = x
      BY <1>1
    <3>2. IsMessage(u, Len(s) + (x - n)) /\ u[Len(s) + (x - n)].id = x
      BY <3>1, <1>4
    <3> QED BY <3>2, <1>1, IdsAre
  <2> QED BY <2>1, <2>2, <2>3
<1>8. N \in Nat /\ T \in SUBSET (1..N) /\ L \in SUBSET (1..N)
  BY <1>1 DEF Account
<1>9. Ids(u) = (1..N) \ (T \cup L)
  <2>1. Ids(s) = (1..n) \ (T \cup L) /\ T \in SUBSET (1..n) /\ L \in SUBSET (1..n)
    BY DEF Account
  <2>2. \A x \in T \cup L : x \notin (n + 1)..N
    BY <2>1, <1>1
  <2>3. 1..N = (1..n) \cup (n + 1)..N
    BY <1>1
  <2> QED BY <1>7, <2>1, <2>2, <2>3
<1>10. \A x \in 1..n : \A i \in 1..Len(b) : x < n + i
  BY <1>1
<1>11. ASSUME NEW k, IsMessage(u, k), NEW old \in T PROVE old < u[k].id
  <2>1. old \in 1..n
    BY DEF Account
  <2> QED BY <2>1, <1>5, <1>10, <1>11 DEF Account
<1>12. ASSUME NEW i, NEW k, IsNote(u, i), IsMessage(u, k), NEW old \in u[i].covers
       PROVE  old < u[k].id
  <2>1. IsNote(s, i) /\ u[i] = s[i]
    BY <1>2, <1>6, <1>12
  <2>2. old \in 1..n
    BY <2>1, <1>12, IdsAre DEF Account
  <2> QED BY <2>1, <2>2, <1>5, <1>10, <1>12 DEF Account
<1>13. ASSUME NEW i, NEW j, IsNote(u, i), IsNote(u, j), i # j
       PROVE  u[i].covers \cap u[j].covers = {}
  BY <1>2, <1>6, <1>13 DEF Account
<1> HIDE DEF N
<1>14. Account(u, N, T, L)
  BY <1>8, <1>9, <1>11, <1>12, <1>13 DEF Account
<1> QED BY <1>14 DEF u, N

LEMMA PushOrder ==
  ASSUME NEW s \in Seq(Rows), NEW n, NEW T, NEW L, Account(s, n, T, L),
         NEW b, NewRows(b, n), NEW m, Front(s, m), InOrderSaid(s), NewestWhole(s),
         MicroKeep \in Nat
  PROVE  /\ s \o b \in Seq(Rows) /\ Front(s \o b, m)
         /\ InOrderSaid(s \o b) /\ NewestWhole(s \o b)
<1> DEFINE u == s \o b
<1>1. /\ u \in Seq(Rows) /\ Len(u) = Len(s) + Len(b) /\ Len(s) \in Nat /\ Len(b) \in Nat
      /\ b \in Seq(Rows) /\ n \in Nat
      /\ \A k \in 1..Len(s) : u[k] = s[k]
      /\ \A k \in 1..Len(b) : u[Len(s) + k] = b[k]
      /\ \A k \in 1..Len(u) : k \in 1..Len(s) \/ \E i \in 1..Len(b) : k = Len(s) + i
  BY Joins DEF NewRows, Account
<1> HIDE DEF u
<1>2. \A k \in 1..Len(b) : ~IsSystem(b[k]) /\ b[k].id = n + k /\ ~b[k].cleared
  BY DEF NewRows
<1>3. m \in 0..Len(s) /\ \A k \in 1..Len(s) : IsSystem(s[k]) <=> k <= m
  BY DEF Front
<1>4. Front(u, m)
  <2>1. ASSUME NEW k \in 1..Len(u) PROVE IsSystem(u[k]) <=> k <= m
    <3>1. CASE k \in 1..Len(s)
      BY <3>1, <1>1, <1>3
    <3>2. CASE \E i \in 1..Len(b) : k = Len(s) + i
      <4>1. PICK i \in 1..Len(b) : k = Len(s) + i
        BY <3>2
      <4>2. ~IsSystem(u[k]) /\ ~(k <= m)
        BY <4>1, <1>1, <1>2, <1>3
      <4> QED BY <4>2
    <3> QED BY <3>1, <3>2, <1>1
  <2> QED BY <2>1, <1>1, <1>3 DEF Front
<1>5. \A k \in 1..Len(s) : ~IsSystem(s[k]) => s[k].id \in 1..n
  BY MessageIds DEF IsMessage
<1>6. InOrderSaid(u)
  <2> SUFFICES ASSUME NEW i \in 1..Len(u), NEW j \in 1..Len(u), i < j,
                      ~IsSystem(u[i]), ~IsSystem(u[j])
               PROVE  u[i].id < u[j].id
    BY DEF InOrderSaid
  <2>1. CASE j \in 1..Len(s)
    <3>1. i \in 1..Len(s)
      BY <2>1
    <3> QED BY <2>1, <3>1, <1>1 DEF InOrderSaid
  <2>2. CASE \E y \in 1..Len(b) : j = Len(s) + y
    <3>1. PICK y \in 1..Len(b) : j = Len(s) + y
      BY <2>2
    <3>2. u[j].id = n + y
      BY <3>1, <1>1, <1>2
    <3>3. CASE i \in 1..Len(s)
      <4>1. u[i].id \in 1..n
        BY <3>3, <1>1, <1>5
      <4> QED BY <3>2, <4>1, <1>1
    <3>4. CASE \E x \in 1..Len(b) : i = Len(s) + x
      <4>1. PICK x \in 1..Len(b) : i = Len(s) + x
        BY <3>4
      <4>2. u[i].id = n + x
        BY <4>1, <1>1, <1>2
      <4> QED BY <3>1, <3>2, <4>1, <4>2, <1>1
    <3> QED BY <3>3, <3>4, <1>1
  <2> QED BY <2>1, <2>2, <1>1
<1>7. NewestWhole(u)
  <2> SUFFICES ASSUME NEW k \in 1..Len(u), ~IsSystem(u[k]), u[k].cleared
               PROVE  u[k].role = "tool" /\ k + MicroKeep <= Len(u)
    BY DEF NewestWhole
  <2>1. CASE k \in 1..Len(s)
    <3>1. u[k].role = "tool" /\ k + MicroKeep <= Len(s)
      BY <2>1, <1>1 DEF NewestWhole
    <3> QED BY <3>1, <1>1
  <2>2. CASE \E i \in 1..Len(b) : k = Len(s) + i
    BY <2>2, <1>1, <1>2
  <2> QED BY <2>1, <2>2, <1>1
<1> QED BY <1>1, <1>4, <1>6, <1>7 DEF u

LEMMA OldFollow ==
  ASSUME NEW s \in Seq(Rows), NEW b \in Seq(Rows), ResultsFollow(s),
         NEW k \in 1..Len(s), (s \o b)[k].role = "tool"
  PROVE  Follows(s \o b, k)
<1> DEFINE u == s \o b
<1>1. \A i \in 1..Len(s) : u[i] = s[i]
  OBVIOUS
<1> HIDE DEF u
<1>2. Follows(s, k)
  BY <1>1 DEF ResultsFollow, u
<1>3. CASE k = 1
  BY <1>3 DEF Follows
<1>4. CASE k # 1
  <2>1. k - 1 \in 1..Len(s)
    BY <1>4
  <2>2. u[k - 1] = s[k - 1] /\ u[k] = s[k]
    BY <2>1, <1>1
  <2>3. Follows(u, k)
    BY <2>2, <1>2 DEF Follows
  <2> QED BY <2>3 DEF u
<1> QED BY <1>3, <1>4

\* Rows that are no results, of which only the last may wait for some.
LEMMA PushTexts ==
  ASSUME NEW s, NEW m, NEW n, NEW T, NEW L, NEW without, NEW open \in BOOLEAN,
         Talk(s, m, without, FALSE), Account(s, n, T, L), MicroKeep \in Nat,
         NEW b, NewRows(b, n),
         \A k \in 1..Len(b) : b[k].role # "tool" /\ (b[k].calls = 0 \/ (open /\ k = Len(b)))
  PROVE  Talk(s \o b, m, without, open) /\ Account(s \o b, n + Len(b), T, L)
<1> DEFINE u == s \o b
<1>0. s \in Seq(Rows) /\ b \in Seq(Rows)
  BY DEF Talk, NewRows
<1>1. /\ u \in Seq(Rows) /\ Len(u) = Len(s) + Len(b) /\ Len(s) \in Nat /\ Len(b) \in Nat
      /\ \A k \in 1..Len(s) : u[k] = s[k]
      /\ \A k \in 1..Len(b) : u[Len(s) + k] = b[k]
      /\ \A k \in 1..Len(u) : k \in 1..Len(s) \/ \E i \in 1..Len(b) : k = Len(s) + i
  BY <1>0, Joins
<1>2. u \in Seq(Rows) /\ Front(u, m) /\ InOrderSaid(u) /\ NewestWhole(u)
  BY <1>0, PushOrder DEF Talk
<1>3. Account(u, n + Len(b), T, L)
  BY <1>0, PushAccount
<1>4. ASSUME NEW k \in 1..Len(s), u[k].role = "tool" PROVE Follows(u, k)
  BY <1>0, <1>4, OldFollow DEF Talk
<1> HIDE DEF u
<1>5. ResultsBehind(u, without, open)
  <2> SUFFICES ASSUME NEW k \in 1..Len(u), ~IsSystem(u[k]), u[k].id \notin without,
                      ~(open /\ k = Len(u)), NEW c \in 1..u[k].calls
               PROVE  k + c <= Len(u) /\ u[k + c].of = <<u[k].id, c>>
    BY DEF ResultsBehind
  <2>1. CASE k \in 1..Len(s)
    <3>1. u[k] = s[k]
      BY <2>1, <1>1
    <3>2. k + c <= Len(s) /\ s[k + c].of = <<s[k].id, c>>
      BY <2>1, <3>1 DEF Talk, ResultsBehind
    <3>3. c \in Nat /\ c >= 1
      <4>1. s[k] \in Rows
        BY <2>1, <1>0
      <4> QED BY <3>1, <4>1 DEF Rows
    <3>4. k + c \in 1..Len(s)
      BY <3>2, <3>3, <2>1
    <3>5. u[k + c] = s[k + c]
      BY <3>4, <1>1
    <3> QED BY <3>1, <3>2, <3>4, <3>5, <1>1
  <2>2. CASE \E i \in 1..Len(b) : k = Len(s) + i
    <3>1. PICK i \in 1..Len(b) : k = Len(s) + i
      BY <2>2
    <3>2. u[k] = b[i] /\ (open => i # Len(b))
      BY <3>1, <1>1
    <3>3. u[k].calls = 0
      BY <3>1, <3>2
    <3> QED BY <3>3
  <2> QED BY <2>1, <2>2, <1>1
<1>6. ResultsFollow(u)
  <2> SUFFICES ASSUME NEW k \in 1..Len(u), u[k].role = "tool" PROVE Follows(u, k)
    BY DEF ResultsFollow
  <2>1. CASE \E i \in 1..Len(b) : k = Len(s) + i
    BY <2>1, <1>1
  <2> QED BY <2>1, <1>1, <1>4
<1>7. Talk(u, m, without, open)
  BY <1>2, <1>5, <1>6 DEF Talk
<1> QED BY <1>3, <1>7 DEF u

\* The results of the batch that the last row waits for.
LEMMA PushResults ==
  ASSUME NEW s, NEW m, NEW n, NEW T, NEW L, NEW without,
         Talk(s, m, without, TRUE), Account(s, n, T, L), MicroKeep \in Nat,
         Len(s) # 0, ~IsSystem(s[Len(s)]), NEW b, NewRows(b, n), Len(b) = s[Len(s)].calls,
         \A k \in 1..Len(b) : b[k].of = <<s[Len(s)].id, k>> /\ b[k].calls = 0
  PROVE  Talk(s \o b, m, without, FALSE) /\ Account(s \o b, n + Len(b), T, L)
<1> DEFINE u == s \o b
           z == Len(s)
<1>00. s \in Seq(Rows) /\ b \in Seq(Rows)
  BY DEF Talk, NewRows
<1>0. s \in Seq(Rows) /\ b \in Seq(Rows) /\ z \in 1..z /\ s[z] \in Rows
  BY <1>00
<1>1. /\ u \in Seq(Rows) /\ Len(u) = z + Len(b) /\ z \in Nat /\ Len(b) \in Nat
      /\ \A k \in 1..z : u[k] = s[k]
      /\ \A k \in 1..Len(b) : u[z + k] = b[k]
      /\ \A k \in 1..Len(u) : k \in 1..z \/ \E i \in 1..Len(b) : k = z + i
  BY <1>00, Joins
<1>2. u \in Seq(Rows) /\ Front(u, m) /\ InOrderSaid(u) /\ NewestWhole(u)
  BY <1>0, PushOrder DEF Talk
<1>3. Account(u, n + Len(b), T, L)
  BY <1>0, PushAccount
<1>4. ASSUME NEW k \in 1..z, u[k].role = "tool" PROVE Follows(u, k)
  BY <1>0, <1>4, OldFollow DEF Talk
<1>4a. /\ Len(b) = s[z].calls
       /\ \A k \in 1..Len(b) : b[k].of = <<s[z].id, k>> /\ b[k].calls = 0
  OBVIOUS
<1>4b. /\ \A k \in 1..z : k # z => u[k] = s[k]
       /\ \A k \in 1..z : (k # z /\ ~IsSystem(s[k]) /\ s[k].id \notin without) =>
            \A c \in 1..s[k].calls : k + c <= z /\ s[k + c].of = <<s[k].id, c>>
  BY <1>1 DEF Talk, ResultsBehind
<1> HIDE DEF u, z
<1>5. ResultsBehind(u, without, FALSE)
  <2> SUFFICES ASSUME NEW k \in 1..Len(u), ~IsSystem(u[k]), u[k].id \notin without,
                      NEW c \in 1..u[k].calls
               PROVE  k + c <= Len(u) /\ u[k + c].of = <<u[k].id, c>>
    BY DEF ResultsBehind
  <2>1. CASE k \in 1..z /\ k # z
    <3>1. u[k] = s[k]
      BY <2>1, <1>1
    <3>2. k + c <= z /\ s[k + c].of = <<s[k].id, c>>
      BY <2>1, <3>1, <1>4b
    <3>3. c \in Nat /\ c >= 1
      <4>1. s[k] \in Rows
        BY <2>1, <1>0 DEF z
      <4> QED BY <3>1, <4>1 DEF Rows
    <3>4. k + c \in 1..z
      BY <3>2, <3>3, <2>1
    <3>5. u[k + c] = s[k + c]
      BY <3>4, <1>1
    <3> QED BY <3>1, <3>2, <3>4, <3>5, <1>1, SMTT(30)
  <2>2. CASE k = z
    <3>1. u[k] = s[z] /\ c \in 1..Len(b)
      BY <2>2, <1>0, <1>1, <1>4a
    <3>2. u[z + c] = b[c] /\ b[c].of = <<s[z].id, c>> /\ c <= Len(b)
      BY <3>1, <1>1, <1>4a
    <3> QED BY <2>2, <3>1, <3>2, <1>1
  <2>3. CASE \E i \in 1..Len(b) : k = z + i
    <3>1. PICK i \in 1..Len(b) : k = z + i
      BY <2>3
    <3>2. u[k].calls = 0
      BY <3>1, <1>1, <1>4a
    <3> QED BY <3>2
  <2> QED BY <2>1, <2>2, <2>3, <1>1
<1>6. ResultsFollow(u)
  <2> SUFFICES ASSUME NEW k \in 1..Len(u), u[k].role = "tool" PROVE Follows(u, k)
    BY DEF ResultsFollow
  <2>1. CASE \E i \in 1..Len(b) : k = z + i
    <3>1. PICK i \in 1..Len(b) : k = z + i
      BY <2>1
    <3>1a. u[k] = b[i] /\ b[i].of = <<s[z].id, i>>
      BY <3>1, <1>1, <1>4a
    <3>2. u[k].of = <<s[z].id, i>> /\ u[k].of[1] = s[z].id /\ u[k].of[2] = i
      BY <3>1a
    <3>3. CASE i = 1
      <4>1. k - 1 = z /\ u[k - 1] = s[z]
        BY <3>1, <3>3, <1>0, <1>1
      <4> QED BY <3>2, <3>3, <4>1 DEF Follows
    <3>4. CASE i # 1
      <4>1. i - 1 \in 1..Len(b) /\ k - 1 = z + (i - 1)
        <5>1. z \in Nat /\ Len(b) \in Nat
          BY <1>1
        <5> HIDE DEF z, u
        <5> QED BY <3>1, <3>4, <5>1, SMTT(30)
      <4>2. u[k - 1].of = <<s[z].id, i - 1>>
        BY <4>1, <1>1, <1>4a
      <4> QED BY <3>2, <4>2 DEF Follows
    <3> QED BY <3>3, <3>4
  <2> QED BY <2>1, <1>1, <1>4
<1>7. Talk(u, m, without, FALSE)
  BY <1>2, <1>5, <1>6 DEF Talk
<1> QED BY <1>3, <1>7 DEF u, z

LEMMA MessagesKept ==
  ASSUME NEW s, NEW t, NEW n \in Nat, NEW m \in Nat, NEW p \in Nat, n <= p,
         NEW without, NEW open, Talk(s, n, without, open), Newest(t, m, s, p)
  PROVE  /\ \A k : IsMessage(t, k) => k > m /\ IsMessage(s, k - m + p) /\ t[k] = s[k - m + p]
         /\ \A k : IsNote(t, k) => k \in 1..m
         /\ \A k : IsMessage(s, k) /\ k > p => IsMessage(t, k - p + m) /\ t[k - p + m] = s[k]
<1> DEFINE d == Len(s) - p
<1>1. /\ s \in Seq(Rows) /\ Len(s) \in Nat /\ t \in Seq(Rows) /\ Len(t) = m + d /\ d \in Nat
      /\ \A k \in 1..m : IsSystem(t[k])
      /\ \A k \in 1..d : t[m + k] = s[p + k]
      /\ \A k \in 1..Len(s) : IsSystem(s[k]) <=> k <= n
  BY DEF Talk, Newest, Front
<1>1a. Len(s) \in Nat /\ d \in Nat /\ Len(t) = m + d /\ d = Len(s) - p
  BY <1>1
<1>2. ASSUME NEW k \in 1..Len(t), ~(k <= m)
      PROVE  k - m + p \in 1..Len(s) /\ t[k] = s[k - m + p] /\ ~IsSystem(t[k])
  <2>1. k - m \in 1..d /\ m + (k - m) = k /\ p + (k - m) = k - m + p
    <3> HIDE DEF d
    <3>1. k \in 1..(m + d)
      BY <1>1a, <1>2
    <3> QED BY <3>1, <1>1a, <1>2
  <2>2. t[k] = s[k - m + p] /\ k - m + p \in 1..Len(s)
    <3>1. t[k] = s[k - m + p]
      BY <2>1, <1>1
    <3>2. p + (k - m) \in 1..Len(s)
      BY <2>1, <1>1a
    <3> QED BY <2>1, <3>1, <3>2
  <2>3. ~(k - m + p <= n)
    <3>1. k \in Int /\ k > m
      BY <1>1a, <1>2
    <3> QED BY <3>1
  <2> QED BY <2>2, <2>3, <1>1
<1>3. ASSUME NEW k, IsMessage(t, k)
      PROVE  k > m /\ IsMessage(s, k - m + p) /\ t[k] = s[k - m + p]
  <2>1. k \in 1..Len(t) /\ ~IsSystem(t[k])
    BY <1>3 DEF IsMessage
  <2>2. k \notin 1..m
    BY <2>1, <1>1
  <2>3. ~(k <= m) /\ k > m
    <3>1. k \in Nat /\ k >= 1
      BY <2>1
    <3> QED BY <3>1, <2>2
  <2>4. k - m + p \in 1..Len(s) /\ t[k] = s[k - m + p]
    BY <2>1, <2>3, <1>2
  <2> QED BY <2>1, <2>3, <2>4 DEF IsMessage
<1>4. ASSUME NEW k, IsNote(t, k) PROVE k \in 1..m
  BY <1>1, <1>2, <1>4 DEF IsNote
<1>5. ASSUME NEW k, IsMessage(s, k), k > p
      PROVE  IsMessage(t, k - p + m) /\ t[k - p + m] = s[k]
  <2>1. k \in 1..Len(s) /\ k - p + m \in 1..Len(t) /\ ~(k - p + m <= m)
        /\ (k - p + m) - m + p = k
    <3>1. k \in 1..Len(s)
      BY <1>5 DEF IsMessage
    <3>2. k - p \in 1..d
      BY <3>1, <1>1a, <1>5
    <3> HIDE DEF d
    <3> QED BY <3>1, <3>2, <1>1a, <1>5
  <2>2. t[k - p + m] = s[k]
    BY <2>1, <1>2
  <2> QED BY <2>1, <2>2, <1>2 DEF IsMessage
<1> QED BY <1>3, <1>4, <1>5

\* Rows n + 1 to p of s.
Oldest(s, n, p) == {s[k].id : k \in (n + 1)..p}

LEMMA OldestFacts ==
  ASSUME NEW s, NEW n \in Nat, NEW p \in Nat, n <= p, p <= Len(s), NEW without, NEW open,
         Talk(s, n, without, open)
  PROVE  /\ Oldest(s, n, p) \in SUBSET Ids(s)
         /\ \A k : IsMessage(s, k) => (s[k].id \in Oldest(s, n, p) <=> k <= p)
         /\ \A k : IsMessage(s, k) /\ k > p => \A old \in Oldest(s, n, p) : old < s[k].id
         /\ \A k : IsNote(s, k) => k \in 1..n
         /\ \A k \in 1..n : IsNote(s, k)
<1>1. /\ s \in Seq(Rows) /\ Len(s) \in Nat /\ n <= Len(s)
      /\ \A k \in 1..Len(s) : IsSystem(s[k]) <=> k <= n
  BY DEF Talk, Front
<1>2. \A k \in (n + 1)..p : IsMessage(s, k)
  BY <1>1 DEF IsMessage
<1>3. \A k : IsMessage(s, k) <=> k \in (n + 1)..Len(s)
  BY <1>1 DEF IsMessage
<1>4. \A i, j : IsMessage(s, i) /\ IsMessage(s, j) /\ i < j => s[i].id < s[j].id
  BY DEF Talk, InOrderSaid, IsMessage
<1>5. \A k : IsMessage(s, k) => s[k].id \in Nat
  BY <1>1, IdsAre
<1>6. Oldest(s, n, p) \in SUBSET Ids(s)
  BY <1>1, <1>2, IdsAre DEF Oldest
<1>7. ASSUME NEW k, IsMessage(s, k), k > p, NEW old \in Oldest(s, n, p)
      PROVE  old < s[k].id
  <2>1. PICK i \in (n + 1)..p : old = s[i].id
    BY DEF Oldest
  <2>2. i < k
    BY <2>1, <1>3, <1>7
  <2> QED BY <2>1, <2>2, <1>2, <1>4, <1>7
<1>8. ASSUME NEW k, IsMessage(s, k) PROVE s[k].id \in Oldest(s, n, p) <=> k <= p
  <2>1. k \in (n + 1)..Len(s)
    BY <1>3, <1>8
  <2>2. CASE k <= p
    BY <2>1, <2>2 DEF Oldest
  <2>3. CASE ~(k <= p)
    <3>1. k > p
      BY <2>1, <2>3
    <3>2. ~(s[k].id < s[k].id)
      BY <1>5, <1>8
    <3> QED BY <3>1, <3>2, <1>7, <1>8, <2>3
  <2> QED BY <2>2, <2>3
<1> QED BY <1>1, <1>6, <1>7, <1>8 DEF IsNote

\* t is s with its oldest messages, up to p, told in a summary.
IsFold(t, s, n, p) ==
  /\ Newest(t, n + 1, s, p)
  /\ \A k \in 1..n : t[k] = s[k]
  /\ t[n + 1].covers = Oldest(s, n, p)

LEMMA FoldAccount ==
  ASSUME NEW s, NEW t, NEW n \in Nat, NEW p \in Nat, n <= p, p <= Len(s), NEW without, NEW open,
         Talk(s, n, without, open), IsFold(t, s, n, p), NEW N, NEW T, NEW L, Account(s, N, T, L)
  PROVE  Account(t, N, T, L)
<1> DEFINE q == n + 1
           new == Oldest(s, n, p)
<1>1. /\ s \in Seq(Rows) /\ t \in Seq(Rows) /\ q \in Nat /\ Len(t) \in Nat /\ q <= Len(t)
      /\ \A k \in 1..q : IsNote(t, k)
      /\ \A k \in 1..n : t[k] = s[k] /\ IsNote(s, k)
      /\ t[q].covers = new
  <2>1. Newest(t, q, s, p) /\ s \in Seq(Rows) /\ Len(s) \in Nat
    BY DEF IsFold, Talk
  <2>2. t \in Seq(Rows) /\ q \in Nat /\ Len(t) = q + (Len(s) - p) /\ \A k \in 1..q : IsSystem(t[k])
    BY <2>1 DEF Newest
  <2> QED BY <2>1, <2>2, OldestFacts DEF IsFold, IsNote
<1>2. /\ \A k : IsMessage(t, k) => k > q /\ IsMessage(s, k - q + p) /\ t[k] = s[k - q + p]
      /\ \A k : IsNote(t, k) => k \in 1..q
      /\ \A k : IsMessage(s, k) /\ k > p => IsMessage(t, k - p + q) /\ t[k - p + q] = s[k]
  BY <1>1, MessagesKept DEF IsFold
<1>3. /\ new \in SUBSET Ids(s)
      /\ \A k : IsMessage(s, k) => (s[k].id \in new <=> k <= p)
      /\ \A k : IsMessage(s, k) /\ k > p => \A old \in new : old < s[k].id
      /\ \A k : IsNote(s, k) => k \in 1..n
  BY OldestFacts
<1>4. ASSUME NEW k, IsMessage(t, k)
      PROVE  IsMessage(s, k - q + p) /\ k - q + p > p /\ t[k] = s[k - q + p]
  <2>1. k > q /\ k \in Nat
    BY <1>2, <1>4 DEF IsMessage
  <2>2. k - q + p > p
    BY <2>1
  <2> QED BY <2>2, <1>2, <1>4
<1>5. \A k : IsNote(t, k) => (k \in 1..n /\ t[k] = s[k] /\ IsNote(s, k)) \/ (k = q /\ t[k].covers = new)
  BY <1>1, <1>2
<1> HIDE DEF new
<1>6. Ids(t) = Ids(s)
  <2>1. ASSUME NEW x \in Ids(t) PROVE x \in Ids(s)
    <3>1. CASE \E k : IsMessage(t, k) /\ x = t[k].id
      BY <3>1, <1>1, <1>4, IdsAre
    <3>2. CASE \E k : IsNote(t, k) /\ x \in t[k].covers
      <4>1. PICK k : IsNote(t, k) /\ x \in t[k].covers
        BY <3>2
      <4>2. CASE k \in 1..n /\ t[k] = s[k] /\ IsNote(s, k)
        BY <4>1, <4>2, <1>1, IdsAre
      <4>3. CASE k = q /\ t[k].covers = new
        BY <4>1, <4>3, <1>3
      <4> QED BY <4>1, <4>2, <4>3, <1>5
    <3> QED BY <3>1, <3>2, <1>1, IdsAre
  <2>2. ASSUME NEW x \in Ids(s) PROVE x \in Ids(t)
    <3>1. CASE \E k : IsMessage(s, k) /\ x = s[k].id
      <4>1. PICK k : IsMessage(s, k) /\ x = s[k].id
        BY <3>1
      <4>2. CASE k <= p
        <5>1. x \in t[q].covers /\ IsNote(t, q)
          BY <4>1, <4>2, <1>1, <1>3
        <5> QED BY <5>1, <1>1, IdsAre
      <4>3. CASE k > p
        <5>1. IsMessage(t, k - p + q) /\ t[k - p + q] = s[k]
          BY <4>1, <4>3, <1>2
        <5> QED BY <4>1, <5>1, <1>1, IdsAre
      <4>4. k \in Int
        BY <4>1 DEF IsMessage
      <4> QED BY <4>2, <4>3, <4>4
    <3>2. CASE \E k : IsNote(s, k) /\ x \in s[k].covers
      <4>1. PICK k : IsNote(s, k) /\ x \in s[k].covers
        BY <3>2
      <4>2. k \in 1..n /\ t[k] = s[k] /\ IsNote(t, k)
        BY <4>1, <1>1, <1>3
      <4> QED BY <4>1, <4>2, <1>1, IdsAre
    <3> QED BY <3>1, <3>2, <1>1, IdsAre
  <2> QED BY <2>1, <2>2
<1>7. ASSUME NEW k, IsMessage(t, k), NEW old \in T PROVE old < t[k].id
  BY <1>4, <1>7 DEF Account
<1>8. ASSUME NEW i, NEW k, IsNote(t, i), IsMessage(t, k), NEW old \in t[i].covers
      PROVE  old < t[k].id
  <2>1. IsMessage(s, k - q + p) /\ k - q + p > p /\ t[k] = s[k - q + p]
    BY <1>4, <1>8
  <2>2. CASE t[i] = s[i] /\ IsNote(s, i)
    BY <2>1, <2>2, <1>8 DEF Account
  <2>3. CASE t[i].covers = new
    BY <2>1, <2>3, <1>3, <1>8
  <2> QED BY <2>2, <2>3, <1>5, <1>8
<1>9. \A i : IsNote(s, i) => s[i].covers \cap new = {}
  <2> SUFFICES ASSUME NEW i, IsNote(s, i), NEW x \in new, x \in s[i].covers PROVE FALSE
    OBVIOUS
  <2>1. PICK k \in (n + 1)..p : x = s[k].id
    BY DEF new, Oldest
  <2>2. IsMessage(s, k)
    BY <2>1, <1>1 DEF IsMessage, Talk, Front
  <2>3. x < s[k].id /\ s[k].id \in Nat
    BY <2>2, <1>1, IdsAre DEF Account
  <2> QED BY <2>1, <2>3
<1>10. ASSUME NEW i, NEW j, IsNote(t, i), IsNote(t, j), i # j
       PROVE  t[i].covers \cap t[j].covers = {}
  <2>1. CASE t[i] = s[i] /\ IsNote(s, i) /\ t[j] = s[j] /\ IsNote(s, j)
    BY <2>1, <1>10 DEF Account
  <2>2. CASE t[i] = s[i] /\ IsNote(s, i) /\ t[j].covers = new
    BY <2>2, <1>9
  <2>3. CASE t[i].covers = new /\ t[j] = s[j] /\ IsNote(s, j)
    BY <2>3, <1>9
  <2> QED BY <2>1, <2>2, <2>3, <1>5, <1>10
<1> QED BY <1>6, <1>7, <1>8, <1>10 DEF Account

\* t is s without its oldest messages, up to p.
IsTrim(t, s, n, p) ==
  /\ Newest(t, n, s, p)
  /\ \A k \in 1..n : t[k] = s[k]

LEMMA TrimAccount ==
  ASSUME NEW s, NEW t, NEW n \in Nat, NEW p \in Nat, n <= p, p <= Len(s), NEW without, NEW open,
         Talk(s, n, without, open), IsTrim(t, s, n, p), NEW N, NEW T, NEW L, Account(s, N, T, L)
  PROVE  Account(t, N, T \cup Oldest(s, n, p), L)
<1> DEFINE new == Oldest(s, n, p)
<1>1. /\ s \in Seq(Rows) /\ t \in Seq(Rows)
      /\ \A k \in 1..n : t[k] = s[k] /\ IsNote(s, k) /\ IsNote(t, k)
  <2>1. Newest(t, n, s, p) /\ s \in Seq(Rows) /\ Len(s) \in Nat
    BY DEF IsTrim, Talk
  <2>2. t \in Seq(Rows) /\ Len(t) = n + (Len(s) - p) /\ \A k \in 1..n : IsSystem(t[k])
    BY <2>1 DEF Newest
  <2> QED BY <2>1, <2>2, OldestFacts DEF IsTrim, IsNote
<1>2. /\ \A k : IsMessage(t, k) => k > n /\ IsMessage(s, k - n + p) /\ t[k] = s[k - n + p]
      /\ \A k : IsNote(t, k) => k \in 1..n
      /\ \A k : IsMessage(s, k) /\ k > p => IsMessage(t, k - p + n) /\ t[k - p + n] = s[k]
  BY <1>1, MessagesKept DEF IsTrim
<1>3. /\ new \in SUBSET Ids(s)
      /\ \A k : IsMessage(s, k) => (s[k].id \in new <=> k <= p)
      /\ \A k : IsMessage(s, k) /\ k > p => \A old \in new : old < s[k].id
      /\ \A k : IsNote(s, k) => k \in 1..n
  BY OldestFacts
<1>4. ASSUME NEW k, IsMessage(t, k)
      PROVE  IsMessage(s, k - n + p) /\ k - n + p > p /\ t[k] = s[k - n + p]
  <2>1. k > n /\ k \in Nat
    BY <1>2, <1>4 DEF IsMessage
  <2>2. k - n + p > p
    BY <2>1
  <2> QED BY <2>2, <1>2, <1>4
<1>5. \A k : IsNote(t, k) <=> IsNote(s, k)
  BY <1>1, <1>2, <1>3
<1>6. \A k : IsNote(s, k) => t[k] = s[k]
  BY <1>1, <1>3
<1>7. \A i : IsNote(s, i) => s[i].covers \cap new = {}
  <2> SUFFICES ASSUME NEW i, IsNote(s, i), NEW x \in new, x \in s[i].covers PROVE FALSE
    OBVIOUS
  <2>1. PICK k \in (n + 1)..p : x = s[k].id
    BY DEF Oldest
  <2>2. IsMessage(s, k)
    BY <2>1, <1>1 DEF IsMessage, Talk, Front
  <2>3. x < s[k].id /\ s[k].id \in Nat
    BY <2>2, <1>1, IdsAre DEF Account
  <2> QED BY <2>1, <2>3
<1> HIDE DEF new
<1>8. Ids(t) = Ids(s) \ new
  <2>1. ASSUME NEW x \in Ids(t) PROVE x \in Ids(s) /\ x \notin new
    <3>1. CASE \E k : IsMessage(t, k) /\ x = t[k].id
      <4>1. PICK k : IsMessage(t, k) /\ x = t[k].id
        BY <3>1
      <4>2. IsMessage(s, k - n + p) /\ k - n + p > p /\ x = s[k - n + p].id
        BY <4>1, <1>4
      <4>3. ~(k - n + p <= p)
        BY <4>2 DEF IsMessage
      <4> QED BY <4>2, <4>3, <1>1, <1>3, IdsAre
    <3>2. CASE \E k : IsNote(t, k) /\ x \in t[k].covers
      <4>1. PICK k : IsNote(t, k) /\ x \in t[k].covers
        BY <3>2
      <4>2. IsNote(s, k) /\ x \in s[k].covers
        BY <4>1, <1>5, <1>6
      <4> QED BY <4>2, <1>1, <1>7, IdsAre
    <3> QED BY <3>1, <3>2, <1>1, IdsAre
  <2>2. ASSUME NEW x \in Ids(s), x \notin new PROVE x \in Ids(t)
    <3>1. CASE \E k : IsMessage(s, k) /\ x = s[k].id
      <4>1. PICK k : IsMessage(s, k) /\ x = s[k].id
        BY <3>1
      <4>2. k > p
        <5>1. ~(k <= p) /\ k \in Int
          BY <4>1, <2>2, <1>3 DEF IsMessage
        <5> QED BY <5>1
      <4>3. IsMessage(t, k - p + n) /\ t[k - p + n] = s[k]
        BY <4>1, <4>2, <1>2
      <4> QED BY <4>1, <4>3, <1>1, IdsAre
    <3>2. CASE \E k : IsNote(s, k) /\ x \in s[k].covers
      <4>1. PICK k : IsNote(s, k) /\ x \in s[k].covers
        BY <3>2
      <4>2. t[k] = s[k] /\ IsNote(t, k)
        BY <4>1, <1>5, <1>6
      <4> QED BY <4>1, <4>2, <1>1, IdsAre
    <3> QED BY <3>1, <3>2, <1>1, IdsAre
  <2> QED BY <2>1, <2>2
<1>9. Ids(s) = (1..N) \ (T \cup L) /\ T \in SUBSET (1..N) /\ L \in SUBSET (1..N) /\ N \in Nat
  BY DEF Account
<1>10. Ids(t) = (1..N) \ ((T \cup new) \cup L) /\ T \cup new \in SUBSET (1..N)
  BY <1>3, <1>8, <1>9
<1>11. ASSUME NEW k, IsMessage(t, k), NEW old \in T \cup new PROVE old < t[k].id
  <2>1. IsMessage(s, k - n + p) /\ k - n + p > p /\ t[k] = s[k - n + p]
    BY <1>4, <1>11
  <2>2. CASE old \in T
    BY <2>1, <2>2 DEF Account
  <2>3. CASE old \in new
    BY <2>1, <2>3, <1>3
  <2> QED BY <2>2, <2>3, <1>11
<1>12. ASSUME NEW i, NEW k, IsNote(t, i), IsMessage(t, k), NEW old \in t[i].covers
       PROVE  old < t[k].id
  BY <1>4, <1>5, <1>6, <1>12 DEF Account
<1>13. ASSUME NEW i, NEW j, IsNote(t, i), IsNote(t, j), i # j
       PROVE  t[i].covers \cap t[j].covers = {}
  BY <1>5, <1>6, <1>13 DEF Account
<1>14. Account(t, N, T \cup new, L)
  BY <1>9, <1>10, <1>11, <1>12, <1>13 DEF Account
<1> QED BY <1>14 DEF new

\* t is s, perhaps with old results cleared.
LEMMA SameRows ==
  ASSUME NEW s, NEW t \in Seq(Rows), Len(t) = Len(s), NEW n, NEW without, NEW open,
         Talk(s, n, without, open), NEW N, NEW T, NEW L, Account(s, N, T, L),
         \A k \in 1..Len(s) :
           /\ t[k].role = s[k].role /\ t[k].id = s[k].id /\ t[k].calls = s[k].calls
           /\ t[k].of = s[k].of /\ t[k].covers = s[k].covers
           /\ t[k].cleared => s[k].cleared \/ (s[k].role = "tool" /\ k + MicroKeep <= Len(s))
  PROVE  Talk(t, n, without, open) /\ Account(t, N, T, L)
<1>1. s \in Seq(Rows) /\ Len(s) \in Nat /\ \A k \in 1..Len(s) : s[k] \in Rows
  BY DEF Talk
<1>2. \A k \in 1..Len(s) : IsSystem(t[k]) <=> IsSystem(s[k])
  BY DEF IsSystem
<1>3. \A k : (IsNote(t, k) <=> IsNote(s, k)) /\ (IsMessage(t, k) <=> IsMessage(s, k))
  BY <1>2 DEF IsNote, IsMessage
<1>4. /\ \A k : IsNote(s, k) => t[k].covers = s[k].covers
      /\ \A k : IsMessage(s, k) => t[k].id = s[k].id
  BY DEF IsNote, IsMessage
<1>5. Front(t, n)
  BY <1>2 DEF Talk, Front
<1>6. InOrderSaid(t)
  BY <1>2 DEF Talk, InOrderSaid
<1>7. NewestWhole(t)
  BY <1>2 DEF Talk, NewestWhole
<1>8. ResultsBehind(t, without, open)
  <2> SUFFICES ASSUME NEW k \in 1..Len(t), ~IsSystem(t[k]), t[k].id \notin without,
                      ~(open /\ k = Len(t)), NEW c \in 1..t[k].calls
               PROVE  k + c <= Len(t) /\ t[k + c].of = <<t[k].id, c>>
    BY DEF ResultsBehind
  <2>1. k + c <= Len(s) /\ s[k + c].of = <<s[k].id, c>>
    BY <1>2 DEF Talk, ResultsBehind
  <2>2. c \in Nat /\ c >= 1
    BY <1>1 DEF Rows
  <2>3. k + c \in 1..Len(s)
    BY <2>1, <2>2, <1>1
  <2> QED BY <2>1, <2>3
<1>9. ResultsFollow(t)
  <2> SUFFICES ASSUME NEW k \in 1..Len(t), t[k].role = "tool" PROVE Follows(t, k)
    BY DEF ResultsFollow
  <2>1. Follows(s, k)
    BY DEF Talk, ResultsFollow
  <2>2. CASE k # 1
    <3>1. k - 1 \in 1..Len(s)
      BY <2>2, <1>1
    <3>2. /\ t[k - 1].id = s[k - 1].id /\ t[k - 1].of = s[k - 1].of /\ t[k].of = s[k].of
          /\ IsSystem(t[k - 1]) <=> IsSystem(s[k - 1])
      BY <3>1, <1>2
    <3> QED BY <2>1, <2>2, <3>2 DEF Follows
  <2> QED BY <2>2 DEF Follows
<1>10. Ids(t) = Ids(s)
  <2>1. ASSUME NEW x \in Ids(t) PROVE x \in Ids(s)
    <3>1. \/ \E k : IsMessage(t, k) /\ x = t[k].id
          \/ \E k : IsNote(t, k) /\ x \in t[k].covers
      BY IdsAre
    <3>2. \/ \E k : IsMessage(s, k) /\ x = s[k].id
          \/ \E k : IsNote(s, k) /\ x \in s[k].covers
      BY <3>1, <1>3, <1>4
    <3> QED BY <3>2, <1>1, IdsAre
  <2>2. ASSUME NEW x \in Ids(s) PROVE x \in Ids(t)
    <3>1. \/ \E k : IsMessage(s, k) /\ x = s[k].id
          \/ \E k : IsNote(s, k) /\ x \in s[k].covers
      BY <1>1, IdsAre
    <3>2. \/ \E k : IsMessage(t, k) /\ x = t[k].id
          \/ \E k : IsNote(t, k) /\ x \in t[k].covers
      BY <3>1, <1>3, <1>4
    <3> QED BY <3>2, IdsAre
  <2> QED BY <2>1, <2>2
<1>11. Account(t, N, T, L)
  BY <1>3, <1>4, <1>10 DEF Account
<1> QED BY <1>5, <1>6, <1>7, <1>8, <1>9, <1>11 DEF Talk

\* t has some texts of s, in their order, and no calls without results but those
\* of the answers in without.
IsThinned(t, s, f, without) ==
  /\ t \in Seq(Rows) /\ f \in [1..Len(t) -> 1..Len(s)]
  /\ \A i, j \in 1..Len(t) : i < j => f[i] < f[j]
  /\ \A k \in 1..Len(t) :
       /\ t[k].role \in {"user", "assistant"} /\ s[f[k]].role = t[k].role
       /\ t[k].id = s[f[k]].id /\ t[k].cleared = s[f[k]].cleared
       /\ t[k].calls = 0 \/ t[k].id \in without

LEMMA ThinnedRows ==
  ASSUME NEW s, NEW t, NEW f, NEW n, NEW before, NEW without, NEW open,
         IsThinned(t, s, f, without), Talk(s, n, before, open),
         NEW N, NEW T, NEW L, Account(s, N, T, L)
  PROVE  Talk(t, 0, without, FALSE) /\ Account(t, N, T, L \cup (Ids(s) \ Ids(t)))
<1>1. /\ s \in Seq(Rows) /\ Len(s) \in Nat /\ t \in Seq(Rows) /\ Len(t) \in Nat
      /\ \A k \in 1..Len(t) : f[k] \in 1..Len(s)
  BY DEF Talk, IsThinned
<1>2. \A k \in 1..Len(t) : ~IsSystem(t[k]) /\ ~IsSystem(s[f[k]]) /\ t[k].role # "tool"
  BY DEF IsThinned, IsSystem
<1>3. \A k : ~IsNote(t, k)
  BY <1>2 DEF IsNote
<1>4. \A k : IsMessage(t, k) => k \in 1..Len(t) /\ IsMessage(s, f[k]) /\ t[k].id = s[f[k]].id
  BY <1>1, <1>2 DEF IsMessage, IsThinned
<1>5. Front(t, 0)
  BY <1>1, <1>2 DEF Front
<1>6. InOrderSaid(t)
  <2> SUFFICES ASSUME NEW i \in 1..Len(t), NEW j \in 1..Len(t), i < j
               PROVE  t[i].id < t[j].id
    BY DEF InOrderSaid
  <2>1. f[i] < f[j] /\ t[i].id = s[f[i]].id /\ t[j].id = s[f[j]].id
    BY DEF IsThinned
  <2> QED BY <2>1, <1>1, <1>2 DEF Talk, InOrderSaid
<1>7. NewestWhole(t)
  <2> SUFFICES ASSUME NEW k \in 1..Len(t), t[k].cleared PROVE FALSE
    BY DEF NewestWhole
  <2>1. s[f[k]].cleared /\ s[f[k]].role = t[k].role
    BY Zenon DEF IsThinned
  <2>2. s[f[k]].role = "tool"
    BY <2>1, <1>1, <1>2 DEF Talk, NewestWhole
  <2> QED BY <2>1, <2>2, <1>2
<1>8. ResultsBehind(t, without, FALSE)
  <2> SUFFICES ASSUME NEW k \in 1..Len(t), t[k].id \notin without, NEW c \in 1..t[k].calls
               PROVE  FALSE
    BY DEF ResultsBehind
  <2>1. t[k].calls = 0
    BY DEF IsThinned
  <2> QED BY <2>1
<1>9. ResultsFollow(t)
  BY <1>2 DEF ResultsFollow
<1>10. Ids(t) \subseteq Ids(s)
  <2> SUFFICES ASSUME NEW x \in Ids(t) PROVE x \in Ids(s)
    OBVIOUS
  <2>1. PICK k : IsMessage(t, k) /\ x = t[k].id
    BY <1>1, <1>3, IdsAre
  <2>2. IsMessage(s, f[k]) /\ x = s[f[k]].id
    BY <2>1, <1>4
  <2> QED BY <2>2, <1>1, IdsAre
<1>11. /\ Ids(t) = (1..N) \ (T \cup (L \cup (Ids(s) \ Ids(t))))
       /\ L \cup (Ids(s) \ Ids(t)) \in SUBSET (1..N)
  BY <1>10 DEF Account
<1>12. ASSUME NEW k, IsMessage(t, k), NEW old \in T PROVE old < t[k].id
  BY <1>4, <1>12 DEF Account
<1>13. Account(t, N, T, L \cup (Ids(s) \ Ids(t)))
  BY <1>3, <1>11, <1>12 DEF Account
<1> QED BY <1>1, <1>5, <1>6, <1>7, <1>8, <1>9, <1>13 DEF Talk

LEMMA NewestLost ==
  ASSUME NEW s \in Seq(Rows), NEW n, NEW T, NEW L, Account(s, n, T, L)
  PROVE  Account(s, n + 1, T, L \cup {n + 1})
<1>1. n \in Nat /\ Ids(s) = (1..n) \ (T \cup L) /\ T \in SUBSET (1..n) /\ L \in SUBSET (1..n)
  BY DEF Account
<1>2. 1..(n + 1) = (1..n) \cup {n + 1} /\ n + 1 \notin 1..n /\ n + 1 \in Nat
  BY <1>1
<1>3. Ids(s) = (1..(n + 1)) \ (T \cup (L \cup {n + 1}))
  BY <1>1, <1>2
<1> QED BY <1>1, <1>2, <1>3 DEF Account

\* More answers may be without results.
LEMMA WithoutMore ==
  ASSUME NEW s, NEW n, NEW without, NEW more, without \subseteq more, NEW open,
         Talk(s, n, without, open)
  PROVE  Talk(s, n, more, open)
BY DEF Talk, ResultsBehind

(***************************************************************************)
(* The operators of the model on rows in this order.                       *)
(***************************************************************************)
LEMMA LeadingIs ==
  ASSUME NEW s \in Seq(Rows), NEW n, Front(s, n) PROVE Leading(s) = n
<1>1. n \in Nat /\ n <= Len(s) /\ DOMAIN s = 1..Len(s) /\ Len(s) \in Nat
      /\ \A k \in 1..Len(s) : IsSystem(s[k]) <=> k <= n
  BY DEF Front
<1>2. {i \in DOMAIN s : \A k \in 1..i : IsSystem(s[k])} = 1..n
  <2>1. ASSUME NEW i \in 1..Len(s), \A k \in 1..i : IsSystem(s[k]) PROVE i \in 1..n
    <3>1. IsSystem(s[i])
      BY <2>1
    <3> QED BY <3>1, <1>1
  <2>2. ASSUME NEW i \in 1..n, NEW k \in 1..i PROVE i \in 1..Len(s) /\ IsSystem(s[k])
    <3>1. k \in 1..Len(s) /\ k <= n /\ i \in 1..Len(s)
      BY <1>1
    <3> QED BY <3>1, <1>1
  <2> QED BY <1>1, <2>1, <2>2
<1>3. Cardinality(1..n) = n
  BY <1>1, FS_Interval
<1> QED BY <1>2, <1>3 DEF Leading

LEMMA Parted ==
  ASSUME NEW s \in Seq(Rows), NEW n, Front(s, n)
  PROVE  IsCut(SystemRowsOf(s), s, n, Len(s) + 1) /\ IsCut(MessagesOf(s), s, 0, n + 1)
<1>1. n \in Nat /\ n <= Len(s) /\ DOMAIN s = 1..Len(s) /\ Len(s) \in Nat
      /\ \A k \in 1..Len(s) : IsSystem(s[k]) <=> k <= n
  BY DEF Front
<1>2. {k \in DOMAIN s : IsSystem(s[k])} = Ends(n, Len(s) + 1, Len(s))
  BY <1>1 DEF Ends
<1>3. {k \in DOMAIN s : ~IsSystem(s[k])} = Ends(0, n + 1, Len(s))
  BY <1>1 DEF Ends
<1>4. IsCut(SystemRowsOf(s), s, n, Len(s) + 1)
  <2>1. Len(s) + 1 \in 1..(Len(s) + 1) /\ n < Len(s) + 1
    BY <1>1
  <2>2. IsCut(At(s, Ends(n, Len(s) + 1, Len(s))), s, n, Len(s) + 1)
    BY <1>1, <2>1, AtEnds
  <2> QED BY <1>2, <2>2 DEF SystemRowsOf
<1>5. IsCut(MessagesOf(s), s, 0, n + 1)
  <2>1. n + 1 \in 1..(Len(s) + 1) /\ 0 < n + 1 /\ 0 \in Nat
    BY <1>1
  <2>2. IsCut(At(s, Ends(0, n + 1, Len(s))), s, 0, n + 1)
    BY <2>1, AtEnds
  <2> QED BY <1>3, <2>2 DEF MessagesOf
<1> QED BY <1>4, <1>5

LEMMA MessagesNewest ==
  ASSUME NEW s \in Seq(Rows), NEW n, Front(s, n)
  PROVE  Newest(MessagesOf(s), 0, s, n)
<1>1. n \in Nat /\ n <= Len(s) /\ Len(s) \in Nat
  BY DEF Front
<1> DEFINE t == MessagesOf(s)
<1>2. IsCut(t, s, 0, n + 1)
  BY Parted
<1> HIDE DEF t
<1>3. t \in Seq(Rows) /\ Len(t) = Len(s) - n /\ \A k \in 1..(Len(s) - n) : t[k] = s[n + k]
  <2>1. Len(s) + 1 - (n + 1) = Len(s) - n /\ \A k \in 1..(Len(s) - n) : n + 1 - 1 + k = n + k /\ 0 + k = k
    BY <1>1
  <2> QED BY <1>1, <1>2, <2>1 DEF IsCut
<1>4. Newest(t, 0, s, n)
  BY <1>1, <1>3 DEF Newest
<1> QED BY <1>4 DEF t

LEMMA RowMade ==
  ASSUME NEW id \in Nat, NEW role \in {"user", "assistant", "tool", "system"}
  PROVE  /\ Row(role, id) \in Rows
         /\ LET r == Row(role, id)
            IN  /\ r.role = role /\ r.id = id /\ r.calls = 0 /\ r.of = <<0, 0>>
                /\ ~r.cleared /\ r.covers = {}
BY DEF Row, Rows

LEMMA SummaryMade ==
  ASSUME NEW covers \in SUBSET Nat
  PROVE  Summary(covers) \in Rows /\ IsSystem(Summary(covers)) /\ Summary(covers).covers = covers
BY DEF Summary, Row, Rows, IsSystem

LEMMA PreambleMade ==
  ASSUME NEW extras \in Nat
  PROVE  /\ Preamble(extras) \in Seq(Rows) /\ Len(Preamble(extras)) = 1 + extras
         /\ \A k \in 1..(1 + extras) : IsSystem(Preamble(extras)[k])
                                       /\ Preamble(extras)[k].covers = {}
<1>1. Row("system", 0) \in Rows /\ IsSystem(Row("system", 0)) /\ Row("system", 0).covers = {}
  BY RowMade DEF IsSystem
<1> DEFINE t == [k \in 1..(1 + extras) |-> Row("system", 0)]
<1>2. t \in [1..(1 + extras) -> Rows] /\ \A k \in 1..(1 + extras) : t[k] = Row("system", 0)
  BY <1>1
<1>3. Preamble(extras) = t
  BY DEF Preamble, FixedSystem
<1> HIDE DEF t
<1>4. t \in Seq(Rows) /\ Len(t) = 1 + extras
  <2>1. 1 + extras \in Nat
    OBVIOUS
  <2> QED BY <1>2, <2>1
<1> QED BY <1>1, <1>2, <1>3, <1>4

\* With no blocks beyond those the manager counts, its rows are the context's.
LEMMA BodyIs ==
  ASSUME NEW extras \in Nat, context \in Seq(Rows), CanFold(Preamble(extras) \o context)
  PROVE  Body(Preamble(extras) \o context) = context
<1> DEFINE a == Preamble(extras)
           h == a \o context
           b == Body(h)
<1>1. a \in Seq(Rows) /\ Len(a) = 1 + extras
  BY PreambleMade
<1> HIDE DEF a
<1>2. h \in Seq(Rows) /\ Len(h) = 1 + extras + Len(context) /\ Len(context) \in Nat
      /\ \A k \in 1..Len(context) : h[1 + extras + k] = context[k]
  <2>1. /\ h \in Seq(Rows) /\ Len(h) = Len(a) + Len(context)
        /\ \A k \in 1..Len(context) : h[Len(a) + k] = context[k]
    BY <1>1, Joins
  <2>2. Len(context) \in Nat
    OBVIOUS
  <2> HIDE DEF h
  <2> QED BY <2>1, <2>2, <1>1
<1> HIDE DEF h
<1>3. b = SubSeq(h, 2, Len(h))
  BY DEF Body, FixedSystem
<1>4. b = [k \in 1..(extras + Len(context)) |-> h[1 + k]] /\ Len(b) = extras + Len(context)
  BY <1>2, <1>3
<1>5. extras = 0
  <2>1. Len(b) = Len(context)
    BY DEF CanFold, a, h
  <2> QED BY <1>2, <1>4, <2>1
<1>6. b = [k \in 1..Len(context) |-> context[k]]
  BY <1>2, <1>4, <1>5
<1>7. b = context
  BY <1>6
<1> QED BY <1>7 DEF a, h

LEMMA FoldIsFold ==
  ASSUME NEW extras \in Nat, NEW n, NEW without, NEW open,
         Talk(context, n, without, open), KeepRecent \in Nat,
         messages_to_summarize(Preamble(extras) \o context) # <<>>,
         CanFold(Preamble(extras) \o context), Fold(Preamble(extras) \o context)
  PROVE  \E p \in n..Len(context) : IsFold(context', context, n, p)
<1> DEFINE s == context
           h == Preamble(extras) \o context
           z == Len(s)
           w == messages_to_summarize(h)
           c == z - n - KeepRecent
           p == n + c
<1>1. /\ s \in Seq(Rows) /\ z \in Nat /\ n \in Nat /\ n <= z
      /\ \A k \in 1..z : s[k] \in Rows
      /\ \A k \in 1..z : IsSystem(s[k]) <=> k <= n
  BY DEF Talk, Front
<1>2. Body(h) = s /\ Leading(s) = n
  <2>1. Body(h) = s
    BY <1>1, BodyIs
  <2>2. Leading(s) = n
    BY <1>1, LeadingIs DEF Talk
  <2> QED BY <2>1, <2>2
<1>3. FoldStart(h) = n
  BY <1>2 DEF FoldStart
<1>4. w = IF Len(SubSeq(s, n + 1, z)) <= KeepRecent THEN <<>>
          ELSE SubSeq(SubSeq(s, n + 1, z), 1, Len(SubSeq(s, n + 1, z)) - KeepRecent)
  BY <1>2 DEF messages_to_summarize
<1>5. /\ SubSeq(s, n + 1, z) = [k \in 1..(z - n) |-> s[n + k]]
      /\ Len(SubSeq(s, n + 1, z)) = z - n
  BY <1>1
<1>6. ~(z - n <= KeepRecent) /\ c \in Nat /\ p <= z /\ p \in n..z
  <2>1. ~(z - n <= KeepRecent)
    BY <1>4, <1>5
  <2> QED BY <2>1, <1>1
<1>7. w = [k \in 1..c |-> s[n + k]] /\ Len(w) = c
  <2> DEFINE r == SubSeq(s, n + 1, z)
  <2>1. w = SubSeq(r, 1, c)
    BY <1>4, <1>5, <1>6
  <2>2. r \in Seq(Rows) /\ Len(r) = z - n /\ \A k \in 1..(z - n) : r[k] = s[n + k]
    BY <1>1, <1>5, SMTT(60)
  <2> HIDE DEF r
  <2>3. c \in Nat /\ c <= z - n
    BY <1>1, <1>6
  <2> HIDE DEF w, c, z, s
  <2>4. SubSeq(r, 1, c) = [k \in 1..c |-> r[k]] /\ Len(SubSeq(r, 1, c)) = c
    BY <2>2, <2>3
  <2>5. \A k \in 1..c : r[k] = s[n + k]
    BY <1>1, <2>2, <2>3
  <2> QED BY <2>1, <2>4, <2>5
<1>8. Ids(w) = Oldest(s, n, p)
  <2>1. ASSUME NEW k \in 1..c PROVE IdsOf(w[k]) = {s[n + k].id} /\ n + k \in (n + 1)..p
    <3>1. n + k \in 1..z /\ ~(n + k <= n) /\ n + k \in (n + 1)..p
      BY <1>1, <1>6
    <3>2. ~IsSystem(s[n + k]) /\ w[k] = s[n + k]
      BY <3>1, <1>1, <1>7
    <3> QED BY <3>1, <3>2 DEF IdsOf, IsSystem
  <2>2. \A i \in (n + 1)..p : i - n \in 1..c /\ n + (i - n) = i
    BY <1>1, <1>6
  <2>3. DOMAIN w = 1..c
    BY <1>7
  <2>4. \A x : x \in Ids(w) <=> \E k \in 1..c : x \in IdsOf(w[k])
    BY <2>3 DEF Ids
  <2>6. \A x : x \in Oldest(s, n, p) <=> \E i \in (n + 1)..p : x = s[i].id
    BY DEF Oldest
  <2> HIDE DEF w, p, c
  <2>7. ASSUME NEW x \in Ids(w) PROVE x \in Oldest(s, n, p)
    <3>1. PICK k \in 1..c : x \in IdsOf(w[k])
      BY <2>4
    <3>2. x = s[n + k].id /\ n + k \in (n + 1)..p
      BY <3>1, <2>1
    <3> QED BY <3>2, <2>6
  <2>8. ASSUME NEW x \in Oldest(s, n, p) PROVE x \in Ids(w)
    <3>1. PICK i \in (n + 1)..p : x = s[i].id
      BY <2>6
    <3>2. i - n \in 1..c /\ x \in IdsOf(w[i - n])
      BY <3>1, <2>1, <2>2
    <3> QED BY <3>2, <2>4
  <2> QED BY <2>7, <2>8
<1>9. Oldest(s, n, p) \in SUBSET Nat
  <2>1. \A i \in (n + 1)..p : i \in 1..z
    BY <1>1, <1>6
  <2> QED BY <1>1, <2>1 DEF Oldest, Rows
<1> DEFINE x == Summary(Oldest(s, n, p))
           a == SubSeq(s, 1, n)
           b == SubSeq(s, p + 1, z)
           t == (a \o <<x>>) \o b
<1>10. x \in Rows /\ IsSystem(x) /\ x.covers = Oldest(s, n, p)
  BY <1>9, SummaryMade
<1>11. context' = t
  <2>1. context' = SubSeq(s, 1, n) \o <<Summary(Ids(w))>> \o SubSeq(s, n + Len(w) + 1, z)
    BY <1>3 DEF Fold
  <2>2. n + Len(w) + 1 = p + 1
    BY <1>7
  <2> QED BY <2>1, <2>2, <1>8
<1>12. /\ a \in Seq(Rows) /\ Len(a) = n /\ \A k \in 1..n : a[k] = s[k]
       /\ b \in Seq(Rows) /\ Len(b) = z - p /\ \A k \in 1..(z - p) : b[k] = s[p + k]
  <2>1. p \in Nat /\ p <= z /\ n <= z
    BY <1>1, <1>6
  <2>2. a \in Seq(Rows) /\ Len(a) = n /\ \A k \in 1..n : a[k] = s[k]
    BY <1>1
  <2>3. b \in Seq(Rows) /\ Len(b) = z - p /\ \A k \in 1..(z - p) : b[k] = s[p + k]
    <3> HIDE DEF p
    <3>1. SubSeq(s, p + 1, z) = [k \in 1..(z - p) |-> s[p + k]]
      BY <1>1, <2>1
    <3>2. \A k \in 1..(z - p) : p + k \in 1..z
      BY <1>1, <2>1
    <3>3. z - p \in Nat
      BY <1>1, <2>1
    <3>4. [k \in 1..(z - p) |-> s[p + k]] \in [1..(z - p) -> Rows]
      BY <1>1, <3>2
    <3> DEFINE f == [k \in 1..(z - p) |-> s[p + k]]
    <3>5. b = f /\ \A k \in 1..(z - p) : f[k] = s[p + k]
      BY <3>1
    <3> HIDE DEF z, s, f, b
    <3>6. f \in Seq(Rows) /\ Len(f) = z - p
      BY <3>3, <3>4 DEF f
    <3> QED BY <3>5, <3>6
  <2> QED BY <2>2, <2>3
<1> HIDE DEF x, a, b
<1>13. a \o <<x>> \in Seq(Rows) /\ Len(a \o <<x>>) = n + 1
       /\ (\A k \in 1..n : (a \o <<x>>)[k] = a[k]) /\ (a \o <<x>>)[n + 1] = x
  BY <1>1, <1>10, <1>12
<1>14. /\ t \in Seq(Rows) /\ Len(t) = (n + 1) + (z - p)
       /\ \A k \in 1..n : t[k] = s[k]
       /\ t[n + 1] = x
       /\ \A k \in 1..(z - p) : t[(n + 1) + k] = s[p + k]
  <2> DEFINE g == a \o <<x>>
  <2>1. g \in Seq(Rows) /\ Len(g) = n + 1 /\ (\A k \in 1..n : g[k] = s[k]) /\ g[n + 1] = x
    BY <1>12, <1>13
  <2> HIDE DEF g
  <2>2. /\ g \o b \in Seq(Rows) /\ Len(g \o b) = Len(g) + Len(b)
        /\ \A k \in 1..Len(g) : (g \o b)[k] = g[k]
        /\ \A k \in 1..Len(b) : (g \o b)[Len(g) + k] = b[k]
    BY <2>1, <1>12, Joins, ZenonT(30)
  <2>3. t = g \o b
    BY DEF g
  <2> HIDE DEF t, p, z
  <2>4. \A k \in 1..n : k \in 1..Len(g)
    BY <1>1, <2>1
  <2>5. n + 1 \in 1..Len(g)
    BY <1>1, <2>1
  <2> QED BY <2>1, <2>2, <2>3, <2>4, <2>5, <1>12, SMTT(30)
<1> HIDE DEF t, p
<1>15. Newest(t, n + 1, s, p)
  <2>1. \A k \in 1..(n + 1) : k \in 1..n \/ k = n + 1
    BY <1>1
  <2>2. \A k \in 1..n : IsSystem(s[k])
    BY <1>1
  <2>3. \A k \in 1..(n + 1) : IsSystem(t[k])
    BY <2>1, <2>2, <1>10, <1>14
  <2>4. p \in 0..Len(s) /\ n + 1 \in Nat
    BY <1>1, <1>6
  <2> QED BY <1>14, <2>3, <2>4 DEF Newest
<1> QED BY <1>6, <1>10, <1>11, <1>14, <1>15 DEF IsFold

LEMMA TrimIsTrim ==
  ASSUME NEW n, NEW without, NEW open, Talk(context, n, without, open), TrimOldest
  PROVE  \E p \in n..Len(context) :
           IsTrim(context', context, n, p) /\ trimmed' = trimmed \cup Oldest(context, n, p)
<1> DEFINE s == context
           z == Len(s)
           p == n + (z - n + 4) \div 5
           rows == {k \in DOMAIN s : ~IsSystem(s[k])}
           drop == {k \in rows : 5 * Cardinality({i \in rows : i < k}) < Cardinality(rows)}
<1>1. s \in Seq(Rows) /\ z \in Nat /\ n \in Nat /\ n <= z /\ DOMAIN s = 1..z
      /\ \A k \in 1..z : IsSystem(s[k]) <=> k <= n
  BY DEF Talk, Front
<1>2. p \in Nat /\ n <= p /\ p <= z
  BY <1>1
<1>3. rows = (n + 1)..z
  BY <1>1
<1>4. ASSUME NEW k \in (n + 1)..(z + 1) PROVE Cardinality((n + 1)..(k - 1)) = k - 1 - n
  <2>1. n + 1 \in Int /\ k - 1 \in Int
    BY <1>1
  <2>2. Cardinality((n + 1)..(k - 1)) = IF n + 1 > k - 1 THEN 0 ELSE (k - 1) - (n + 1) + 1
    BY <2>1, FS_Interval
  <2> QED BY <2>2, <1>1
<1>5. Cardinality(rows) = z - n
  <2>1. z + 1 \in (n + 1)..(z + 1) /\ (z + 1) - 1 = z
    BY <1>1
  <2>2. Cardinality((n + 1)..((z + 1) - 1)) = (z + 1) - 1 - n
    BY <2>1, <1>4
  <2> QED BY <2>1, <2>2, <1>3
<1>6. ASSUME NEW k \in rows PROVE Cardinality({i \in rows : i < k}) = k - 1 - n
  <2>1. k \in (n + 1)..z /\ k \in (n + 1)..(z + 1)
    BY <1>1, <1>3
  <2>2. {i \in rows : i < k} = (n + 1)..(k - 1)
    BY <1>1, <1>3, <2>1
  <2> HIDE DEF rows
  <2> QED BY <2>1, <2>2, <1>4
<1>7. drop = (n + 1)..p
  <2>1. \A k \in rows : k \in drop <=> 5 * (k - 1 - n) < z - n
    BY <1>5, <1>6
  <2>2. \A k \in (n + 1)..z : 5 * (k - 1 - n) < z - n <=> k <= p
    BY <1>1
  <2>3. \A k \in drop : k \in rows
    OBVIOUS
  <2>4. \A k \in (n + 1)..p : k \in rows
    BY <1>1, <1>2, <1>3
  <2>5. \A k \in rows : k \in (n + 1)..z /\ (k \in (n + 1)..p <=> k <= p)
    <3> HIDE DEF p, z
    <3> QED BY <1>1, <1>2, <1>3
  <2> HIDE DEF drop, rows, p
  <2>6. \A k \in rows : k \in drop <=> k \in (n + 1)..p
    BY <2>1, <2>2, <2>5
  <2> QED BY <2>3, <2>4, <2>6
<1>8. /\ trimmed' = trimmed \cup {s[k].id : k \in drop}
      /\ context' = At(s, DOMAIN s \ drop)
  BY DEF TrimOldest
<1> HIDE DEF drop, rows, p
<1>9. DOMAIN s \ drop = Ends(n, p + 1, z)
  BY <1>1, <1>2, <1>7 DEF Ends
<1>10. p + 1 \in 1..(z + 1) /\ n < p + 1
  BY <1>1, <1>2
<1>11. IsCut(context', s, n, p + 1)
  BY <1>1, <1>8, <1>9, <1>10, AtEnds
<1>12. /\ context' \in Seq(Rows) /\ Len(context') = n + (z - p)
       /\ \A k \in 1..n : context'[k] = s[k]
       /\ \A k \in 1..(z - p) : context'[n + k] = s[p + k]
  <2>1. z + 1 - (p + 1) = z - p /\ \A k \in 1..(z - p) : (p + 1) - 1 + k = p + k
    <3>1. z \in Int /\ p \in Int
      BY <1>1, <1>2
    <3> HIDE DEF z
    <3> QED BY <3>1
  <2>2. /\ context' \in Seq(Rows) /\ Len(context') = n + (Len(s) + 1 - (p + 1))
        /\ \A k \in 1..n : context'[k] = s[k]
        /\ \A k \in 1..(Len(s) + 1 - (p + 1)) : context'[n + k] = s[(p + 1) - 1 + k]
    <3> HIDE DEF s
    <3> QED BY <1>11 DEF IsCut
  <2>3. Len(s) = z
    OBVIOUS
  <2> HIDE DEF z, s
  <2> QED BY <2>1, <2>2, <2>3
<1>13. \A k \in 1..n : k \in 1..z
  BY <1>1
<1>14. Newest(context', n, s, p)
  BY <1>1, <1>2, <1>12, <1>13 DEF Newest
<1>15. trimmed' = trimmed \cup Oldest(s, n, p)
  BY <1>7, <1>8 DEF Oldest
<1> QED BY <1>1, <1>2, <1>12, <1>14, <1>15 DEF IsTrim

(***************************************************************************)
(* The request.                                                            *)
(***************************************************************************)
\* What notes say is what the rows up to q of s cover, each in a note of its own.
Tells(notes, s, q) ==
  /\ UNION {notes[k] : k \in DOMAIN notes} = UNION {s[k].covers : k \in 1..q}
  /\ \A i, j \in DOMAIN notes : i # j => notes[i] \cap notes[j] = {}

NotesApart(s, q) == \A i, j \in 1..q : i # j => s[i].covers \cap s[j].covers = {}

LEMMA OnWireIs ==
  ASSUME NEW s \in Seq(Rows), NEW q, Front(s, q), NotesApart(s, q)
  PROVE  OnWire(s).rows = MessagesOf(s) /\ Tells(OnWire(s).summaries, s, q)
<1> DEFINE y == SystemRows(s)
           S == {k \in DOMAIN y : y[k].covers # {}}
           o == InOrder(S)
           c == Cardinality(S)
           notes == [k \in DOMAIN At(y, S) |-> At(y, S)[k].covers]
<1>1. q \in Nat /\ q <= Len(s) /\ Len(s) \in Nat
  BY DEF Front
<1>2. DOMAIN y = 1..q /\ \A k \in 1..q : y[k] = s[k]
  <2>1. CASE backend.wire = "anthropic"
    <3>1. y = SubSeq(s, 1, q)
      BY <2>1, LeadingIs DEF SystemRows
    <3>2. SubSeq(s, 1, q) = [k \in 1..q |-> s[k]]
      BY <1>1
    <3> HIDE DEF y
    <3> QED BY <3>1, <3>2
  <2>2. CASE backend.wire # "anthropic"
    <3>1. y = SystemRowsOf(s)
      BY <2>2 DEF SystemRows
    <3>2. IsCut(SystemRowsOf(s), s, q, Len(s) + 1)
      BY Parted
    <3> HIDE DEF y
    <3>3. IsCut(y, s, q, Len(s) + 1)
      BY <3>1, <3>2
    <3>4. y \in Seq(Rows) /\ Len(y) = q + (Len(s) + 1 - (Len(s) + 1)) /\ \A k \in 1..q : y[k] = s[k]
      BY <3>3 DEF IsCut
    <3>5. Len(y) = q
      BY <3>4, <1>1
    <3> QED BY <3>4, <3>5
  <2> QED BY <2>1, <2>2
<1> HIDE DEF y
<1>3. S \in SUBSET (1..q) /\ \A k \in 1..q : k \in S <=> s[k].covers # {}
  BY <1>2
<1>4. OnWire(s).rows = MessagesOf(s) /\ OnWire(s).summaries = notes
  BY DEF OnWire, y
<1> HIDE DEF S
<1>5. c \in Nat /\ o \in [1..c -> S]
  BY <1>1, <1>3, OrderType
<1>6. DOMAIN notes = 1..c /\ \A k \in 1..c : notes[k] = s[o[k]].covers
  <2>1. At(y, S) = [k \in 1..c |-> y[o[k]]]
    BY <1>5 DEF At
  <2>2. \A k \in 1..c : o[k] \in 1..q
    BY <1>3, <1>5
  <2> HIDE DEF o, c
  <2> QED BY <2>1, <2>2, <1>2
<1>7. ASSUME NEW p \in S PROVE \E k \in 1..c : o[k] = p
  <2>1. o[Cardinality({x \in S : x <= p})] = p /\ Cardinality({x \in S : x <= p}) \in 1..c
    BY <1>1, <1>3, Placed
  <2> QED BY <2>1
<1>8. ASSUME NEW i \in 1..c, NEW j \in 1..c, i # j PROVE o[i] # o[j]
  <2>1. o[i] \in Int /\ o[j] \in Int
    <3> HIDE DEF o, c
    <3>1. o[i] \in S /\ o[j] \in S
      BY <1>5
    <3>2. S \subseteq Int
      BY <1>1, <1>3
    <3> QED BY <3>1, <3>2
  <2>2. i < j => o[i] < o[j]
    BY <1>1, <1>3, OrderIncreases
  <2>3. j < i => o[j] < o[i]
    BY <1>1, <1>3, OrderIncreases
  <2> HIDE DEF o, c
  <2>4. i \in Int /\ j \in Int
    BY <1>5
  <2> QED BY <2>1, <2>2, <2>3, <2>4, <1>8
<1> HIDE DEF o, c, notes
<1>9. \A k \in 1..c : o[k] \in 1..q
  BY <1>3, <1>5
<1>10. UNION {notes[k] : k \in DOMAIN notes} = UNION {s[k].covers : k \in 1..q}
  <2>1. ASSUME NEW k \in 1..c, NEW x \in notes[k] PROVE \E i \in 1..q : x \in s[i].covers
    BY <2>1, <1>6, <1>9
  <2>2. ASSUME NEW i \in 1..q, NEW x \in s[i].covers PROVE \E k \in 1..c : x \in notes[k]
    <3>1. i \in S
      BY <2>2, <1>3
    <3>2. PICK k \in 1..c : o[k] = i
      BY <3>1, <1>7
    <3> QED BY <2>2, <3>2, <1>6
  <2> QED BY <2>1, <2>2, <1>6
<1>11. \A i, j \in DOMAIN notes : i # j => notes[i] \cap notes[j] = {}
  <2> SUFFICES ASSUME NEW i \in 1..c, NEW j \in 1..c, i # j PROVE notes[i] \cap notes[j] = {}
    BY <1>6
  <2>1. o[i] # o[j] /\ o[i] \in 1..q /\ o[j] \in 1..q
    BY <1>8, <1>9
  <2> QED BY <2>1, <1>6 DEF NotesApart
<1> QED BY <1>4, <1>10, <1>11, ZenonT(60) DEF Tells

Joined(a, b, c) == (a \o b) \o c = a \o (b \o c)

LEMMA JoinsJoin ==
  ASSUME NEW a \in Seq(Rows), NEW b \in Seq(Rows), NEW c \in Seq(Rows)
  PROVE  Joined(a, b, c)
<1> DEFINE d == a \o b
           e == b \o c
           u == d \o c
           v == a \o e
<1>1. /\ d \in Seq(Rows) /\ Len(d) = Len(a) + Len(b)
      /\ \A k \in 1..Len(a) : d[k] = a[k]
      /\ \A k \in 1..Len(b) : d[Len(a) + k] = b[k]
  BY Joins
<1>2. /\ e \in Seq(Rows) /\ Len(e) = Len(b) + Len(c)
      /\ \A k \in 1..Len(b) : e[k] = b[k]
      /\ \A k \in 1..Len(c) : e[Len(b) + k] = c[k]
  BY Joins
<1>3. Len(a) \in Nat /\ Len(b) \in Nat /\ Len(c) \in Nat
  OBVIOUS
<1> HIDE DEF d, e
<1>4. /\ u \in Seq(Rows) /\ Len(u) = Len(d) + Len(c)
      /\ \A k \in 1..Len(d) : u[k] = d[k]
      /\ \A k \in 1..Len(c) : u[Len(d) + k] = c[k]
  BY <1>1, Joins
<1>5. /\ v \in Seq(Rows) /\ Len(v) = Len(a) + Len(e)
      /\ \A k \in 1..Len(a) : v[k] = a[k]
      /\ \A k \in 1..Len(e) : v[Len(a) + k] = e[k]
  BY <1>2, Joins
<1> HIDE DEF u, v
<1> DEFINE m == Len(a) + Len(b) + Len(c)
<1>6. Len(u) = m /\ Len(v) = m
  BY <1>1, <1>2, <1>3, <1>4, <1>5
<1>7. ASSUME NEW k \in 1..m PROVE u[k] = v[k]
  <2>1. CASE k <= Len(a)
    <3>1. k \in 1..Len(a) /\ k \in 1..Len(d)
      BY <2>1, <1>1, <1>3
    <3> QED BY <3>1, <1>1, <1>4, <1>5
  <2>2. CASE Len(a) < k /\ k <= Len(a) + Len(b)
    <3> DEFINE i == k - Len(a)
    <3>1. i \in 1..Len(b) /\ i \in 1..Len(e) /\ k \in 1..Len(d) /\ Len(a) + i = k
      BY <2>2, <1>1, <1>2, <1>3
    <3> HIDE DEF i
    <3>2. u[k] = d[k] /\ d[Len(a) + i] = b[i]
      BY <3>1, <1>1, <1>4
    <3>3. v[Len(a) + i] = e[i] /\ e[i] = b[i]
      BY <3>1, <1>2, <1>5
    <3> QED BY <3>1, <3>2, <3>3
  <2>3. CASE Len(a) + Len(b) < k
    <3> DEFINE i == k - Len(a) - Len(b)
    <3>1. /\ i \in 1..Len(c) /\ Len(b) + i \in 1..Len(e)
          /\ Len(d) + i = k /\ Len(a) + (Len(b) + i) = k
      BY <2>3, <1>1, <1>2, <1>3
    <3> HIDE DEF i
    <3>2. u[Len(d) + i] = c[i]
      BY <3>1, <1>4
    <3>3. v[Len(a) + (Len(b) + i)] = e[Len(b) + i] /\ e[Len(b) + i] = c[i]
      BY <3>1, <1>2, <1>5
    <3> QED BY <3>1, <3>2, <3>3
  <2> QED BY <2>1, <2>2, <2>3, <1>3
<1> HIDE DEF m
<1>8. u \in [1..m -> Rows] /\ v \in [1..m -> Rows]
  BY <1>4, <1>5, <1>6
<1>9. u = v
  <2>1. u = [k \in 1..m |-> u[k]] /\ v = [k \in 1..m |-> v[k]]
    BY <1>8
  <2>2. [k \in 1..m |-> u[k]] = [k \in 1..m |-> v[k]]
    BY <1>7
  <2> QED BY <2>1, <2>2
<1> QED BY <1>9 DEF Joined, u, v, d, e

\* The newest k messages of w, or all.
Cutoff(w, n, k) == IF Len(w) - n <= k THEN n ELSE Len(w) - k

\* req tells of w, of which the first n rows are the system's.
RequestIs(req, w, n, short) ==
  IF short
  THEN /\ Newest(req.rows, 0, w, Cutoff(w, n, ShortKeep))
       /\ UNION {req.summaries[k] : k \in DOMAIN req.summaries} = {}
       /\ \A i, j \in DOMAIN req.summaries : i # j => req.summaries[i] \cap req.summaries[j] = {}
  ELSE Newest(req.rows, 0, w, n) /\ Tells(req.summaries, w, n)

LEMMA ComposedIs ==
  ASSUME NEW extras \in Nat, WithTask \in Seq(Rows), NEW n, Front(WithTask, n),
         context \in Seq(Rows), PendingTask \in Seq(Rows)
  PROVE  /\ Composed(extras) \in Seq(Rows)
         /\ Front(Composed(extras), 1 + extras + n)
         /\ Len(Composed(extras)) = 1 + extras + Len(WithTask)
         /\ \A k \in 1..(1 + extras) : Composed(extras)[k].covers = {}
         /\ \A k \in 1..Len(WithTask) : Composed(extras)[1 + extras + k] = WithTask[k]
<1> DEFINE a == Preamble(extras)
           w == WithTask
           e == 1 + extras
           u == a \o w
<1>1. a \in Seq(Rows) /\ Len(a) = e /\ \A k \in 1..e : IsSystem(a[k]) /\ a[k].covers = {}
  BY PreambleMade
<1>2. Composed(extras) = u
  <2> DEFINE c == context
             t == PendingTask
  <2>1. a \in Seq(Rows) /\ c \in Seq(Rows) /\ t \in Seq(Rows)
    BY <1>1
  <2>2. Composed(extras) = (a \o c) \o t /\ u = a \o (c \o t)
    BY DEF Composed, WithTask
  <2>3. Joined(a, c, t)
    <3> HIDE DEF a, c, t
    <3> QED BY <2>1, JoinsJoin
  <2> QED BY <2>2, <2>3 DEF Joined
<1> HIDE DEF a, w
<1>3. /\ u \in Seq(Rows) /\ Len(u) = Len(a) + Len(w)
      /\ \A k \in 1..Len(a) : u[k] = a[k]
      /\ \A k \in 1..Len(w) : u[Len(a) + k] = w[k]
      /\ \A k \in 1..Len(u) : k \in 1..Len(a) \/ \E i \in 1..Len(w) : k = Len(a) + i
  BY <1>1, Joins DEF w
<1> HIDE DEF u
<1>4. n \in Nat /\ n <= Len(w) /\ Len(w) \in Nat /\ \A k \in 1..Len(w) : IsSystem(w[k]) <=> k <= n
  BY DEF Front, w
<1>5. Front(u, e + n)
  <2>1. ASSUME NEW k \in 1..Len(u) PROVE IsSystem(u[k]) <=> k <= e + n
    <3>1. CASE k \in 1..Len(a)
      BY <3>1, <1>1, <1>3, <1>4
    <3>2. CASE \E i \in 1..Len(w) : k = Len(a) + i
      <4>1. PICK i \in 1..Len(w) : k = Len(a) + i
        BY <3>2
      <4>2. u[k] = w[i] /\ k = e + i
        BY <4>1, <1>1, <1>3
      <4>3. i <= n <=> k <= e + n
        BY <4>2, <1>4
      <4> QED BY <4>2, <4>3, <1>4
    <3> QED BY <3>1, <3>2, <1>3
  <2>2. e + n \in 0..Len(u)
    BY <1>1, <1>3, <1>4
  <2> QED BY <2>1, <2>2 DEF Front
<1>6. Len(u) = e + Len(w) /\ (\A k \in 1..e : u[k].covers = {})
      /\ (\A k \in 1..Len(w) : u[e + k] = w[k])
  BY <1>1, <1>3
<1> QED BY <1>2, <1>3, <1>5, <1>6 DEF w

LEMMA LastRowsNewest ==
  ASSUME NEW t, NEW w, NEW n \in Nat, Newest(t, 0, w, n), w \in Seq(Rows), ShortKeep \in Nat
  PROVE  Newest(LastRows(t, ShortKeep), 0, w, Cutoff(w, n, ShortKeep))
<1> DEFINE K == ShortKeep
           z == Len(w)
<1>1. t \in Seq(Rows) /\ n \in 0..z /\ Len(t) = z - n /\ z \in Nat /\ n <= z
      /\ \A k \in 1..(z - n) : t[k] = w[n + k]
  BY DEF Newest
<1>2. CASE z - n <= K
  <2>1. LastRows(t, K) = t /\ Cutoff(w, n, K) = n
    BY <1>1, <1>2 DEF LastRows, Cutoff
  <2> QED BY <2>1
<1>3. CASE ~(z - n <= K)
  <2> DEFINE b == z - n - K
             r == SubSeq(t, Len(t) - K + 1, Len(t))
  <2>1. LastRows(t, K) = r /\ Cutoff(w, n, K) = z - K
    BY <1>1, <1>3 DEF LastRows, Cutoff
  <2>2. b \in Nat /\ Len(t) - K = b /\ Len(t) = b + K /\ z - K \in 0..z /\ n + b = z - K
    BY <1>1, <1>3
  <2>3. r = SubSeq(t, b + 1, b + K)
    BY <2>2
  <2> HIDE DEF b, r, z
  <2>4. SubSeq(t, b + 1, b + K) = [k \in 1..K |-> t[b + k]]
    BY <2>2, <1>1, SMTT(60)
  <2>5. \A k \in 1..K : b + k \in 1..Len(t) /\ b + k \in 1..(z - n)
    BY <2>2, <1>1
  <2>6. r \in [1..K -> Rows] /\ \A k \in 1..K : r[k] = t[b + k]
    <3>1. \A k \in 1..K : t[b + k] \in Rows
      <4>1. t \in Seq(Rows)
        BY <1>1
      <4> QED BY <4>1, <2>5
    <3>2. r = [k \in 1..K |-> t[b + k]]
      BY <2>3, <2>4
    <3> QED BY <3>1, <3>2
  <2>7. r \in Seq(Rows) /\ Len(r) = K
    BY <2>6
  <2>8. \A k \in 1..K : r[k] = w[(z - K) + k]
    <3> SUFFICES ASSUME NEW k \in 1..K PROVE r[k] = w[(z - K) + k]
      OBVIOUS
    <3>1. r[k] = w[n + (b + k)]
      BY <2>5, <2>6, <1>1
    <3>2. n + (b + k) = (z - K) + k
      BY <2>2, <1>1
    <3> QED BY <3>1, <3>2
  <2>9. Len(w) - (z - K) = K
    BY <1>1 DEF z
  <2>10. Newest(r, 0, w, z - K)
    BY <2>2, <2>7, <2>8, <2>9 DEF Newest, z
  <2> QED BY <2>1, <2>10
<1> QED BY <1>2, <1>3

LEMMA AskedRequest ==
  ASSUME NEW extras \in Nat, WithTask \in Seq(Rows), NEW n, Front(WithTask, n),
         NotesApart(WithTask, n), context \in Seq(Rows), PendingTask \in Seq(Rows),
         ShortKeep \in Nat
  PROVE  RequestIs(OnWire(trim_messages_for_model(Composed(extras))), WithTask, n, backend.short)
<1> DEFINE w == WithTask
           u == Composed(extras)
           e == 1 + extras
           q == e + n
<1>1. /\ u \in Seq(Rows) /\ Front(u, q) /\ Len(u) = e + Len(w) /\ w \in Seq(Rows)
      /\ \A k \in 1..e : u[k].covers = {}
      /\ \A k \in 1..Len(w) : u[e + k] = w[k]
  BY ComposedIs
<1>2. n \in Nat /\ n <= Len(w) /\ Len(w) \in Nat /\ e \in Nat /\ e >= 1
      /\ \A k \in 1..Len(w) : IsSystem(w[k]) <=> k <= n
  BY DEF Front
<1> HIDE DEF u, w
<1>3. Newest(MessagesOf(u), 0, w, n)
  <2>1. Newest(MessagesOf(u), 0, u, q)
    BY <1>1, MessagesNewest
  <2> DEFINE t == MessagesOf(u)
  <2>2. /\ t \in Seq(Rows) /\ Len(t) = Len(u) - q
        /\ \A k \in 1..(Len(u) - q) : t[k] = u[q + k]
    BY <2>1 DEF Newest
  <2> HIDE DEF t
  <2>3. Len(u) - q = Len(w) - n
    BY <1>1, <1>2
  <2>4. ASSUME NEW k \in 1..(Len(w) - n) PROVE t[k] = w[n + k]
    <3>1. n + k \in 1..Len(w) /\ q + k = e + (n + k)
      BY <1>2
    <3>2. t[k] = u[q + k] /\ u[e + (n + k)] = w[n + k]
      BY <3>1, <2>2, <2>3, <1>1
    <3> QED BY <3>1, <3>2
  <2>5. Newest(t, 0, w, n)
    <3>1. n \in 0..Len(w)
      BY <1>2
    <3> QED BY <3>1, <2>2, <2>3, <2>4 DEF Newest
  <2> QED BY <2>5 DEF t
<1>4. CASE ~backend.short
  <2>1. trim_messages_for_model(u) = u
    BY <1>4 DEF trim_messages_for_model
  <2>2. \A k \in 1..q : k \in 1..e \/ \E i \in 1..n : k = e + i
    <3> SUFFICES ASSUME NEW k \in 1..q, k \notin 1..e PROVE \E i \in 1..n : k = e + i
      OBVIOUS
    <3>1. k - e \in 1..n /\ k = e + (k - e)
      BY <1>2
    <3> QED BY <3>1
  <2>3. \A i \in 1..n : u[e + i] = w[i] /\ i \in 1..Len(w)
    BY <1>1, <1>2
  <2>4. NotesApart(u, q)
    <3> SUFFICES ASSUME NEW i \in 1..q, NEW j \in 1..q, i # j
                 PROVE  u[i].covers \cap u[j].covers = {}
      BY DEF NotesApart
    <3>1. CASE i \in 1..e \/ j \in 1..e
      BY <3>1, <1>1
    <3>2. CASE (\E x \in 1..n : i = e + x) /\ (\E x \in 1..n : j = e + x)
      <4>1. PICK x \in 1..n : i = e + x
        BY <3>2
      <4>2. PICK y \in 1..n : j = e + y
        BY <3>2
      <4>3. x # y /\ u[i] = w[x] /\ u[j] = w[y]
        BY <4>1, <4>2, <2>3
      <4> QED BY <4>3 DEF NotesApart, w
    <3> QED BY <3>1, <3>2, <2>2
  <2>5. OnWire(u).rows = MessagesOf(u) /\ Tells(OnWire(u).summaries, u, q)
    BY <1>1, <2>4, OnWireIs
  <2>6. UNION {u[k].covers : k \in 1..q} = UNION {w[k].covers : k \in 1..n}
    <3>1. ASSUME NEW k \in 1..q, NEW x \in u[k].covers PROVE \E i \in 1..n : x \in w[i].covers
      BY <3>1, <2>2, <2>3, <1>1
    <3>2. ASSUME NEW i \in 1..n, NEW x \in w[i].covers PROVE \E k \in 1..q : x \in u[k].covers
      <4>1. e + i \in 1..q
        BY <1>2
      <4> QED BY <3>2, <4>1, <2>3
    <3> QED BY <3>1, <3>2, SMTT(30)
  <2>7. Tells(OnWire(u).summaries, w, n)
    BY <2>5, <2>6 DEF Tells
  <2>8. RequestIs(OnWire(u), w, n, backend.short)
    BY <1>3, <1>4, <2>5, <2>7 DEF RequestIs
  <2> QED BY <2>1, <2>8 DEF u, w
<1>5. CASE backend.short
  <2> DEFINE f == SubSeq(u, 1, 1)
             a == SystemRowsOf(f)
             r == LastRows(MessagesOf(u), ShortKeep)
             d == a \o r
             p == Cutoff(w, n, ShortKeep)
  <2>1. trim_messages_for_model(u) = d
    BY <1>5 DEF trim_messages_for_model
  <2>2. Newest(r, 0, w, p)
    BY <1>1, <1>2, <1>3, LastRowsNewest
  <2>3. p \in Nat /\ n <= p /\ p <= Len(w)
    BY <1>2 DEF Cutoff
  <2>4. r \in Seq(Rows) /\ Len(r) = Len(w) - p /\ \A k \in 1..(Len(w) - p) : r[k] = w[p + k]
    BY <2>2 DEF Newest
  <2>5. 1 \in 1..Len(u) /\ 1 \in 1..e /\ IsSystem(u[1])
    BY <1>1, <1>2, SMTT(30) DEF Front
  <2>6. f \in Seq(Rows) /\ Len(f) = 1 /\ f[1] = u[1]
    BY <1>1, <2>5
  <2> HIDE DEF f, r, p
  <2>7. Front(f, 1)
    BY <2>5, <2>6 DEF Front
  <2>8. a \in Seq(Rows) /\ Len(a) = 1 /\ a[1] = u[1]
    <3>1. IsCut(a, f, 1, Len(f) + 1)
      BY <2>6, <2>7, Parted
    <3>2. a \in Seq(Rows) /\ Len(a) = 1 + (Len(f) + 1 - (Len(f) + 1)) /\ \A k \in 1..1 : a[k] = f[k]
      BY <3>1 DEF IsCut
    <3> HIDE DEF a
    <3> QED BY <3>2, <2>6
  <2> HIDE DEF a
  <2>9. /\ d \in Seq(Rows) /\ Len(d) = 1 + Len(r) /\ d[1] = u[1]
        /\ \A k \in 1..Len(r) : d[1 + k] = r[k]
    <3>1. /\ d \in Seq(Rows) /\ Len(d) = Len(a) + Len(r)
          /\ \A k \in 1..Len(a) : d[k] = a[k]
          /\ \A k \in 1..Len(r) : d[Len(a) + k] = r[k]
      BY <2>4, <2>8, Joins
    <3> HIDE DEF d
    <3> QED BY <3>1, <2>8
  <2> HIDE DEF d
  <2>10. Front(d, 1)
    <3>1. ASSUME NEW k \in 1..Len(d) PROVE IsSystem(d[k]) <=> k <= 1
      <4>1. CASE k = 1
        BY <4>1, <2>5, <2>9
      <4>2. CASE k # 1
        <5>1. k - 1 \in 1..Len(r) /\ 1 + (k - 1) = k
          BY <4>2, <2>4, <2>9
        <5>2. d[k] = r[k - 1] /\ r[k - 1] = w[p + (k - 1)]
          BY <5>1, <2>4, <2>9
        <5>3. p + (k - 1) \in 1..Len(w) /\ ~(p + (k - 1) <= n)
          BY <5>1, <2>3, <2>4, <1>2
        <5> QED BY <4>2, <5>2, <5>3, <1>2
      <4> QED BY <4>1, <4>2
    <3>2. 1 \in 0..Len(d)
      BY <2>4, <2>9
    <3> QED BY <3>1, <3>2 DEF Front
  <2>11. NotesApart(d, 1)
    BY DEF NotesApart
  <2>12. OnWire(d).rows = MessagesOf(d) /\ Tells(OnWire(d).summaries, d, 1)
    BY <2>9, <2>10, <2>11, OnWireIs
  <2>13. UNION {d[k].covers : k \in 1..1} = {}
    BY <2>5, <2>9, <1>1
  <2>14. Newest(MessagesOf(d), 0, d, 1)
    BY <2>9, <2>10, MessagesNewest
  <2> DEFINE t == MessagesOf(d)
  <2>15. t \in Seq(Rows) /\ Len(t) = Len(d) - 1 /\ \A k \in 1..(Len(d) - 1) : t[k] = d[1 + k]
    BY <2>14 DEF Newest
  <2> HIDE DEF t
  <2>16. Len(t) = Len(w) - p /\ \A k \in 1..(Len(w) - p) : t[k] = w[p + k]
    <3>1. Len(d) - 1 = Len(r) /\ Len(r) = Len(w) - p
      BY <2>4, <2>9
    <3> QED BY <3>1, <2>4, <2>9, <2>15
  <2>17. Newest(t, 0, w, p)
    <3>1. p \in 0..Len(w) /\ 0 \in Nat /\ Len(w) - p \in Nat
      BY <2>3, <1>2
    <3>2. Len(t) = 0 + (Len(w) - p)
      BY <3>1, <2>16
    <3>3. \A k \in 1..0 : IsSystem(t[k])
      OBVIOUS
    <3>4. \A k \in 1..(Len(w) - p) : t[0 + k] = w[p + k]
      BY <2>16
    <3> QED BY <3>1, <3>2, <3>3, <3>4, <2>15 DEF Newest
  <2>18. RequestIs(OnWire(d), w, n, backend.short)
    BY <1>5, <2>12, <2>13, <2>17 DEF RequestIs, Tells, t, p
  <2> QED BY <2>1, <2>18 DEF u, w
<1> QED BY <1>4, <1>5

(***************************************************************************)
(* The invariant.                                                          *)
(***************************************************************************)
Turns == [task : Nat, committed : BOOLEAN, continued : Nat, passes : Nat]

TalkTypes ==
  /\ backend \in Backends
  /\ phase \in {"idle", "head", "composing", "asked", "tools"}
  /\ turn \in Turns /\ said \in Nat /\ unanswered \in SUBSET Nat

\* A task no row holds yet is the newest message, and the turn is asking.
TaskPends ==
  ~turn.committed =>
    turn.task = said /\ said # 0 /\ phase \in {"head", "composing", "asked"}

Waits(s) == Len(s) # 0 /\ ~IsSystem(s[Len(s)]) /\ s[Len(s)].role # "tool"
Told(s, n, T, L, without, open) ==
  (\E m : Talk(s, m, without, open)) /\ Account(s, n, T, L)

\* The number of messages said but for such a task.
Heard == IF turn.committed THEN said ELSE said - 1

\* The context tells of all of them; in a batch its last row is the answer.
ContextTells ==
  IF phase = "tools"
  THEN Waits(context) /\ Told(context, Heard, trimmed, lost, unanswered, TRUE)
  ELSE Told(context, Heard, trimmed, lost, unanswered, FALSE)

\* The request tells of the context and the task.
RequestTells ==
  phase = "asked" =>
    \E n : Front(WithTask, n) /\ RequestIs(request, WithTask, n, backend.short)

RequestOrder == Talk(request.rows, 0, unanswered, FALSE)

TalkInv == TalkTypes /\ TaskPends /\ ContextTells /\ RequestTells /\ RequestOrder

LEMMA IdleTurn == Idle \in Turns /\ Idle.committed /\ Idle.task = 0
BY DEF Idle, Turns

LEMMA UserRowMade ==
  ASSUME NEW id \in Nat
  PROVE  /\ UserRow(id) \in Rows /\ UserRow(id).role = "user" /\ UserRow(id).id = id
         /\ UserRow(id).calls = 0 /\ ~UserRow(id).cleared /\ ~IsSystem(UserRow(id))
BY RowMade DEF UserRow, IsSystem

LEMMA AnswerRowMade ==
  ASSUME NEW id \in Nat, NEW n \in Nat
  PROVE  /\ AnswerRow(id, n) \in Rows /\ AnswerRow(id, n).role = "assistant"
         /\ AnswerRow(id, n).id = id /\ AnswerRow(id, n).calls = n
         /\ ~AnswerRow(id, n).cleared /\ ~IsSystem(AnswerRow(id, n))
BY DEF AnswerRow, Row, Rows, IsSystem

LEMMA ResultRowMade ==
  ASSUME NEW id \in Nat, NEW answer \in Nat, NEW k \in Nat
  PROVE  /\ ResultRow(id, answer, k) \in Rows /\ ResultRow(id, answer, k).id = id
         /\ ResultRow(id, answer, k).of = <<answer, k>> /\ ResultRow(id, answer, k).calls = 0
         /\ ~ResultRow(id, answer, k).cleared /\ ~IsSystem(ResultRow(id, answer, k))
BY DEF ResultRow, Row, Rows, IsSystem

\* The context and the task tell of all messages said.
LEMMA TaskTold ==
  ASSUME TalkInv, phase # "tools"
  PROVE  /\ Told(WithTask, said, trimmed, lost, unanswered, FALSE)
         /\ context \in Seq(Rows) /\ PendingTask \in Seq(Rows)
<1> DEFINE b == PendingTask
           n == Heard
<1>0. Told(context, n, trimmed, lost, unanswered, FALSE)
  BY DEF TalkInv, ContextTells
<1>1. PICK m : Talk(context, m, unanswered, FALSE)
  BY <1>0 DEF Told
<1>2. Account(context, n, trimmed, lost)
  BY <1>0 DEF Told
<1>3. said \in Nat /\ turn \in Turns /\ MicroKeep \in Nat
  BY ConversationAssumption DEF TalkInv, TalkTypes
<1>4. NewRows(b, n) /\ n + Len(b) = said
      /\ \A k \in 1..Len(b) : b[k].role # "tool" /\ b[k].calls = 0
  <2>1. CASE turn.committed
    <3>1. b = <<>> /\ n = said
      BY <2>1 DEF PendingTask, Heard
    <3> HIDE DEF b, n
    <3> QED BY <3>1, <1>3 DEF NewRows
  <2>2. CASE ~turn.committed
    <3>1. b = <<UserRow(said)>> /\ n = said - 1 /\ said # 0
      BY <2>2 DEF PendingTask, Heard, TalkInv, TaskPends
    <3> HIDE DEF b, n
    <3>2. said = n + 1
      BY <3>1, <1>3
    <3>3. /\ UserRow(said) \in Rows /\ UserRow(said).role = "user" /\ UserRow(said).id = said
          /\ UserRow(said).calls = 0 /\ ~UserRow(said).cleared /\ ~IsSystem(UserRow(said))
      BY <1>3, UserRowMade
    <3>4. b \in Seq(Rows) /\ Len(b) = 1 /\ b[1] = UserRow(said)
      BY <3>1, <3>3
    <3>5. \A k \in 1..Len(b) : k = 1
      BY <3>4
    <3> QED BY <3>2, <3>3, <3>4, <3>5 DEF NewRows
  <2> QED BY <2>1, <2>2
<1>5. context \in Seq(Rows) /\ b \in Seq(Rows)
  BY <1>1, <1>4 DEF Talk, NewRows
<1> HIDE DEF b, n
<1>6. Talk(context \o b, m, unanswered, FALSE) /\ Account(context \o b, n + Len(b), trimmed, lost)
  BY <1>1, <1>2, <1>3, <1>4, PushTexts
<1>7. WithTask = context \o b
  BY DEF WithTask, b
<1>8. Told(WithTask, said, trimmed, lost, unanswered, FALSE)
  BY <1>4, <1>6, <1>7 DEF Told
<1> QED BY <1>5, <1>8 DEF b

\* Texts said after all messages are told with them.
LEMMA TextsTold ==
  ASSUME NEW s, NEW n, NEW T, NEW L, NEW without, NEW open \in BOOLEAN,
         Told(s, n, T, L, without, FALSE), NEW b, NewRows(b, n),
         \A k \in 1..Len(b) : b[k].role # "tool" /\ (b[k].calls = 0 \/ (open /\ k = Len(b)))
  PROVE  Told(s \o b, n + Len(b), T, L, without, open)
<1>1. PICK m : Talk(s, m, without, FALSE)
  BY DEF Told
<1>2. Account(s, n, T, L) /\ MicroKeep \in Nat
  BY ConversationAssumption DEF Told
<1>3. Talk(s \o b, m, without, open) /\ Account(s \o b, n + Len(b), T, L)
  BY <1>1, <1>2, PushTexts
<1> QED BY <1>3 DEF Told

LEMMA AnswerTold ==
  ASSUME NEW s, NEW n, NEW T, NEW L, NEW without, NEW open \in BOOLEAN,
         Told(s, n, T, L, without, FALSE), NEW c \in Nat, c = 0 \/ open
  PROVE  /\ Told(s \o <<AnswerRow(n + 1, c)>>, n + 1, T, L, without, open)
         /\ Waits(s \o <<AnswerRow(n + 1, c)>>)
<1> DEFINE r == AnswerRow(n + 1, c)
           b == <<r>>
<1>1. n \in Nat /\ s \in Seq(Rows)
  BY DEF Told, Account, Talk
<1>2. /\ r \in Rows /\ r.role = "assistant" /\ r.id = n + 1 /\ r.calls = c
      /\ ~r.cleared /\ ~IsSystem(r)
  BY <1>1, AnswerRowMade
<1> HIDE DEF r
<1>3. b \in Seq(Rows) /\ Len(b) = 1 /\ b[1] = r /\ \A k \in 1..Len(b) : k = 1
  BY <1>2
<1> HIDE DEF b
<1>4. NewRows(b, n)
  BY <1>2, <1>3 DEF NewRows
<1>5. \A k \in 1..Len(b) : b[k].role # "tool" /\ (b[k].calls = 0 \/ (open /\ k = Len(b)))
  BY <1>2, <1>3
<1>6. Told(s \o b, n + Len(b), T, L, without, open)
  BY <1>4, <1>5, TextsTold
<1>7. Len(s \o b) = Len(s) + 1 /\ (s \o b)[Len(s) + 1] = r
  <2>1. Len(s \o b) = Len(s) + Len(b) /\ \A k \in 1..Len(b) : (s \o b)[Len(s) + k] = b[k]
    BY <1>1, <1>3, Joins
  <2> QED BY <2>1, <1>3
<1>8. Waits(s \o b)
  <2>1. Len(s) \in Nat
    BY <1>1
  <2> QED BY <2>1, <1>2, <1>7 DEF Waits
<1> QED BY <1>3, <1>6, <1>8 DEF b, r

(***************************************************************************)
(* The steps of a turn.                                                    *)
(***************************************************************************)
LEMMA TalkStarts == TalkInit => TalkInv
<1> SUFFICES ASSUME TalkInit PROVE TalkInv
  OBVIOUS
<1>1. Idle \in Turns /\ Idle.committed
  BY IdleTurn
<1>2. TalkTypes /\ TaskPends
  BY <1>1 DEF TalkInit, TalkTypes, TaskPends
<1>3. \A without, open : Talk(<<>>, 0, without, open)
  BY DEF Talk, Front, InOrderSaid, NewestWhole, ResultsBehind, ResultsFollow
<1>4. Account(<<>>, 0, {}, {})
  <2>1. Ids(<<>>) = {}
    BY DEF Ids
  <2> QED BY <2>1 DEF Account, IsMessage, IsNote
<1>5. Told(<<>>, 0, {}, {}, {}, FALSE)
  BY <1>3, <1>4 DEF Told
<1>6. ContextTells
  BY <1>1, <1>5 DEF ContextTells, Heard, TalkInit
<1>7. RequestTells
  BY DEF RequestTells, TalkInit
<1>8. RequestOrder
  <2>1. request.rows = <<>>
    BY DEF TalkInit
  <2> QED BY <1>3, <2>1 DEF RequestOrder
<1> QED BY <1>2, <1>6, <1>7, <1>8 DEF TalkInv

LEMMA StartTurnKeeps ==
  ASSUME TalkInv, StartTurn PROVE TalkInv'
<1>1. turn.committed /\ said \in Nat /\ phase = "idle"
  BY DEF TalkInv, TalkTypes, TaskPends, StartTurn
<1>2. said' = said + 1 /\ phase' = "head" /\ turn' = [Idle EXCEPT !.task = said', !.committed = FALSE]
  BY DEF StartTurn
<1>3. turn' \in Turns /\ ~turn'.committed /\ turn'.task = said'
  <2>1. said' \in Nat
    BY <1>1, <1>2
  <2>2. turn' = [task |-> said', committed |-> FALSE, continued |-> 0, passes |-> 0]
    BY <1>2 DEF Idle
  <2> QED BY <2>1, <2>2 DEF Turns
<1>4. UNCHANGED <<backend, context, request, trimmed, lost, unanswered>>
  BY DEF StartTurn
<1>5. TalkTypes'
  BY <1>1, <1>2, <1>3, <1>4 DEF TalkInv, TalkTypes
<1>6. TaskPends'
  BY <1>1, <1>2, <1>3 DEF TaskPends
<1>7. ContextTells'
  <2>1. Told(context, said, trimmed, lost, unanswered, FALSE)
    BY <1>1 DEF TalkInv, ContextTells, Heard
  <2>2. Heard' = said
    BY <1>1, <1>2, <1>3 DEF Heard
  <2> QED BY <1>2, <1>4, <2>1, <2>2 DEF ContextTells
<1>8. RequestTells'
  BY <1>2 DEF RequestTells
<1>9. RequestOrder'
  BY <1>4 DEF TalkInv, RequestOrder
<1> QED BY <1>5, <1>6, <1>7, <1>8, <1>9 DEF TalkInv

\* A turn that ends before its answer.
LEMMA ReturnKeeps ==
  ASSUME TalkInv, phase # "tools", Leave,
         UNCHANGED <<backend, context, request, said, trimmed, unanswered>>
  PROVE  TalkInv'
<1>1. phase' = "idle" /\ turn' = Idle
      /\ lost' = IF turn.committed THEN lost ELSE lost \cup {turn.task}
  BY DEF Leave
<1>2. TalkTypes' /\ turn'.committed
  BY <1>1, IdleTurn DEF TalkInv, TalkTypes
<1>3. TaskPends'
  BY <1>2 DEF TaskPends
<1>4. ContextTells'
  <2>1. Told(context, Heard, trimmed, lost, unanswered, FALSE)
    BY DEF TalkInv, ContextTells
  <2>2. Told(context, said, trimmed, lost', unanswered, FALSE)
    <3>1. CASE turn.committed
      BY <3>1, <2>1, <1>1 DEF Heard
    <3>2. CASE ~turn.committed
      <4> DEFINE n == said - 1
      <4>1. n + 1 = said /\ lost' = lost \cup {said}
        BY <3>2, <1>1 DEF TalkInv, TaskPends, TalkTypes
      <4>2. Told(context, n, trimmed, lost, unanswered, FALSE)
        BY <2>1, <3>2 DEF Heard
      <4> HIDE DEF n
      <4>3. PICK m : Talk(context, m, unanswered, FALSE)
        BY <4>2 DEF Told
      <4>4. Account(context, n, trimmed, lost) /\ context \in Seq(Rows)
        BY <4>2, <4>3 DEF Told, Talk
      <4>5. Account(context, n + 1, trimmed, lost \cup {n + 1})
        BY <4>4, NewestLost
      <4> QED BY <4>1, <4>3, <4>5 DEF Told
    <3> QED BY <3>1, <3>2
  <2>3. Heard' = said
    BY <1>2 DEF Heard
  <2> QED BY <1>1, <2>2, <2>3 DEF ContextTells
<1>5. RequestTells'
  BY <1>1 DEF RequestTells
<1>6. RequestOrder'
  BY DEF TalkInv, RequestOrder
<1> QED BY <1>2, <1>3, <1>4, <1>5, <1>6 DEF TalkInv

LEMMA MicrocompactKeeps ==
  ASSUME TalkInv, Microcompact PROVE TalkInv'
<1> DEFINE s == context
           t == context'
<1>1. phase = "head" /\ phase' = "composing" /\ turn' = [turn EXCEPT !.passes = 0]
      /\ UNCHANGED <<backend, request, said, trimmed, lost, unanswered>>
  BY DEF Microcompact
<1>2. turn \in Turns
  BY DEF TalkInv, TalkTypes
<1>3. turn' \in Turns /\ turn'.committed = turn.committed /\ turn'.task = turn.task
  BY <1>1, <1>2 DEF Turns
<1>4. TalkTypes' /\ TaskPends'
  BY <1>1, <1>3 DEF TalkInv, TalkTypes, TaskPends
<1>5. ContextTells'
  <2>1. Told(s, Heard, trimmed, lost, unanswered, FALSE)
    BY <1>1 DEF TalkInv, ContextTells
  <2>2. PICK m : Talk(s, m, unanswered, FALSE)
    BY <2>1 DEF Told
  <2>3. Account(s, Heard, trimmed, lost) /\ s \in Seq(Rows) /\ MicroKeep \in Nat
    BY <2>1, <2>2, ConversationAssumption DEF Told, Talk
  <2>4. t = [k \in 1..Len(s) |-> IF Clearable(k) THEN [s[k] EXCEPT !.cleared = TRUE] ELSE s[k]]
    BY <2>3 DEF Microcompact
  <2>5. \A k \in 1..Len(s) : s[k] \in Rows
    BY <2>3
  <2>6. \A k \in 1..Len(s) : Clearable(k) => s[k].role = "tool" /\ k <= Len(s) - MicroKeep
    BY DEF Clearable
  <2>7. Len(s) \in Nat
    BY <2>3
  <2> HIDE DEF s, t
  <2>8. ASSUME NEW k \in 1..Len(s)
        PROVE  /\ t[k] \in Rows
               /\ t[k].role = s[k].role /\ t[k].id = s[k].id /\ t[k].calls = s[k].calls
               /\ t[k].of = s[k].of /\ t[k].covers = s[k].covers
               /\ t[k].cleared => s[k].cleared \/ (s[k].role = "tool" /\ k + MicroKeep <= Len(s))
    <3>1. CASE Clearable(k)
      <4>1. t[k] = [s[k] EXCEPT !.cleared = TRUE]
        BY <2>4, <3>1
      <4>2. k + MicroKeep <= Len(s) /\ s[k].role = "tool" /\ s[k] \in Rows
        BY <2>3, <2>5, <2>6, <2>7, <3>1
      <4> QED BY <4>1, <4>2 DEF Rows
    <3>2. CASE ~Clearable(k)
      BY <2>4, <2>5, <3>2
    <3> QED BY <3>1, <3>2
  <2>9. t \in Seq(Rows) /\ Len(t) = Len(s)
    <3>1. t \in [1..Len(s) -> Rows]
      BY <2>4, <2>8
    <3> QED BY <3>1, <2>7
  <2>10. Talk(t, m, unanswered, FALSE) /\ Account(t, Heard, trimmed, lost)
    BY <2>2, <2>3, <2>8, <2>9, SameRows
  <2>11. Heard' = Heard
    BY <1>1, <1>3 DEF Heard
  <2>12. Told(t, Heard, trimmed, lost, unanswered, FALSE)
    BY <2>10 DEF Told
  <2> QED BY <1>1, <2>11, <2>12 DEF ContextTells, t
<1>6. RequestTells'
  BY <1>1 DEF RequestTells
<1>7. RequestOrder'
  BY <1>1 DEF TalkInv, RequestOrder
<1> QED BY <1>4, <1>5, <1>6, <1>7 DEF TalkInv

LEMMA FoldOrTrimKeeps ==
  ASSUME TalkInv, FoldOrTrim PROVE TalkInv'
<1>1. phase = "composing" /\ turn' = [turn EXCEPT !.passes = @ + 1]
      /\ UNCHANGED <<backend, phase, request, said, lost, unanswered>>
  BY DEF FoldOrTrim
<1>2. turn \in Turns
  BY DEF TalkInv, TalkTypes
<1>3. turn' \in Turns /\ turn'.committed = turn.committed /\ turn'.task = turn.task
  BY <1>1, <1>2 DEF Turns
<1>4. TalkTypes' /\ TaskPends'
  BY <1>1, <1>3 DEF TalkInv, TalkTypes, TaskPends
<1>5. ContextTells'
  <2>1. Told(context, Heard, trimmed, lost, unanswered, FALSE)
    BY <1>1 DEF TalkInv, ContextTells
  <2>2. PICK m : Talk(context, m, unanswered, FALSE)
    BY <2>1 DEF Told
  <2>3. /\ Account(context, Heard, trimmed, lost) /\ KeepRecent \in Nat /\ MicroKeep \in Nat
        /\ MaxExtras \in Nat /\ m \in Nat /\ m <= Len(context) /\ Len(context) \in Nat
    BY <2>1, <2>2, ConversationAssumption DEF Told, Talk, Front
  <2>4. Told(context', Heard, trimmed', lost, unanswered, FALSE)
    <3>1. CASE TrimOldest
      <4>1. PICK p \in m..Len(context) :
              IsTrim(context', context, m, p) /\ trimmed' = trimmed \cup Oldest(context, m, p)
        BY <2>2, <3>1, TrimIsTrim
      <4>2. p \in Nat /\ m <= p /\ p <= Len(context)
        BY <2>3
      <4>3. Account(context', Heard, trimmed', lost)
        BY <2>2, <2>3, <4>1, <4>2, TrimAccount
      <4>4. Talk(context', m, unanswered, FALSE)
        BY <2>2, <2>3, <4>1, <4>2, NewestTalk DEF IsTrim
      <4> QED BY <4>3, <4>4 DEF Told
    <3>2. ASSUME NEW extras \in 0..MaxExtras,
                 messages_to_summarize(Preamble(extras) \o context) # <<>>,
                 CanFold(Preamble(extras) \o context), Fold(Preamble(extras) \o context)
          PROVE  Told(context', Heard, trimmed', lost, unanswered, FALSE)
      <4>1. extras \in Nat
        BY <2>3
      <4>2. PICK p \in m..Len(context) : IsFold(context', context, m, p)
        BY <2>2, <2>3, <3>2, <4>1, FoldIsFold
      <4>3. trimmed' = trimmed
        BY <3>2 DEF Fold
      <4>4. p \in Nat /\ m <= p /\ p <= Len(context) /\ m + 1 \in Nat
        BY <2>3
      <4>5. Account(context', Heard, trimmed', lost)
        BY <2>2, <2>3, <4>2, <4>3, <4>4, FoldAccount
      <4>6. Newest(context', m + 1, context, p)
        BY <4>2 DEF IsFold
      <4>7. Talk(context', m + 1, unanswered, FALSE)
        BY <2>2, <2>3, <4>4, <4>6, NewestTalk
      <4> QED BY <4>5, <4>7 DEF Told
    <3> QED BY <3>1, <3>2 DEF FoldOrTrim
  <2>5. Heard' = Heard
    BY <1>1, <1>3 DEF Heard
  <2> QED BY <1>1, <2>4, <2>5 DEF ContextTells
<1>6. RequestTells'
  BY <1>1 DEF RequestTells
<1>7. RequestOrder'
  BY <1>1 DEF TalkInv, RequestOrder
<1> QED BY <1>4, <1>5, <1>6, <1>7 DEF TalkInv

\* What the rows of a story tell apart.
LEMMA ToldNotes ==
  ASSUME NEW s, NEW n, NEW T, NEW L, NEW without, NEW open, NEW m,
         Talk(s, m, without, open), Account(s, n, T, L)
  PROVE  NotesApart(s, m)
<1>1. m \in Nat /\ Len(s) \in Nat /\ m <= Len(s)
      /\ \A k \in 1..Len(s) : IsSystem(s[k]) <=> k <= m
  BY DEF Talk, Front
<1>2. \A k \in 1..m : IsNote(s, k)
  BY <1>1 DEF IsNote
<1>3. \A i, j : IsNote(s, i) /\ IsNote(s, j) /\ i # j => s[i].covers \cap s[j].covers = {}
  BY DEF Account
<1> QED BY <1>2, <1>3 DEF NotesApart

LEMMA AskKeeps ==
  ASSUME TalkInv, Ask PROVE TalkInv'
<1>1. /\ phase = "composing" /\ phase' = "asked"
      /\ UNCHANGED <<backend, context, turn, said, trimmed, lost, unanswered>>
  BY DEF Ask
<1>2. TalkTypes' /\ TaskPends'
  BY <1>1 DEF TalkInv, TalkTypes, TaskPends
<1>3. ContextTells'
  BY <1>1 DEF TalkInv, ContextTells, Heard
<1>4. PICK extras \in 0..MaxExtras : request' = OnWire(trim_messages_for_model(Composed(extras)))
  BY DEF Ask
<1>5. extras \in Nat /\ ShortKeep \in Nat /\ MicroKeep \in Nat
  BY ConversationAssumption
<1>6. Told(WithTask, said, trimmed, lost, unanswered, FALSE)
      /\ context \in Seq(Rows) /\ PendingTask \in Seq(Rows)
  BY <1>1, TaskTold
<1>7. PICK n : Talk(WithTask, n, unanswered, FALSE)
  BY <1>6 DEF Told
<1>8. NotesApart(WithTask, n)
  BY <1>6, <1>7, ToldNotes DEF Told
<1>9. WithTask \in Seq(Rows) /\ Front(WithTask, n)
  BY <1>7 DEF Talk
<1>10. RequestIs(request', WithTask, n, backend.short)
  BY <1>4, <1>5, <1>6, <1>8, <1>9, AskedRequest
<1>11. WithTask' = WithTask
  BY <1>1 DEF WithTask, PendingTask
<1>12. RequestTells'
  BY <1>1, <1>9, <1>10, <1>11 DEF RequestTells
<1>13. RequestOrder'
  <2>1. \E p : p \in Nat /\ n <= p /\ Newest(request'.rows, 0, WithTask, p)
    <3>1. n \in Nat /\ Len(WithTask) \in Nat /\ n <= Len(WithTask)
      BY <1>9 DEF Front
    <3>2. CASE backend.short
      <4>1. Newest(request'.rows, 0, WithTask, Cutoff(WithTask, n, ShortKeep))
        BY <1>10, <3>2 DEF RequestIs
      <4>2. Cutoff(WithTask, n, ShortKeep) \in Nat /\ n <= Cutoff(WithTask, n, ShortKeep)
        BY <3>1, <1>5 DEF Cutoff
      <4> QED BY <4>1, <4>2
    <3>3. CASE ~backend.short
      <4>1. Newest(request'.rows, 0, WithTask, n)
        BY <1>10, <3>3 DEF RequestIs
      <4> QED BY <3>1, <4>1
    <3> QED BY <3>2, <3>3
  <2>2. PICK p : p \in Nat /\ n <= p /\ Newest(request'.rows, 0, WithTask, p)
    BY <2>1
  <2>3. n \in Nat /\ 0 \in Nat
    BY <1>9 DEF Front
  <2>4. Talk(request'.rows, 0, unanswered, FALSE)
    BY <1>5, <1>7, <2>2, <2>3, NewestTalk
  <2> QED BY <1>1, <2>4 DEF RequestOrder
<1> QED BY <1>2, <1>3, <1>12, <1>13 DEF TalkInv

LEMMA FinalAnswerKeeps ==
  ASSUME TalkInv, FinalAnswer PROVE TalkInv'
<1> DEFINE t == WithTask \o <<AnswerRow(said + 1, 0)>>
<1>1. /\ phase = "asked" /\ phase' = "idle" /\ turn' = Idle /\ said' = said + 1 /\ context' = t
      /\ UNCHANGED <<backend, request, trimmed, lost, unanswered>>
  BY DEF FinalAnswer, NextId
<1>2. TalkTypes' /\ TaskPends'
  BY <1>1, IdleTurn DEF TalkInv, TalkTypes, TaskPends
<1>3. Told(t, said + 1, trimmed, lost, unanswered, FALSE)
  BY <1>1, TaskTold, AnswerTold
<1> HIDE DEF t
<1>4. Heard' = said + 1
  BY <1>1, IdleTurn DEF Heard
<1>5. ContextTells'
  BY <1>1, <1>3, <1>4 DEF ContextTells
<1>6. RequestTells' /\ RequestOrder'
  BY <1>1 DEF TalkInv, RequestTells, RequestOrder
<1> QED BY <1>2, <1>5, <1>6 DEF TalkInv

LEMMA CallToolsKeeps ==
  ASSUME TalkInv, CallTools PROVE TalkInv'
<1>1. /\ phase = "asked" /\ phase' = "tools" /\ turn' = [Committed EXCEPT !.continued = 0]
      /\ said' = said + 1
      /\ UNCHANGED <<backend, request, trimmed, lost, unanswered>>
  BY DEF CallTools, NextId
<1>2. turn' \in Turns /\ turn'.committed
  BY <1>1 DEF TalkInv, TalkTypes, Turns, Committed
<1>3. TalkTypes' /\ TaskPends'
  BY <1>1, <1>2 DEF TalkInv, TalkTypes, TaskPends
<1>4. PICK n \in 1..MaxBatch : context' = WithTask \o <<AnswerRow(said + 1, n)>>
  BY DEF CallTools, NextId
<1> DEFINE t == WithTask \o <<AnswerRow(said + 1, n)>>
<1>5. n \in Nat
  BY ConversationAssumption
<1>6. Told(t, said + 1, trimmed, lost, unanswered, TRUE) /\ Waits(t)
  BY <1>1, <1>5, TaskTold, AnswerTold
<1>7. context' = t
  BY <1>4
<1> HIDE DEF t
<1>8. Heard' = said + 1
  BY <1>1, <1>2 DEF Heard
<1>9. ContextTells'
  BY <1>1, <1>6, <1>7, <1>8 DEF ContextTells
<1>10. RequestTells' /\ RequestOrder'
  BY <1>1 DEF TalkInv, RequestTells, RequestOrder
<1> QED BY <1>3, <1>9, <1>10 DEF TalkInv

LEMMA ContinueTruncatedKeeps ==
  ASSUME TalkInv, ContinueTruncated PROVE TalkInv'
<1> DEFINE b == <<AnswerRow(said + 1, 0), UserRow(said + 2)>>
           t == WithTask \o b
<1>1. /\ phase = "asked" /\ phase' = "head" /\ turn' = [Committed EXCEPT !.continued = @ + 1]
      /\ said' = said + 2 /\ said \in Nat
      /\ UNCHANGED <<backend, request, trimmed, lost, unanswered>>
  BY DEF ContinueTruncated, TalkInv, TalkTypes
<1>2. turn' \in Turns /\ turn'.committed
  <2>1. turn \in Turns
    BY DEF TalkInv, TalkTypes
  <2>2. turn' = [task |-> turn.task, committed |-> TRUE, continued |-> turn.continued + 1,
                 passes |-> turn.passes]
    BY <1>1, <2>1 DEF Turns, Committed
  <2>3. turn.task \in Nat /\ turn.continued + 1 \in Nat /\ turn.passes \in Nat
    BY <2>1 DEF Turns
  <2> QED BY <2>2, <2>3 DEF Turns
<1>3. TalkTypes' /\ TaskPends'
  BY <1>1, <1>2 DEF TalkInv, TalkTypes, TaskPends
<1>4. context' = t
  <2>1. NextId = said + 1 /\ NextId + 1 = said + 2
    BY <1>1 DEF NextId
  <2> QED BY <2>1 DEF ContinueTruncated
<1>5. NewRows(b, said) /\ Len(b) = 2
      /\ \A k \in 1..Len(b) : b[k].role # "tool" /\ b[k].calls = 0
  <2> DEFINE x == AnswerRow(said + 1, 0)
             y == UserRow(said + 2)
  <2>1. /\ x \in Rows /\ x.role = "assistant" /\ x.id = said + 1 /\ x.calls = 0
        /\ ~x.cleared /\ ~IsSystem(x)
    <3>1. said + 1 \in Nat /\ 0 \in Nat
      BY <1>1
    <3> HIDE DEF b, t
    <3> QED BY <3>1, AnswerRowMade
  <2>2. /\ y \in Rows /\ y.role = "user" /\ y.id = said + 2 /\ y.calls = 0
        /\ ~y.cleared /\ ~IsSystem(y)
    BY <1>1, UserRowMade
  <2> HIDE DEF x, y
  <2>3. b = <<x, y>>
    BY DEF x, y
  <2> HIDE DEF b
  <2>4. b \in Seq(Rows) /\ Len(b) = 2 /\ b[1] = x /\ b[2] = y /\ \A k \in 1..Len(b) : k = 1 \/ k = 2
    BY <2>1, <2>2, <2>3
  <2> QED BY <2>1, <2>2, <2>4 DEF NewRows
<1> HIDE DEF b
<1>6. Told(t, said + Len(b), trimmed, lost, unanswered, FALSE)
  BY <1>1, <1>5, TaskTold, TextsTold
<1> HIDE DEF t
<1>7. Heard' = said + Len(b)
  BY <1>1, <1>2, <1>5 DEF Heard
<1>8. ContextTells'
  BY <1>1, <1>4, <1>6, <1>7 DEF ContextTells
<1>9. RequestTells' /\ RequestOrder'
  BY <1>1 DEF TalkInv, RequestTells, RequestOrder
<1> QED BY <1>3, <1>8, <1>9 DEF TalkInv

LEMMA ToolsDoneKeeps ==
  ASSUME TalkInv, ToolsDone PROVE TalkInv'
<1> DEFINE s == context
           answer == s[Len(s)]
           b == Results(answer)
           t == s \o b
<1>1. /\ phase = "tools" /\ phase' \in {"head", "idle"} /\ turn' \in {turn, Idle}
      /\ said' = said + answer.calls /\ context' = t
      /\ UNCHANGED <<backend, request, trimmed, lost, unanswered>>
  BY DEF ToolsDone
<1>2. said \in Nat /\ turn \in Turns /\ turn.committed /\ MicroKeep \in Nat
  BY <1>1, ConversationAssumption DEF TalkInv, TalkTypes, TaskPends
<1>3. turn' \in Turns /\ turn'.committed
  BY <1>1, <1>2, IdleTurn
<1>4. Waits(s) /\ Told(s, said, trimmed, lost, unanswered, TRUE)
  BY <1>1, <1>2 DEF TalkInv, ContextTells, Heard
<1>5. PICK m : Talk(s, m, unanswered, TRUE)
  BY <1>4 DEF Told
<1>6. Account(s, said, trimmed, lost) /\ s \in Seq(Rows)
  BY <1>4, <1>5 DEF Told, Talk
<1>7. Len(s) # 0 /\ ~IsSystem(answer) /\ answer \in Rows /\ answer.calls \in Nat /\ answer.id \in Nat
  <2>1. Len(s) # 0 /\ ~IsSystem(answer)
    BY <1>4 DEF Waits
  <2>2. Len(s) \in 1..Len(s)
    BY <1>6, <2>1
  <2>3. answer \in Rows
    <3> HIDE DEF s
    <3> QED BY <1>6, <2>2
  <2> HIDE DEF answer
  <2> QED BY <2>1, <2>3 DEF Rows
<1> HIDE DEF s
<1>8. NewRows(b, said) /\ Len(b) = answer.calls
      /\ \A k \in 1..Len(b) : b[k].of = <<answer.id, k>> /\ b[k].calls = 0
  <2> DEFINE c == answer.calls
             i == answer.id
  <2>1. b = [k \in 1..c |-> ResultRow(said + k, i, k)] /\ c \in Nat /\ i \in Nat
    BY <1>7 DEF Results
  <2> HIDE DEF c, i, b
  <2>2. ASSUME NEW k \in 1..c
        PROVE  /\ b[k] \in Rows /\ b[k].id = said + k /\ b[k].of = <<i, k>>
               /\ b[k].calls = 0 /\ ~b[k].cleared /\ ~IsSystem(b[k])
    <3>1. said + k \in Nat /\ k \in Nat
      BY <1>2, <2>1
    <3> QED BY <2>1, <3>1, ResultRowMade, SMTT(30)
  <2>3. b \in Seq(Rows) /\ Len(b) = c
    <3>1. b \in [1..c -> Rows]
      BY <2>1, <2>2
    <3> QED BY <2>1, <3>1
  <2>4. NewRows(b, said)
    BY <2>2, <2>3 DEF NewRows
  <2> QED BY <2>2, <2>3, <2>4 DEF c, i
<1> HIDE DEF b
<1>9. Talk(t, m, unanswered, FALSE) /\ Account(t, said + Len(b), trimmed, lost)
  BY <1>2, <1>5, <1>6, <1>7, <1>8, PushResults
<1>10. Told(t, said', trimmed, lost, unanswered, FALSE)
  BY <1>1, <1>8, <1>9 DEF Told
<1> HIDE DEF t, answer
<1>11. TalkTypes'
  BY <1>1, <1>2, <1>3, <1>7 DEF TalkInv, TalkTypes
<1>12. TaskPends' /\ Heard' = said'
  BY <1>3 DEF TaskPends, Heard
<1>13. ContextTells'
  BY <1>1, <1>10, <1>12 DEF ContextTells
<1>14. RequestTells' /\ RequestOrder'
  BY <1>1 DEF TalkInv, RequestTells, RequestOrder
<1> QED BY <1>11, <1>12, <1>13, <1>14 DEF TalkInv

LEMMA BatchFailsKeeps ==
  ASSUME TalkInv, BatchFails PROVE TalkInv'
<1> DEFINE s == context
           id == s[Len(s)].id
           more == unanswered \cup {id}
<1>1. /\ phase = "tools" /\ phase' = "idle" /\ turn' = Idle /\ unanswered' = more
      /\ UNCHANGED <<backend, context, request, said, trimmed, lost>>
  BY DEF BatchFails
<1>2. turn.committed /\ Idle \in Turns /\ Idle.committed
  BY <1>1, IdleTurn DEF TalkInv, TaskPends
<1>3. Waits(s) /\ Told(s, said, trimmed, lost, unanswered, TRUE)
  BY <1>1, <1>2 DEF TalkInv, ContextTells, Heard
<1>4. PICK m : Talk(s, m, unanswered, TRUE)
  BY <1>3 DEF Told
<1>5. Len(s) # 0 /\ s \in Seq(Rows) /\ Account(s, said, trimmed, lost)
  BY <1>3, <1>4 DEF Waits, Told, Talk
<1> HIDE DEF s
<1>6. id \in Nat
  <2>1. Len(s) \in 1..Len(s)
    BY <1>5
  <2>2. s[Len(s)] \in Rows
    BY <1>5, <2>1
  <2> QED BY <2>2 DEF Rows
<1>7. Talk(s, m, more, FALSE)
  <2>1. ASSUME NEW k \in 1..Len(s), ~IsSystem(s[k]), s[k].id \notin more, NEW c \in 1..s[k].calls
        PROVE  k + c <= Len(s) /\ s[k + c].of = <<s[k].id, c>>
    <3>1. k # Len(s) /\ s[k].id \notin unanswered
      BY <2>1
    <3> QED BY <1>4, <2>1, <3>1 DEF Talk, ResultsBehind
  <2>2. ResultsBehind(s, more, FALSE)
    BY <2>1 DEF ResultsBehind
  <2> QED BY <1>4, <2>2 DEF Talk
<1> HIDE DEF id, more
<1>8. Told(s, said, trimmed, lost, more, FALSE)
  BY <1>5, <1>7 DEF Told
<1>9. TalkTypes' /\ TaskPends'
  BY <1>1, <1>2, <1>6 DEF TalkInv, TalkTypes, TaskPends, more
<1>10. ContextTells'
  BY <1>1, <1>2, <1>8 DEF ContextTells, Heard, s
<1>11. RequestTells' /\ RequestOrder'
  <2>1. unanswered \subseteq more
    BY DEF more
  <2>2. Talk(request.rows, 0, more, FALSE)
    BY <2>1, WithoutMore DEF TalkInv, RequestOrder
  <2> QED BY <1>1, <2>2 DEF RequestTells, RequestOrder
<1> QED BY <1>9, <1>10, <1>11 DEF TalkInv

(***************************************************************************)
(* What is left of the context between turns.                              *)
(***************************************************************************)
LEMMA ReplacedKeeps ==
  ASSUME TalkInv, NEW t, NEW f, NEW more \in SUBSET Nat,
         Replaced(t), unanswered \subseteq more, unanswered' = more,
         IsThinned(t, context, f, more)
  PROVE  TalkInv'
<1> DEFINE gone == lost \cup (Ids(context) \ Ids(t))
<1>1. /\ phase = "idle" /\ context' = t /\ lost' = gone
      /\ UNCHANGED <<backend, phase, turn, request, said, trimmed>>
  BY DEF Replaced
<1>2. turn.committed
  BY <1>1 DEF TalkInv, TaskPends
<1>3. Told(context, said, trimmed, lost, unanswered, FALSE)
  BY <1>1, <1>2 DEF TalkInv, ContextTells, Heard
<1>4. PICK m : Talk(context, m, unanswered, FALSE)
  BY <1>3 DEF Told
<1>5. Account(context, said, trimmed, lost)
  BY <1>3 DEF Told
<1>6. Talk(t, 0, more, FALSE) /\ Account(t, said, trimmed, gone)
  BY <1>4, <1>5, ThinnedRows
<1> HIDE DEF gone
<1>7. Told(t, said, trimmed, gone, more, FALSE)
  BY <1>6 DEF Told
<1>8. TalkTypes' /\ TaskPends'
  BY <1>1, <1>2 DEF TalkInv, TalkTypes, TaskPends
<1>9. ContextTells'
  BY <1>1, <1>2, <1>7 DEF ContextTells, Heard
<1>10. Talk(request.rows, 0, more, FALSE)
  BY WithoutMore DEF TalkInv, RequestOrder
<1>11. RequestTells' /\ RequestOrder'
  BY <1>1, <1>10 DEF RequestTells, RequestOrder
<1> QED BY <1>8, <1>9, <1>11 DEF TalkInv

LEMMA TextsMade ==
  ASSUME context \in Seq(Rows)
  PROVE  \E f : /\ Texts \in Seq(Rows) /\ f \in [1..Len(Texts) -> 1..Len(context)]
                /\ \A i, j \in 1..Len(Texts) : i < j => f[i] < f[j]
                /\ \A k \in 1..Len(Texts) : Texts[k] = context[f[k]]
                     /\ Texts[k].role \in {"user", "assistant"}
<1> DEFINE s == context
           S == {k \in DOMAIN s : s[k].role \in {"user", "assistant"}}
           c == Cardinality(S)
           f == InOrder(S)
           t == Texts
<1>1. Len(s) \in Nat /\ s \in Seq(Rows) /\ S \in SUBSET (1..Len(s))
  OBVIOUS
<1>2. t = At(s, S)
  BY DEF Texts
<1>3. \A k \in S : s[k].role \in {"user", "assistant"}
  OBVIOUS
<1> HIDE DEF s, S
<1>4. c \in Nat /\ f \in [1..c -> S]
  BY <1>1, OrderType
<1>5. \A i, j \in 1..c : i < j => f[i] < f[j]
  BY <1>1, OrderIncreases
<1>6. t = [k \in 1..c |-> s[f[k]]]
  BY <1>2, <1>4 DEF At
<1> HIDE DEF f, c, t
<1>7. ASSUME NEW k \in 1..c
      PROVE  f[k] \in 1..Len(s) /\ t[k] = s[f[k]] /\ t[k] \in Rows
             /\ t[k].role \in {"user", "assistant"}
  <2>1. f[k] \in S /\ f[k] \in 1..Len(s)
    BY <1>1, <1>4
  <2>2. t[k] = s[f[k]]
    BY <1>6
  <2>3. s[f[k]] \in Rows
    BY <1>1, <2>1
  <2> QED BY <1>3, <2>1, <2>2, <2>3
<1>8. t \in Seq(Rows) /\ Len(t) = c
  <2>1. t \in [1..c -> Rows]
    BY <1>6, <1>7
  <2> QED BY <1>4, <2>1
<1>9. f \in [1..c -> 1..Len(s)]
  BY <1>1, <1>4
<1>10. /\ t \in Seq(Rows) /\ f \in [1..Len(t) -> 1..Len(s)]
       /\ \A i, j \in 1..Len(t) : i < j => f[i] < f[j]
       /\ \A k \in 1..Len(t) : t[k] = s[f[k]] /\ t[k].role \in {"user", "assistant"}
  BY <1>5, <1>7, <1>8, <1>9
<1> QED BY <1>10 DEF t, s

LEMMA ContextTyped == ASSUME TalkInv PROVE context \in Seq(Rows) /\ unanswered \in SUBSET Nat
<1>1. \E n, open : Told(context, n, trimmed, lost, unanswered, open)
  BY Zenon DEF TalkInv, ContextTells
<1>2. \E m, open : Talk(context, m, unanswered, open)
  BY <1>1, Zenon DEF Told
<1> QED BY <1>2 DEF Talk, TalkInv, TalkTypes

LEMMA RestoreHeadlessKeeps ==
  ASSUME TalkInv, RestoreHeadless PROVE TalkInv'
<1> DEFINE s == context
           t == Texts
           waiting == {s[k].id : k \in {i \in DOMAIN s : s[i].calls > 0}}
           more == unanswered \cup waiting
<1>1. Replaced(t) /\ unanswered' = more
  BY DEF RestoreHeadless
<1>2. s \in Seq(Rows) /\ unanswered \in SUBSET Nat
  BY ContextTyped
<1>3. PICK f : /\ t \in Seq(Rows) /\ f \in [1..Len(t) -> 1..Len(s)]
               /\ \A i, j \in 1..Len(t) : i < j => f[i] < f[j]
               /\ \A k \in 1..Len(t) : t[k] = s[f[k]] /\ t[k].role \in {"user", "assistant"}
  BY <1>2, TextsMade
<1> HIDE DEF s, t
<1>4. \A k \in 1..Len(s) : s[k].id \in Nat /\ s[k].calls \in Nat
  <2>1. \A k \in 1..Len(s) : s[k] \in Rows
    BY <1>2
  <2> QED BY <2>1 DEF Rows
<1>5. more \in SUBSET Nat
  <2>1. DOMAIN s = 1..Len(s)
    BY <1>2
  <2>2. waiting \in SUBSET Nat
    BY <1>4, <2>1
  <2> HIDE DEF waiting
  <2> QED BY <1>2, <2>2
<1>6. \A k \in 1..Len(s) : s[k].calls = 0 \/ s[k].id \in more
  BY <1>2, <1>4
<1>7. unanswered \subseteq more
  OBVIOUS
<1> HIDE DEF more
<1>8. IsThinned(t, s, f, more)
  <2>1. \A k \in 1..Len(t) : f[k] \in 1..Len(s)
    BY <1>3
  <2>2. \A k \in 1..Len(t) : t[k].calls = 0 \/ t[k].id \in more
    BY <1>3, <1>6, <2>1
  <2>3. \A k \in 1..Len(t) : /\ t[k].role \in {"user", "assistant"} /\ s[f[k]].role = t[k].role
                             /\ t[k].id = s[f[k]].id /\ t[k].cleared = s[f[k]].cleared
    BY <1>3, Zenon
  <2> QED BY <1>3, <2>2, <2>3 DEF IsThinned
<1> QED BY <1>1, <1>5, <1>7, <1>8, ReplacedKeeps DEF s

LEMMA RestoreTuiKeeps ==
  ASSUME TalkInv, RestoreTui PROVE TalkInv'
<1> DEFINE s == context
           x == Texts
           t == [k \in DOMAIN x |-> [x[k] EXCEPT !.calls = 0]]
<1>1. Replaced(t) /\ unanswered' = unanswered
  BY DEF RestoreTui
<1>2. s \in Seq(Rows) /\ unanswered \in SUBSET Nat
  BY ContextTyped
<1>3. PICK f : /\ x \in Seq(Rows) /\ f \in [1..Len(x) -> 1..Len(s)]
               /\ \A i, j \in 1..Len(x) : i < j => f[i] < f[j]
               /\ \A k \in 1..Len(x) : x[k] = s[f[k]] /\ x[k].role \in {"user", "assistant"}
  BY <1>2, TextsMade
<1> HIDE DEF s, x
<1>4. ASSUME NEW k \in 1..Len(x)
      PROVE  /\ t[k] \in Rows /\ t[k].role \in {"user", "assistant"} /\ s[f[k]].role = t[k].role
             /\ t[k].id = s[f[k]].id /\ t[k].cleared = s[f[k]].cleared /\ t[k].calls = 0
  <2>1. x[k] \in Rows /\ x[k] = s[f[k]] /\ x[k].role \in {"user", "assistant"}
    BY <1>3
  <2>2. t[k] = [x[k] EXCEPT !.calls = 0]
    <3>1. k \in DOMAIN x
      BY <1>3
    <3> QED BY <3>1
  <2> HIDE DEF t
  <2>3. /\ t[k] \in Rows /\ t[k].role = x[k].role /\ t[k].id = x[k].id
        /\ t[k].cleared = x[k].cleared /\ t[k].calls = 0
    BY <2>1, <2>2, SMTT(30) DEF Rows
  <2> QED BY <2>1, <2>3
<1>5. t \in Seq(Rows) /\ Len(t) = Len(x)
  <2>1. Len(x) \in Nat /\ DOMAIN x = 1..Len(x)
    BY <1>3
  <2>2. t \in [1..Len(x) -> Rows]
    BY <1>4, <2>1
  <2> QED BY <2>1, <2>2
<1> HIDE DEF t
<1>6. IsThinned(t, s, f, unanswered)
  BY <1>3, <1>4, <1>5, Zenon DEF IsThinned
<1> QED BY <1>1, <1>2, <1>6, ReplacedKeeps DEF s

LEMMA ClearKeeps ==
  ASSUME TalkInv, Clear PROVE TalkInv'
<1> DEFINE f == [k \in 1..0 |-> 1]
<1>1. Replaced(<<>>) /\ unanswered' = unanswered /\ unanswered \in SUBSET Nat
  BY ContextTyped DEF Clear
<1>2. IsThinned(<<>>, context, f, unanswered)
  BY DEF IsThinned
<1> HIDE DEF f
<1> QED BY <1>1, <1>2, ReplacedKeeps

LEMMA TalkStep == ASSUME TalkInv, [TalkNext]_talkVars PROVE TalkInv'
<1>1. CASE StopAtHead
  <2>1. phase # "tools" /\ Leave
        /\ UNCHANGED <<backend, context, request, said, trimmed, unanswered>>
    BY <1>1 DEF StopAtHead
  <2> QED BY <2>1, ReturnKeeps
<1>2. CASE AnswerFails
  <2>1. phase # "tools" /\ Leave
        /\ UNCHANGED <<backend, context, request, said, trimmed, unanswered>>
    BY <1>2 DEF AnswerFails
  <2> QED BY <2>1, ReturnKeeps
<1>3. CASE UNCHANGED talkVars
  <2>1. UNCHANGED <<backend, context, phase, turn, request, said, trimmed, lost, unanswered>>
    BY <1>3 DEF talkVars
  <2>2. TalkTypes' /\ TaskPends'
    BY <2>1 DEF TalkInv, TalkTypes, TaskPends
  <2>3. ContextTells'
    BY <2>1 DEF TalkInv, ContextTells, Heard
  <2>4. RequestTells' /\ RequestOrder'
    BY <2>1 DEF TalkInv, RequestTells, RequestOrder, WithTask, PendingTask
  <2> QED BY <2>2, <2>3, <2>4 DEF TalkInv
<1> QED BY <1>1, <1>2, <1>3, StartTurnKeeps, MicrocompactKeeps, FoldOrTrimKeeps, AskKeeps,
        FinalAnswerKeeps, CallToolsKeeps, ContinueTruncatedKeeps, ToolsDoneKeeps,
        BatchFailsKeeps, RestoreHeadlessKeeps, RestoreTuiKeeps, ClearKeeps DEF TalkNext

(***************************************************************************)
(* What every request tells.                                               *)
(***************************************************************************)
\* What the rows of a story up to n cover is covered by notes, and the rest of
\* what it holds are its messages.
LEMMA HeldIn ==
  ASSUME NEW w \in Seq(Rows), NEW n, Front(w, n), NEW x \in Ids(w)
  PROVE  \/ x \in UNION {w[k].covers : k \in 1..n}
         \/ \E k \in 1..Len(w) : k > n /\ ~IsSystem(w[k]) /\ x = w[k].id
<1>1. n \in Nat /\ Len(w) \in Nat /\ n <= Len(w)
      /\ \A k \in 1..Len(w) : IsSystem(w[k]) <=> k <= n
  BY DEF Front
<1>2. CASE \E k : IsMessage(w, k) /\ x = w[k].id
  <2>1. PICK k : IsMessage(w, k) /\ x = w[k].id
    BY <1>2
  <2>2. k \in 1..Len(w) /\ ~IsSystem(w[k]) /\ k > n
    BY <2>1, <1>1 DEF IsMessage
  <2> QED BY <2>1, <2>2
<1>3. CASE \E k : IsNote(w, k) /\ x \in w[k].covers
  <2>1. PICK k : IsNote(w, k) /\ x \in w[k].covers
    BY <1>3
  <2>2. k \in 1..n
    BY <2>1, <1>1 DEF IsNote
  <2> QED BY <2>1, <2>2
<1> QED BY <1>2, <1>3, IdsAre

LEMMA NotesHeld ==
  ASSUME NEW w \in Seq(Rows), NEW n, Front(w, n), NEW k \in 1..n
  PROVE  IsNote(w, k) /\ w[k].covers \subseteq Ids(w)
<1>1. n \in Nat /\ Len(w) \in Nat /\ n <= Len(w)
      /\ \A i \in 1..Len(w) : IsSystem(w[i]) <=> i <= n
  BY DEF Front
<1>2. IsNote(w, k)
  BY <1>1 DEF IsNote
<1> QED BY <1>2, IdsAre

\* What notes of the context and the task cover is folded.
LEMMA NotesFolded ==
  ASSUME TalkInv, context \in Seq(Rows), PendingTask \in Seq(Rows),
         NEW k \in 1..Len(WithTask), IsSystem(WithTask[k])
  PROVE  WithTask[k].covers \subseteq Folded
<1> DEFINE s == context
           b == PendingTask
           w == WithTask
<1>1. /\ Len(w) = Len(s) + Len(b)
      /\ \A i \in 1..Len(s) : w[i] = s[i]
      /\ \A i \in 1..Len(b) : w[Len(s) + i] = b[i]
      /\ \A i \in 1..Len(w) : i \in 1..Len(s) \/ \E j \in 1..Len(b) : i = Len(s) + j
  <2>1. w = s \o b
    BY DEF WithTask
  <2> HIDE DEF w, s, b
  <2>2. s \in Seq(Rows) /\ b \in Seq(Rows)
    BY DEF s, b
  <2> QED BY <2>1, <2>2, Joins
<1>2. \A j \in 1..Len(b) : ~IsSystem(b[j])
  <2>1. CASE turn.committed
    <3>1. b = <<>>
      BY <2>1 DEF PendingTask
    <3> HIDE DEF b
    <3> QED BY <3>1
  <2>2. CASE ~turn.committed
    <3>1. b = <<UserRow(turn.task)>>
      BY <2>2 DEF PendingTask
    <3>2. ~IsSystem(UserRow(turn.task))
      BY DEF UserRow, Row, IsSystem
    <3> HIDE DEF b
    <3>3. \A j \in 1..Len(b) : b[j] = UserRow(turn.task)
      BY <3>1
    <3> QED BY <3>2, <3>3
  <2> QED BY <2>1, <2>2
<1>3. DOMAIN s = 1..Len(s)
  OBVIOUS
<1>4. Folded = UNION {s[i].covers : i \in 1..Len(s)}
  BY <1>3 DEF Folded
<1>5. k \in 1..Len(w) /\ IsSystem(w[k])
  OBVIOUS
<1> HIDE DEF s, b, w
<1>6. k \in 1..Len(s) /\ w[k] = s[k]
  BY <1>1, <1>2, <1>5
<1>7. w[k].covers \subseteq Folded
  BY <1>4, <1>6
<1> QED BY <1>7 DEF w

\* As many numbers as rows, when they increase.
LEMMA IdsCounted ==
  ASSUME NEW t, NEW m \in Nat, \A i, j \in 1..m : i < j => t[i].id < t[j].id,
         \A i \in 1..m : t[i].id \in Nat
  PROVE  Cardinality({t[k].id : k \in 1..m}) = m
<1> DEFINE X == {t[k].id : k \in 1..m}
           f == [k \in 1..m |-> t[k].id]
<1>1. \A k \in 1..m : f[k] = t[k].id
  OBVIOUS
<1>2. f \in [1..m -> X]
  OBVIOUS
<1>3. \A x \in X : \E k \in 1..m : f[k] = x
  OBVIOUS
<1> HIDE DEF f, X
<1>4. ASSUME NEW i \in 1..m, NEW j \in 1..m, f[i] = f[j] PROVE i = j
  <2>1. ~(f[i] < f[j]) /\ ~(f[j] < f[i])
    BY <1>1, <1>4
  <2> QED BY <1>1, <2>1
<1>5. f \in Bijection(1..m, X)
  BY <1>2, <1>3, <1>4 DEF Bijection, Injection, Surjection, IsInjective
<1>6. ExistsBijection(1..m, X)
  BY <1>5 DEF ExistsBijection
<1>7. IsFiniteSet(1..m) /\ Cardinality(1..m) = m
  BY FS_Interval
<1>8. Cardinality(X) = m
  BY <1>6, <1>7, FS_Bijection
<1> QED BY <1>8 DEF X

LEMMA RequestTold ==
  ASSUME TalkInv, phase = "asked"
  PROVE  \E n : /\ RequestIs(request, WithTask, n, backend.short)
                /\ Talk(WithTask, n, unanswered, FALSE)
                /\ Account(WithTask, said, trimmed, lost)
<1>1. PICK n : Front(WithTask, n) /\ RequestIs(request, WithTask, n, backend.short)
  BY DEF TalkInv, RequestTells
<1>2. Told(WithTask, said, trimmed, lost, unanswered, FALSE)
  BY TaskTold
<1>3. Talk(WithTask, n, unanswered, FALSE)
  BY <1>1, <1>2 DEF Told, Talk
<1> QED BY <1>1, <1>2, <1>3 DEF Told

LEMMA NothingForgottenHolds == ASSUME TalkInv PROVE NothingForgotten
<1> SUFFICES ASSUME phase = "asked" PROVE NothingForgotten
  BY DEF NothingForgotten
<1> DEFINE t == request.rows
           w == WithTask
           notes == request.summaries
<1>1. PICK n : /\ RequestIs(request, w, n, backend.short)
               /\ Talk(w, n, unanswered, FALSE) /\ Account(w, said, trimmed, lost)
  BY RequestTold
<1> DEFINE p == IF backend.short THEN Cutoff(w, n, ShortKeep) ELSE n
<1>2. context \in Seq(Rows) /\ PendingTask \in Seq(Rows) /\ ShortKeep \in Nat /\ MicroKeep \in Nat
  BY TaskTold, ConversationAssumption
<1>3. Talk(t, 0, unanswered, FALSE)
  BY DEF TalkInv, RequestOrder
<1>4. /\ n \in Nat /\ Len(w) \in Nat /\ n <= Len(w) /\ w \in Seq(Rows) /\ Front(w, n)
      /\ \A k \in 1..Len(w) : IsSystem(w[k]) <=> k <= n
  BY <1>1 DEF Talk, Front
<1>5. p \in Nat /\ n <= p /\ p <= Len(w)
  BY <1>2, <1>4 DEF Cutoff
<1>6. Newest(t, 0, w, p) /\ (~backend.short => Tells(notes, w, n))
      /\ (\A i, j \in DOMAIN notes : i # j => notes[i] \cap notes[j] = {})
      /\ (backend.short => UNION {notes[k] : k \in DOMAIN notes} = {})
  BY <1>1, Zenon DEF RequestIs, Tells
<1>7. Covered = UNION {notes[k] : k \in DOMAIN notes}
  BY DEF Covered
<1>8. Covered = IF backend.short THEN {} ELSE UNION {w[k].covers : k \in 1..n}
  BY <1>6, <1>7 DEF Tells
<1>9. Held = Ids(w)
  BY <1>1 DEF Held, Account
<1>10. /\ t \in Seq(Rows) /\ DOMAIN t = 1..Len(t) /\ Len(t) \in Nat
       /\ \A k \in 1..Len(t) : ~IsSystem(t[k])
  BY <1>3 DEF Talk, Front
<1>11. Len(t) = Len(w) - p /\ \A k \in 1..(Len(w) - p) : t[k] = w[p + k]
  <2>1. Len(t) = 0 + (Len(w) - p) /\ \A k \in 1..(Len(w) - p) : t[0 + k] = w[p + k]
    BY <1>6 DEF Newest
  <2> HIDE DEF t, w, p
  <2> QED BY <2>1, <1>4, <1>5
<1>12. Sent = {t[k].id : k \in 1..Len(t)}
  BY <1>10 DEF Sent
<1> HIDE DEF t, w, p, notes
<1>13. ASSUME NEW k \in 1..Len(t)
       PROVE  /\ p + k \in 1..Len(w) /\ t[k] = w[p + k] /\ IsMessage(w, p + k)
              /\ t[k].id \in Ids(w) /\ t[k].id \in Nat
  <2>1. p + k \in 1..Len(w) /\ ~(p + k <= n) /\ t[k] = w[p + k]
    BY <1>4, <1>5, <1>10, <1>11
  <2>2. IsMessage(w, p + k)
    BY <2>1, <1>4 DEF IsMessage
  <2> QED BY <2>1, <2>2, <1>4, IdsAre
<1>14. ASSUME NEW j \in 1..Len(w), j > p PROVE w[j].id \in Sent
  <2>1. j - p \in 1..Len(t) /\ p + (j - p) = j
    BY <1>4, <1>5, <1>11, <1>14
  <2>2. t[j - p] = w[j]
    BY <2>1, <1>13
  <2> QED BY <2>1, <2>2, <1>12
<1>15. \A i, j \in 1..Len(t) : i < j => t[i].id < t[j].id
  BY <1>3, <1>10 DEF Talk, InOrderSaid
<1>16. ASSUME NEW old \in Covered \cup trimmed, NEW new \in Sent PROVE old < new
  <2>1. PICK k \in 1..Len(t) : new = t[k].id
    BY <1>12
  <2>2. IsMessage(w, p + k) /\ new = w[p + k].id
    BY <2>1, <1>13
  <2>3. CASE old \in trimmed
    BY <2>2, <2>3, <1>1 DEF Account
  <2>4. CASE old \in Covered
    <3>1. PICK i \in 1..n : old \in w[i].covers
      BY <2>4, <1>8
    <3>2. IsNote(w, i)
      BY <1>4, NotesHeld
    <3> QED BY <2>2, <3>1, <3>2, <1>1 DEF Account
  <2> QED BY <2>3, <2>4
<1>17. ASSUME NEW k \in 1..Len(t), t[k].cleared PROVE k <= Len(t) - MicroKeep
  <2>1. k + MicroKeep <= Len(t)
    BY <1>3, <1>10, <1>17 DEF Talk, NewestWhole
  <2> QED BY <2>1, <1>2, <1>10
<1>18. Sent \subseteq Held
  BY <1>9, <1>12, <1>13
<1>19. ASSUME backend.short, NEW id \in Held \ (Sent \cup Folded)
       PROVE  Cardinality({new \in Sent : id < new}) = ShortKeep
  <2>1. ASSUME NEW k \in 1..n PROVE w[k].covers \subseteq Folded
    <3>1. k \in 1..Len(w) /\ IsSystem(w[k])
      BY <1>4
    <3> QED BY <3>1, <1>2, NotesFolded DEF w
  <2>2. id \notin UNION {w[k].covers : k \in 1..n}
    BY <2>1, <1>19
  <2>3. PICK j \in 1..Len(w) : j > n /\ ~IsSystem(w[j]) /\ id = w[j].id
    BY <2>2, <1>4, <1>9, <1>19, HeldIn
  <2>4. ~(j > p)
    BY <2>3, <1>14, <1>19
  <2>5. p = Len(w) - ShortKeep /\ Len(t) = ShortKeep
    <3>1. p # n /\ p = Cutoff(w, n, ShortKeep)
      BY <2>3, <2>4, <1>4, <1>5, <1>19 DEF p
    <3>2. p = Len(w) - ShortKeep
      BY <3>1 DEF Cutoff
    <3> QED BY <3>2, <1>2, <1>4, <1>11
  <2>6. ASSUME NEW new \in Sent PROVE id < new
    <3>1. PICK k \in 1..Len(t) : new = t[k].id
      BY <1>12
    <3>2. p + k \in 1..Len(w) /\ new = w[p + k].id /\ ~IsSystem(w[p + k])
      BY <3>1, <1>13 DEF IsMessage
    <3>3. j < p + k
      BY <2>4, <1>5, <1>10
    <3> QED BY <2>3, <3>2, <3>3, <1>1 DEF Talk, InOrderSaid
  <2>7. {new \in Sent : id < new} = Sent
    BY <2>6
  <2>8. Cardinality(Sent) = Len(t)
    BY <1>10, <1>12, <1>13, <1>15, IdsCounted
  <2> QED BY <2>5, <2>7, <2>8
<1>20. ASSUME ~backend.short PROVE Held = Sent \cup Covered
  <2>1. p = n
    BY <1>20 DEF p
  <2>2. Covered \subseteq Held
    <3>1. ASSUME NEW x \in Covered PROVE x \in Ids(w)
      <4>1. PICK k \in 1..n : x \in w[k].covers
        BY <1>8, <1>20
      <4> QED BY <4>1, <1>4, NotesHeld
    <3> QED BY <3>1, <1>9
  <2>3. ASSUME NEW x \in Held PROVE x \in Sent \cup Covered
    BY <2>1, <1>4, <1>8, <1>9, <1>14, <1>20, HeldIn
  <2> QED BY <2>2, <2>3, <1>18
<1>21. \A i, j \in DOMAIN request.rows : i < j => request.rows[i].id < request.rows[j].id
  BY <1>10, <1>15 DEF t
<1>22. \A k \in DOMAIN request.rows :
         request.rows[k].cleared => k <= Len(request.rows) - MicroKeep
  BY <1>10, <1>17 DEF t
<1>23. \A i, j \in DOMAIN request.summaries :
         i # j => request.summaries[i] \cap request.summaries[j] = {}
  BY <1>6 DEF notes
<1>24. IF backend.short
       THEN /\ Sent \subseteq Held
            /\ \A id \in Held \ (Sent \cup Folded) :
                 Cardinality({new \in Sent : id < new}) = ShortKeep
       ELSE Held = Sent \cup Covered
  BY <1>18, <1>19, <1>20
<1> QED BY <1>16, <1>21, <1>22, <1>23, <1>24 DEF NothingForgotten

LEMMA CallsAnsweredHolds == ASSUME TalkInv PROVE CallsAnswered
<1> DEFINE t == request.rows
<1>1. Talk(t, 0, unanswered, FALSE)
  BY DEF TalkInv, RequestOrder
<1>2. /\ t \in Seq(Rows) /\ DOMAIN t = 1..Len(t) /\ Len(t) \in Nat
      /\ \A k \in 1..Len(t) : ~IsSystem(t[k])
  BY <1>1 DEF Talk, Front
<1>3. ASSUME NEW i \in 1..Len(t), t[i].id \notin unanswered, NEW k \in 1..t[i].calls
      PROVE  i + k \in DOMAIN t /\ t[i + k].of = <<t[i].id, k>>
  <2>1. i + k <= Len(t) /\ t[i + k].of = <<t[i].id, k>>
    BY <1>1, <1>2, <1>3 DEF Talk, ResultsBehind
  <2>2. i \in Nat /\ i >= 1 /\ k \in Nat
    BY <1>2
  <2> HIDE DEF t
  <2> QED BY <2>1, <2>2, <1>2
<1>4. ASSUME NEW i \in 1..Len(t), t[i].role = "tool"
      PROVE  \/ i > 1 /\ t[i - 1].id = t[i].of[1] /\ t[i].of[2] = 1
             \/ i > 1 /\ t[i - 1].of = <<t[i].of[1], t[i].of[2] - 1>>
             \/ i = 1
  <2>1. Follows(t, i)
    BY <1>1, <1>4 DEF Talk, ResultsFollow
  <2> HIDE DEF t
  <2>2. i # 1 => i > 1 /\ i - 1 \in 1..Len(t)
    BY <1>2
  <2>3. i # 1 => ~IsSystem(t[i - 1])
    BY <2>2, <1>2
  <2> QED BY <2>1, <2>2, <2>3 DEF Follows
<1> QED BY <1>2, <1>3, <1>4 DEF CallsAnswered

\* TalkInv holds in every state of a session's conversation.
THEOREM ConversationInductive == TalkSpec => []TalkInv
<1>1. TalkInit => TalkInv
  BY TalkStarts
<1>2. TalkInv /\ [TalkNext]_talkVars => TalkInv'
  BY TalkStep
<1> QED BY <1>1, <1>2, PTL DEF TalkSpec

\* Every request tells the model the conversation: of what trim_messages_for_model,
\* the summaries of ContextManager and microcompaction leave of AgentSession.context,
\* nothing is missing, twice or out of order.
THEOREM NothingEverForgotten == TalkSpec => []NothingForgotten
<1>1. TalkInv => NothingForgotten
  BY NothingForgottenHolds
<1> QED BY <1>1, ConversationInductive, PTL

\* In every request the results of dispatch_tool_calls_batch are right behind
\* the answer with their calls, also after folding, trimming and a restart.
THEOREM CallsAlwaysAnswered == TalkSpec => []CallsAnswered
<1>1. TalkInv => CallsAnswered
  BY CallsAnsweredHolds
<1> QED BY <1>1, ConversationInductive, PTL

=============================================================================
