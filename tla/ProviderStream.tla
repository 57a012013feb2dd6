--------------------------- MODULE ProviderStream ---------------------------
(***************************************************************************)
(* The body of one successful model request, between the server that       *)
(* writes it and the agent loop that reads stream items: the streaming     *)
(* loops of the Anthropic, Bedrock, OpenAI-compatible and Ollama backends  *)
(* and the buffered mode of Ollama.  Requests, rate limits and retries     *)
(* before the body, and the channel behind it, are ProviderCall's.         *)
(*                                                                         *)
(* The server says protocol frames (SSE blocks, event-stream frames,       *)
(* lines); the network cuts them into chunks anywhere, inside a character  *)
(* too, and may end or break.  A text is the position of the frame that    *)
(* said it.  The arguments of a call come in two pieces; a call with no    *)
(* piece has no arguments.                                                 *)
(***************************************************************************)
EXTENDS SubSequences

CONSTANTS
  Backends,      \* the backends a run covers
  CallLines,     \* how many lines of an Ollama answer carry calls
  Comments,      \* BOOLEAN: the server keeps the connection alive with comments
  Endings,       \* how a body may end early: "eof", "break", "timeout"
  MaxToolCalls,  \* bound: calls in an answer
  MaxTexts,      \* bound: frames with text
  MaxNoise,      \* bound: pings, comments and error frames
  MaxSplits,     \* bound: frames a chunk ends in the middle of
  MaxLag         \* bound: complete frames the task has not taken

Streaming == {"anthropic", "bedrock", "openai", "ollama"}

ASSUME ProviderStreamAssumption ==
  /\ Backends \subseteq Streaming \cup {"buffered"}
  /\ CallLines \in Nat /\ Comments \in BOOLEAN
  /\ Endings \subseteq {"eof", "break", "timeout"}
  /\ MaxToolCalls \in Nat /\ MaxTexts \in Nat /\ MaxNoise \in Nat
  /\ MaxSplits \in Nat /\ MaxLag \in Nat \ {0}

VARIABLES
  backend,   \* which of the loops runs
  said,      \* the frames the server has said, the last one perhaps in part
  arriving,  \* how much of the last frame is missing: "none", "tail" or "delimiter"
  cut,       \* a chunk ended inside a character of the last frame
  splits,    \* counter of the bound
  buf,       \* complete frames the task has not taken: [at, cut]
  body,      \* the response body: "open", or over by "eof" or "break"
  pc,        \* the task: waiting for the "first" frame, "reading", or "over"
  acc,       \* builds, finished or pending calls, usage: the locals of the loop
  reader,    \* the agent loop still reads the stream
  out,       \* items the agent loop has received
  kept,      \* items put into the synthesized response and the stream hashes
  attempt    \* the attempt records handed to the observer

streamVars ==
  <<backend, said, arriving, cut, splits, buf, body, pc, acc, reader, out, kept, attempt>>
server == <<said, arriving, cut, splits>>

Anthropic == backend \in {"anthropic", "bedrock"}
Lines == backend \in {"ollama", "buffered"}
CallIds == 1..MaxToolCalls

(***************************************************************************)
(* The server.  It follows the protocol of its backend.                    *)
(***************************************************************************)
Frame(kind) ==
  [kind |-> kind, id |-> 0, piece |-> 0, text |-> FALSE, calls |-> <<>>, stop |-> "no"]
TextFrame == [Frame("delta") EXCEPT !.text = TRUE]
OpenFrame(i) == [Frame("open") EXCEPT !.id = i]
PieceFrame(i, n) == [Frame("piece") EXCEPT !.id = i, !.piece = n]
CloseFrame(i) == [Frame("close") EXCEPT !.id = i]
StopFrame(reason) == [Frame("stop") EXCEPT !.stop = reason]
Line(text, calls, stop) ==
  [Frame("line") EXCEPT !.text = text, !.calls = calls, !.stop = stop]

SaidKind(kind, i) == \E k \in DOMAIN said : said[k].kind = kind /\ said[k].id = i
Opened ==
  {i \in CallIds : \E k \in DOMAIN said :
      said[k] = OpenFrame(i) \/ \E j \in DOMAIN said[k].calls : said[k].calls[j] = i}
Pieces(i) == Cardinality({k \in DOMAIN said : said[k].kind = "piece" /\ said[k].id = i})
Stopped == \E k \in DOMAIN said : said[k].stop # "no"
Texts == Cardinality({k \in DOMAIN said : said[k].text})
CallLinesSaid == Cardinality({k \in DOMAIN said : said[k].calls # <<>>})
NoiseFrames == {Frame("ping"), Frame("comment"), Frame("error")}
Noise == Cardinality({k \in DOMAIN said : said[k] \in NoiseFrames})
HalfSaid(i) == Pieces(i) = 1

\* A call of an SSE answer may still get a piece.
Unfinished == {i \in Opened : ~SaidKind("close", i) /\ Pieces(i) < 2}

\* Anthropic is in a content block of a call.
BlockOpen == Anthropic /\ \E i \in Opened : ~SaidKind("close", i)

StopReasons ==
  IF Anthropic
  THEN IF BlockOpen THEN {}
       ELSE IF \E i \in Opened : HalfSaid(i) THEN {"length"}
       ELSE {"length", IF Opened = {} THEN "end" ELSE "calls"}
  ELSE {"length"} \cup
       (IF \E i \in Opened : HalfSaid(i) THEN {}
        ELSE {IF Opened = {} THEN "end" ELSE "calls"})

\* What an SSE server may say next.  Anthropic sends one content block after
\* the other and closes each; OpenAI may interleave the parts of its calls.  A
\* half-said call is only closed to stop at the length.
SseFrames ==
  (IF Texts < MaxTexts /\ ~BlockOpen THEN {TextFrame} ELSE {})
  \cup {OpenFrame(i) : i \in IF BlockOpen THEN {} ELSE {Cardinality(Opened) + 1} \cap CallIds}
  \cup {PieceFrame(i, Pieces(i) + 1) : i \in Unfinished}
  \cup (IF Anthropic THEN {CloseFrame(i) : i \in {j \in Opened : ~SaidKind("close", j)}}
        ELSE {})
  \cup {StopFrame(reason) : reason \in StopReasons}

NewCalls ==
  LET n == Cardinality(Opened)
      Up(m) == [k \in 1..m |-> n + k]
  IN  {<<>>} \cup (IF CallLinesSaid < CallLines THEN {Up(m) : m \in 0..(MaxToolCalls - n)}
                   ELSE {})

LineFrames ==
  {f \in {Line(text, calls, stop) :
             text \in BOOLEAN, calls \in NewCalls, stop \in {"no", "end", "length"}} :
     /\ f.text => Texts < MaxTexts
     /\ f.text \/ f.calls # <<>> \/ f.stop # "no"
     /\ backend = "buffered" => f.stop # "no" /\ said = <<>>}

\* Pings have no effect on any loop: OpenAI's is a chunk without choices, before
\* the others.  A comment is an SSE block without data.
Noisy ==
  IF Noise = MaxNoise THEN {}
  ELSE IF backend = "buffered" THEN IF said = <<>> THEN {Frame("error")} ELSE {}
  ELSE {Frame("error")}
       \cup (IF backend # "openai" \/ said = <<>> THEN {Frame("ping")} ELSE {})
       \cup (IF Comments /\ backend \in {"anthropic", "openai"} THEN {Frame("comment")} ELSE {})

Sayable ==
  IF Stopped \/ (\E k \in DOMAIN said : said[k] = Frame("error")) THEN {}
  ELSE IF Anthropic /\ said = <<>> THEN {Frame("start")}
  ELSE Noisy \cup (IF Lines THEN LineFrames ELSE SseFrames)

(***************************************************************************)
(* The network.  The task asks for a chunk only when it has no complete    *)
(* frame; several frames that arrive before it runs again are one chunk.   *)
(***************************************************************************)
\* The next frame arrives: all of it, all but its delimiter, or its first half.
FrameArrives ==
  /\ body = "open" /\ pc # "over" /\ arriving = "none" /\ Len(buf) < MaxLag
  /\ \E f \in Sayable :
       /\ said' = Append(said, f)
       /\ \/ /\ arriving' = "none"
             /\ buf' = Append(buf, [at |-> Len(said) + 1, cut |-> FALSE])
             /\ UNCHANGED splits
          \/ /\ splits < MaxSplits /\ splits' = splits + 1
             /\ arriving' \in {"tail", "delimiter"} /\ buf' = buf
  /\ cut' = FALSE
  /\ UNCHANGED <<backend, body, pc, acc, reader, out, kept, attempt>>

\* A chunk is decoded by itself (from_utf8_lossy), so a character on its edge
\* is replaced; Bedrock collects bytes and the buffered mode the whole body.
LossyChunks == backend \in {"anthropic", "openai", "ollama"}

RestArrives ==
  /\ body = "open" /\ pc # "over" /\ arriving # "none"
  /\ cut' \in (IF arriving = "tail" /\ LossyChunks THEN BOOLEAN ELSE {cut})
  /\ arriving' = "none" /\ buf' = Append(buf, [at |-> Len(said), cut |-> cut'])
  /\ UNCHANGED <<backend, said, splits, body, pc, acc, reader, out, kept, attempt>>

\* The connection closes, or breaks (the request timeout of the client is one way).
BodyEnds ==
  /\ body = "open" /\ pc # "over"
  /\ body' \in Endings \cap {"eof", "break"}
  /\ UNCHANGED <<backend, server, buf, pc, acc, reader, out, kept, attempt>>

\* After the stop the server closes in any case.
ServerCloses ==
  /\ body = "open" /\ pc # "over" /\ Sayable = {} /\ arriving = "none"
  /\ body' = "eof"
  /\ UNCHANGED <<backend, server, buf, pc, acc, reader, out, kept, attempt>>

\* The agent loop drops the stream.
ReaderLeaves ==
  /\ reader /\ pc # "over"
  /\ reader' = FALSE
  /\ UNCHANGED <<backend, server, buf, body, pc, acc, out, kept, attempt>>

(***************************************************************************)
(* Stream items.                                                           *)
(***************************************************************************)
Text(b) == [item |-> "text", at |-> b.at, cut |-> b.cut, stop |-> "no", calls |-> <<>>]
Item(kind) == [item |-> kind, at |-> 0, cut |-> FALSE, stop |-> "no", calls |-> <<>>]
DoneItem(stop, calls) == [Item("done") EXCEPT !.stop = stop, !.calls = calls]
UsageItems(usage) == IF usage = "none" THEN <<>> ELSE <<[Item("usage") EXCEPT !.stop = usage]>>

Call(i, args) == [id |-> i, args |-> args]

\* The pieces of a call, joined and parsed; what does not parse becomes {}.
Parsed(i, pieces) ==
  IF [k \in DOMAIN pieces |-> <<pieces[k].id, pieces[k].piece>>] # << <<i, 1>>, <<i, 2>> >>
  THEN "empty"
  ELSE IF \E k \in DOMAIN pieces : pieces[k].cut THEN "replaced" ELSE "full"

NewAcc ==
  [builds |-> [i \in CallIds |-> [open |-> FALSE, pieces |-> <<>>]],
   finished |-> [i \in CallIds |-> "no"],
   pending |-> <<>>,
   usage |-> "none"]

\* The calls of finished, in index order.
FinishedCalls(finished) ==
  At([i \in CallIds |-> Call(i, finished[i])], {i \in CallIds : finished[i] # "no"})

\* Mutant of BuildOf: a piece goes to the call opened last.
LatestBuild(f) ==
  CHOOSE i \in CallIds : acc.builds[i].open /\ \A j \in CallIds : acc.builds[j].open => j <= i

BuildOf(f) == f.id

WithPiece(a, b) ==
  LET f == said[b.at]
      i == BuildOf(f)
  IN  [a EXCEPT !.builds[i].pieces =
         Append(@, [id |-> f.id, piece |-> f.piece, cut |-> b.cut])]

(***************************************************************************)
(* apply_anthropic_sse_json and apply_openai_sse_line: the locals after a  *)
(* frame and the items it gives.                                           *)
(***************************************************************************)
AnthropicAcc(b) ==
  LET f == said[b.at] IN
  CASE f.kind = "start" -> [acc EXCEPT !.usage = "start"]
    [] f.kind = "open" -> [acc EXCEPT !.builds[f.id] = [open |-> TRUE, pieces |-> <<>>]]
    [] f.kind = "piece" /\ acc.builds[f.id].open -> WithPiece(acc, b)
    [] f.kind = "close" /\ acc.builds[f.id].open ->
         [acc EXCEPT !.builds[f.id].open = FALSE,
                     !.finished[f.id] = Parsed(f.id, acc.builds[f.id].pieces)]
    [] f.kind = "stop" /\ acc.usage # "none" -> [acc EXCEPT !.usage = "final"]
    [] OTHER -> acc

\* An entry is made by the first part that names its index.  Of the servers'
\* usage the model has one kind: counts on the chunk with the finish reason.
OpenAiAcc(b) ==
  LET f == said[b.at] IN
  CASE f.kind = "open" -> [acc EXCEPT !.builds[f.id].open = TRUE]
    [] f.kind = "piece" -> WithPiece(acc, b)
    [] f.kind = "stop" -> [acc EXCEPT !.usage = "final"]
    [] OTHER -> acc

OpenAiCalls(a) ==
  FinishedCalls([i \in CallIds |->
    IF a.builds[i].open THEN Parsed(i, a.builds[i].pieces) ELSE "no"])

StopItems(usage, stop, calls) == UsageItems(usage) \o <<DoneItem(stop, calls)>>

SseItems(b, a) ==
  LET f == said[b.at]
      calls == IF Anthropic THEN FinishedCalls(a.finished)
               ELSE IF f.stop = "calls" THEN OpenAiCalls(a) ELSE <<>>
  IN  (IF f.text THEN <<Text(b)>> ELSE <<>>)
      \o (IF f.stop # "no" THEN StopItems(a.usage, f.stop, calls) ELSE <<>>)

(***************************************************************************)
(* process_json_line of Ollama.  A line with calls replaces the calls that *)
(* are pending; the done line sends its own or, without any, those.        *)
(***************************************************************************)
LineCalls(f) == [k \in DOMAIN f.calls |-> Call(f.calls[k], "full")]

OllamaAcc(b) ==
  LET f == said[b.at]
  IN  IF f.calls = <<>> THEN acc ELSE [acc EXCEPT !.pending = LineCalls(f)]

finalize_stop_reason(f, calls) ==
  IF f.stop = "length" THEN "length" ELSE IF calls # <<>> THEN "calls" ELSE "end"

LineItems(b, calls) ==
  LET f == said[b.at]
  IN  (IF f.text THEN <<Text(b)>> ELSE <<>>)
      \o (IF f.stop = "no" THEN <<>> ELSE <<DoneItem(finalize_stop_reason(f, calls), calls)>>)

Items(b, a) ==
  CASE backend = "ollama" -> LineItems(b, a.pending)
    [] backend = "buffered" -> LineItems(b, LineCalls(said[b.at]))
    [] OTHER -> SseItems(b, a)

\* What goes into the response object: of an Ollama done line its own calls only.
KeptItems(b, a) ==
  IF backend = "ollama" THEN LineItems(b, LineCalls(said[b.at])) ELSE Items(b, a)

NextAcc(b) ==
  CASE Anthropic -> AnthropicAcc(b)
    [] backend = "openai" -> OpenAiAcc(b)
    [] backend = "ollama" -> OllamaAcc(b)
    [] OTHER -> acc

(***************************************************************************)
(* Sending.  The task of an SSE backend returns at the first item of a     *)
(* frame that cannot be sent; all other sends ignore a closed channel.     *)
(***************************************************************************)
Receives(items) == out' = IF reader THEN out \o items ELSE out

Record(status, items) == attempt' = Append(attempt, [status |-> status, items |-> items])

Over(items) == \E k \in DOMAIN items : items[k].item = "done"

\* An error: recorded with what was kept, unless the loop has no record for it.
Fail(recorded, items) ==
  /\ pc' = "over"
  /\ Receives(<<Item("err")>>)
  /\ IF recorded THEN Record("Failed", items) ELSE UNCHANGED attempt
  /\ UNCHANGED <<backend, server, body, acc, reader, kept>>

Complete == buf # <<>>

\* What is left at the end of the body: a frame without its delimiter, which
\* the SSE and line readers still return, or half of one.
Leftover == body = "eof" /\ ~Complete /\ arriving # "none"
WholeLeftover == Leftover /\ arriving = "delimiter"

NextFrame == IF Complete THEN Head(buf) ELSE [at |-> Len(said), cut |-> cut]

CanTake ==
  /\ pc # "over"
  /\ IF backend = "buffered" THEN body = "eof" /\ (Complete \/ WholeLeftover)
     ELSE Complete \/ (WholeLeftover /\ backend # "bedrock")

Taken ==
  IF Complete THEN buf' = Tail(buf) /\ UNCHANGED server
  ELSE arriving' = "none" /\ UNCHANGED <<said, cut, splits, buf>>

\* The OpenAI loop skips an error object; it has no choices.
IsErrorFrame(f) == f.kind = "error" /\ backend # "openai"

\* A block without data ends the OpenAI loop; the other loops go on.
EndsByComment(f) == f.kind = "comment" /\ backend = "openai"

(***************************************************************************)
(* Steps of the task.                                                      *)
(***************************************************************************)
TakeError ==
  /\ CanTake /\ IsErrorFrame(said[NextFrame.at])
  /\ Taken
  /\ pc' = "over" /\ Receives(<<Item("err")>>) /\ Record("Failed", kept)
  /\ UNCHANGED <<backend, body, acc, reader, kept>>

\* No text and no call, in the frames before (Ollama) and in the items of this one.
Silent(a, items) ==
  /\ a.pending = <<>>
  /\ \A k \in DOMAIN kept : kept[k].item # "text"
  /\ \A k \in DOMAIN items : items[k].item # "text" /\ items[k].calls = <<>>

\* After done: the response is recorded, or for a silent Ollama an error.
Finishes(a, items) ==
  IF Lines /\ Silent(a, items)
  THEN /\ out' = IF reader
                 THEN out \o (IF backend = "ollama" THEN items ELSE <<>>) \o <<Item("err")>>
                 ELSE out
       /\ Record("Failed", <<>>)
  ELSE /\ Receives(items)
       /\ Record("Success", kept')

\* Mutant of Keeps: the stop is not put into the response.
KeepsWithoutDone(items) == kept' = kept \o At(items, {k \in DOMAIN items : items[k].item # "done"})

Keeps(items) == kept' = kept \o items

TakeFrame ==
  /\ CanTake
  /\ LET f == said[NextFrame.at]
         a == NextAcc(NextFrame)
         items == Items(NextFrame, a)
     IN  /\ ~IsErrorFrame(f) /\ ~EndsByComment(f)
         /\ reader \/ Lines \/ items = <<>>
         /\ Taken /\ acc' = a
         /\ Keeps(KeptItems(NextFrame, a))
         /\ IF Over(items)
            THEN pc' = "over" /\ Finishes(a, items)
            ELSE pc' = "reading" /\ Receives(items) /\ UNCHANGED attempt
  /\ UNCHANGED <<backend, body, reader>>

\* The reader has left, or leaves between two items: nothing is recorded.
SendFails ==
  /\ CanTake /\ ~Lines
  /\ LET a == NextAcc(NextFrame)
         items == Items(NextFrame, a)
     IN  /\ \E n \in 0..(Len(items) - 1) :
              /\ reader \/ n = 0
              /\ out' = out \o SubSeq(items, 1, n)
              /\ Keeps(SubSeq(items, 1, n + 1))
         /\ Taken /\ acc' = a
  /\ pc' = "over" /\ reader' = FALSE
  /\ UNCHANGED <<backend, body, attempt>>

EndItems == StopItems(acc.usage, "end", <<>>)

\* The body ended, or an OpenAI block had no data, before the model's stop.
EndsWithoutStop ==
  LET items == IF backend = "ollama" THEN <<DoneItem("end", <<>>)>> ELSE EndItems
  IN  /\ pc' = "over"
      /\ Keeps(items)
      /\ IF backend = "ollama" /\ Silent(acc, <<>>)
         THEN Receives(<<Item("err")>>) /\ Record("Failed", <<>>)
         ELSE Receives(items) /\ Record("Success", kept')
      /\ UNCHANGED <<backend, body, acc, reader>>

TakeComment ==
  /\ CanTake /\ EndsByComment(said[NextFrame.at])
  /\ Taken /\ EndsWithoutStop

EndOfBody ==
  /\ pc # "over" /\ body = "eof" /\ ~Complete
  /\ \/ pc = "reading" /\ arriving = "none"
     \/ arriving = "tail" /\ backend \in {"anthropic", "openai", "ollama"}
  /\ UNCHANGED <<server, buf>> /\ EndsWithoutStop

\* An empty body, or half a frame at its end.  Half an SSE block fails to parse,
\* or has no data yet and ends the body as above; Ollama skips half a line.
HalfBody ==
  /\ pc # "over" /\ body = "eof" /\ ~Complete
  /\ \/ pc = "first" /\ arriving = "none"
     \/ arriving = "tail" /\ backend # "ollama"
     \/ arriving = "delimiter" /\ backend = "bedrock"
  /\ Fail(~(backend = "ollama" /\ pc = "first"), kept)
  /\ UNCHANGED buf

BodyBreaks ==
  /\ pc # "over" /\ body = "break"
  /\ ~Complete \/ backend = "buffered"
  /\ Fail(~(backend = "ollama" /\ pc = "first"), kept)
  /\ UNCHANGED buf

\* The first frame is late (all loops), or a later line of Ollama.
TimesOut ==
  /\ "timeout" \in Endings /\ body = "open"
  /\ \/ pc = "first" /\ (~Complete \/ backend = "buffered")
     \/ pc = "reading" /\ backend = "ollama" /\ ~Complete
  /\ Fail(~(backend = "ollama" /\ pc = "first"), kept)
  /\ UNCHANGED buf

StreamInit ==
  /\ backend \in Backends
  /\ said = <<>> /\ arriving = "none" /\ cut = FALSE /\ splits = 0
  /\ buf = <<>> /\ body = "open"
  /\ pc = "first" /\ acc = NewAcc /\ reader = TRUE
  /\ out = <<>> /\ kept = <<>> /\ attempt = <<>>

StreamNext ==
  \/ FrameArrives \/ RestArrives \/ BodyEnds \/ ServerCloses \/ ReaderLeaves
  \/ TakeFrame \/ TakeError \/ TakeComment \/ SendFails
  \/ EndOfBody \/ HalfBody \/ BodyBreaks \/ TimesOut

StreamSpec == StreamInit /\ [][StreamNext]_streamVars

(***************************************************************************)
(* What the answer was, read off the frames.                               *)
(***************************************************************************)
Positions(items) == [k \in DOMAIN items |-> items[k].at]
TextsOf(items) == Positions(At(items, {k \in DOMAIN items : items[k].item = "text"}))
ReceivedTexts == TextsOf(out)
SaidTexts == InOrder({k \in DOMAIN said : said[k].text})
SaidStop == (CHOOSE k \in DOMAIN said : said[k].stop # "no")

\* The calls the answer makes.  One that got half its arguments before the answer
\* was cut at its length has none; of Ollama's lines the last with calls counts.
CallLine(k) == said[k].calls # <<>> /\ \A j \in DOMAIN said : said[j].calls # <<>> => j <= k
SaidCalls ==
  IF Lines
  THEN IF \A k \in DOMAIN said : said[k].calls = <<>> THEN <<>>
       ELSE LineCalls(said[CHOOSE k \in DOMAIN said : CallLine(k)])
  ELSE At([i \in CallIds |-> Call(i, IF Pieces(i) = 2 THEN "full" ELSE "empty")], Opened)

CutAtLength == said[SaidStop].stop = "length"

\* OpenAI's loop hands calls on at their own finish reason only.
DueCalls == IF backend = "openai" /\ CutAtLength THEN <<>> ELSE SaidCalls

\* A character of the arguments may have been replaced.
SameCalls(calls, expected) ==
  /\ Len(calls) = Len(expected)
  /\ \A k \in DOMAIN calls :
       /\ calls[k].id = expected[k].id
       /\ \/ calls[k].args = expected[k].args
          \/ calls[k].args = "replaced" /\ expected[k].args = "full" /\ LossyChunks

\* The task has taken the frame with the model's stop.
Heard == Stopped /\ arriving = "none" /\ buf = <<>>
Dones == {k \in DOMAIN out : out[k].item = "done"}

\* The agent loop gets the texts of the answer in order, each once and without
\* a gap.  When it is told of the model's stop it has all of them and the calls the
\* model made, each with its own arguments, whichever way their pieces were
\* interleaved and cut into chunks: at the length too, where Anthropic and Bedrock
\* hand on every call of the answer, the half-said one with no arguments, and the
\* OpenAI loop none.  An answer that ends before its stop delivers no call, and none
\* is reported as ToolUse with a call half said.
DeliveredAsSaid ==
  /\ ReceivedTexts = SubSeq(SaidTexts, 1, Len(ReceivedTexts))
  /\ \A k \in Dones : Heard =>
       /\ ReceivedTexts = SaidTexts
       /\ out[k].stop =
            IF CutAtLength THEN "length" ELSE IF DueCalls = <<>> THEN "end" ELSE "calls"
       /\ SameCalls(out[k].calls, DueCalls)
  /\ \A k \in Dones :
       /\ ~Heard => out[k].calls = <<>> /\ out[k].stop = "end"
       /\ out[k].stop = "calls" => \A i \in Opened : ~HalfSaid(i)

\* Of the stop the response object has, with Ollama, the calls of the done line
\* alone: calls delivered from an earlier line are not recorded.
RecordedDone(done) ==
  IF backend = "ollama" /\ Heard
  THEN LET calls == LineCalls(said[SaidStop])
       IN  DoneItem(finalize_stop_reason(said[SaidStop], calls), calls)
  ELSE done

\* What is journaled of the attempt is what the agent loop was given: one record
\* at most, a success with every item in order (the stop as RecordedDone has it),
\* a failure with the texts that came before it.
RecordedIsDelivered ==
  /\ Len(attempt) <= 1
  /\ pc = "over" /\ reader /\ attempt # <<>> =>
       IF attempt[1].status = "Success"
       THEN /\ out[Len(out)].item = "done"
            /\ attempt[1].items = [out EXCEPT ![Len(out)] = RecordedDone(out[Len(out)])]
       ELSE attempt[1].items = At(out, {k \in DOMAIN out : out[k].item = "text"})
=============================================================================
