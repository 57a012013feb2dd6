------------------------- MODULE StoredFilesProofs -------------------------
(***************************************************************************)
(* Machine-checked proofs about the files akmon writes.  FileTools, for    *)
(* any number of calls, files, requests, saves and faults: no path ever    *)
(* holds a part of a content, a call reports what it did, and the          *)
(* automatic commit holds it.  ConfigStore, in the second half.            *)
(***************************************************************************)
EXTENDS FileTools, ConfigStore, FiniteSetTheorems, SequenceTheorems, NaturalsInduction,
        WellFoundedInduction, TLAPS

(***************************************************************************)
(* Texts.                                                                  *)
(***************************************************************************)
\* Induction on numbers: a set of numbers has a least one.
Less == {p \in Nat \X Nat : p[1] < p[2]}

LEMMA LeastNumber ==
  ASSUME NEW T \in SUBSET Nat, T # {}
  PROVE  \E m \in T : \A n \in T : m <= n
<1>1. IsWellFoundedOn(Less, Nat)
  <2>1. OpToRel(<, Nat) = Less
    BY DEF OpToRel, Less
  <2> QED BY <2>1, NatLessThanWellFounded
<1>2. PICK m \in T : \A n \in T : <<n, m>> \notin Less
  BY <1>1, WFMin, Zenon
<1>3. ASSUME NEW n \in T PROVE m <= n
  <2>1. <<n, m>> \in Nat \X Nat /\ <<n, m>>[1] = n /\ <<n, m>>[2] = m
    OBVIOUS
  <2> QED BY <1>2, <2>1 DEF Less
<1> QED BY <1>3

\* What is put in the place of an occurrence leaves a text.
LEMMA ReplaceText ==
  ASSUME NEW v \in Seq(Words), NEW old \in Seq(Words), NEW new \in Seq(Words),
         Occurrences(v, old) # {}
  PROVE  ReplaceFirst(v, old, new) \in Seq(Words)
<1> DEFINE i == CHOOSE j \in Occurrences(v, old) : \A k \in Occurrences(v, old) : j <= k
<1>1. Occurrences(v, old) \subseteq 1..Len(v) /\ Len(v) \in Nat /\ Len(old) \in Nat
  BY DEF Occurrences
<1>2. i \in Occurrences(v, old)
  <2>1. \E m \in Occurrences(v, old) : \A n \in Occurrences(v, old) : m <= n
    BY <1>1, LeastNumber
  <2> QED BY <2>1, Zenon
<1>3. i \in 1..Len(v) /\ i + Len(old) - 1 <= Len(v)
  BY <1>2 DEF Occurrences
<1> HIDE DEF i
<1>4. SubSeq(v, 1, i - 1) \in Seq(Words)
  BY <1>1, <1>3
<1>5. SubSeq(v, i + Len(old), Len(v)) \in Seq(Words)
  BY <1>1, <1>3
<1>6. SubSeq(v, 1, i - 1) \o new \o SubSeq(v, i + Len(old), Len(v)) \in Seq(Words)
  BY <1>4, <1>5
<1> QED BY <1>6 DEF ReplaceFirst, i

\* count_occurrences finds nothing where nothing occurs.
LEMMA NothingCounted ==
  ASSUME NEW v \in Seq(Words), NEW old, Occurrences(v, old) = {}
  PROVE  MatchCount(v, old) = 0
<1> DEFINE D == 1..Len(v) + 1
           Counts(g) == g = [i \in D |-> IF i > Len(v) THEN 0
                                         ELSE IF i \in Occurrences(v, old)
                                              THEN 1 + g[i + Len(old)] ELSE g[i + 1]]
           f == CHOOSE g : Counts(g)
<1>1. Counts([i \in D |-> 0])
  OBVIOUS
<1>2. Counts(f)
  BY <1>1, Zenon
<1> HIDE DEF f
<1>3. f[Len(v) + 1] = 0
  BY <1>2
<1>4. \A i \in 1..Len(v) : f[i] = f[i + 1]
  BY <1>2
<1>5. \A i \in 1..Len(v) + 1 : f[i] = 0
  <2> DEFINE T == {n \in Nat : n <= Len(v) /\ f[Len(v) + 1 - n] # 0}
  <2> SUFFICES ASSUME T # {} PROVE FALSE
    <3>1. ASSUME T = {}, NEW i \in 1..Len(v) + 1 PROVE f[i] = 0
      <4>1. Len(v) + 1 - i \in Nat /\ Len(v) + 1 - i <= Len(v) /\ Len(v) + 1 - (Len(v) + 1 - i) = i
        OBVIOUS
      <4> QED BY <3>1, <4>1
    <3> QED BY <3>1
  <2>1. PICK n \in T : \A m \in T : n <= m
    BY LeastNumber
  <2>2. n # 0
    BY <1>3
  <2>3. n - 1 \in Nat /\ n - 1 <= Len(v) /\ n - 1 \notin T
    BY <2>1, <2>2
  <2>4. f[Len(v) + 1 - (n - 1)] = 0
    BY <2>3
  <2>5. Len(v) + 1 - n \in 1..Len(v) /\ Len(v) + 1 - n + 1 = Len(v) + 1 - (n - 1)
    BY <2>1, <2>2
  <2> QED BY <1>4, <2>1, <2>4, <2>5
<1>6. MatchCount(v, old) = f[1]
  BY DEF MatchCount, f
<1> QED BY <1>5, <1>6

(***************************************************************************)
(* The inductive invariant.                                                *)
(***************************************************************************)
Change == [path: Files, before: Seq(Words), after: Seq(Words)]
Move == [path: Files, from: Contents, to: Seq(Words)]
TempFile == [data: Seq(Words) \union {Torn}, synced: BOOLEAN]

Codes ==
  {"Ok", "InvalidArgs", "PathEscape", "SymlinkRefused", "NotFound", "NotAFile", "BinaryContent",
   "AmbiguousMatch", "PatchFailed", "PermissionDenied"}
Writing == {"create", "write", "sync", "rename"}
Working == {"read"} \union Writing
CallRecord ==
  [req: Requests, at: {"start", "done"} \union Working, seg: Nat \ {0}, read: Contents,
   text: Seq(Words), changes: Seq(Change), code: Codes \union {"None"}]
Repository ==
  [index: [Files -> Contents], head: [Files -> Contents], next: Nat \ {0}, at: {"add", "commit"},
   commits: Seq([call: Nat, paths: SUBSET Files])]

TypeOK ==
  /\ files \in [Files -> Contents]
  /\ DOMAIN temps \subseteq Calls /\ temps \in [DOMAIN temps -> TempFile]
  /\ former \in [Files -> SUBSET Contents]
  /\ calls \in [Calls -> CallRecord]
  /\ git \in Repository
  /\ up \in BOOLEAN
  /\ writes \in [Calls -> Seq(Move)]
  /\ saved \in SUBSET Files
  /\ faults \in Nat

\* Where a call stands: at a segment that it has, whose path it has looked at when
\* it works on it, with the change of each segment before it unless it has failed;
\* only a patch has several segments, and a dry run never writes.
Collected(x) ==
  IF x.code = "Ok" THEN Len(x.req.segs) ELSE IF x.code = "None" THEN x.seg - 1 ELSE 0
SegmentInRange(x) ==
  /\ x.seg \in 1..Len(x.req.segs)
  /\ Len(x.changes) = Collected(x)
OneUnlessPatch(x) ==
  x.req.tool # "patch" =>
    /\ x.seg = 1
    /\ x.at \in Working \/ x.code = "Ok" => Len(x.req.segs) = 1
PathLookedAt(x) ==
  /\ x.at \in Working => x.req.segs[x.seg].path \in Files
  /\ x.at \in Working \/ x.code = "Ok" \/ x.seg > 1 => x.req.segs[1].path \in Files
InCall(x) ==
  /\ SegmentInRange(x) /\ OneUnlessPatch(x) /\ PathLookedAt(x)
  /\ x.at = "done" <=> x.code # "None"
  /\ x.at \in Writing => ~x.req.dry

\* What a call reads is a file, while the process runs.
ReadsAFile ==
  up => \A c \in Calls : calls[c].at = "read" => files[Seg(c).path] \notin {Link, Dir}

\* The temp file of a call: it has one from its creation to the rename, and when it
\* is renamed it holds the whole new content, synced.
TempComplete ==
  \A c \in Calls :
    /\ c \in DOMAIN temps => calls[c].at \in {"write", "sync", "rename", "done"}
    /\ calls[c].at \in {"write", "sync", "rename"} => c \in DOMAIN temps
    /\ up /\ calls[c].at \in {"sync", "rename"} => temps[c].data = calls[c].text
    /\ up /\ calls[c].at = "rename" => temps[c].synced

\* The renames of a call: one for each segment it has gone through, of that segment's
\* path, and the changes it has collected, unless it has failed, tell them.
Told(move) == [path |-> move.path, before |-> Shown(move.from), after |-> move.to]
Renamed(x) ==
  IF x.req.dry THEN 0 ELSE IF x.code = "Ok" THEN Len(x.req.segs) ELSE x.seg - 1
Reported(x, moves) ==
  /\ Len(moves) = Renamed(x)
  /\ \A i \in 1..Len(moves) :
       /\ moves[i].path = x.req.segs[i].path
       /\ x.code \in {"Ok", "None"} => x.changes[i] = Told(moves[i])
RenamesReported == \A c \in Calls : Reported(calls[c], writes[c])

\* The automatic commit: it starts when all calls have returned, and while nothing
\* fails the files of the calls it is past are in the index and in the last commit,
\* and the file it has added is in the index.
CommitWaits == ~BatchDone => git.next = 1 /\ git.at = "add"
CursorInRange == git.next \in 1..(NCalls + 1) /\ (git.at = "commit" => git.next <= NCalls)
InIndex(c) == git.index[Touched(c)] = files[Touched(c)]
Settled(c) == Commits(c) /\ Touched(c) \notin saved => InIndex(c) /\ git.head[Touched(c)] = files[Touched(c)]
CommitKeepsUp ==
  up /\ faults = 0 =>
    /\ \A c \in Calls : c < git.next => Settled(c)
    /\ git.at = "commit" /\ Touched(git.next) \notin saved => InIndex(git.next)

IInv ==
  /\ TypeOK
  /\ \A c \in Calls : InCall(calls[c])
  /\ ReadsAFile /\ TempComplete /\ RenamesReported
  /\ CommitWaits /\ CursorInRange /\ CommitKeepsUp


LEMMA ContentFacts ==
  /\ Torn \notin Contents
  /\ {Missing, Binary, Link, Dir} \intersect Seq(Words) = {}
  /\ Seq(Words) \subseteq Contents
  /\ Missing \in Contents
  /\ \A v \in Contents : Text(v) => v \in Seq(Words)
  /\ \A v \in Seq(Words) : Text(v)
  /\ \A v \in Contents : Shown(v) \in Seq(Words)
<1>1. <<>> \in Seq(Words)
  OBVIOUS
<1> QED BY <1>1, ContentAssumption DEF Contents, Text, Shown

LEMMA RequestFacts ==
  ASSUME NEW r \in Requests
  PROVE  /\ r.tool \in {"write_file", "edit", "patch", "apply_patch"}
         /\ r.segs \in Seq(Segments) /\ Len(r.segs) \in Nat /\ Len(r.segs) >= 1
         /\ r.dry \in BOOLEAN
         /\ \A i \in 1..Len(r.segs) : r.segs[i] \in Segments
         /\ r.tool \in {"write_file", "edit"} => Len(r.segs) = 1
<1>1. r \in AnyRequest
  BY ContentAssumption
<1>2. r.segs \in Seq(Segments) \ {<<>>}
  BY <1>1 DEF AnyRequest
<1>3. Len(r.segs) \in Nat /\ Len(r.segs) # 0
  BY <1>2
<1>4. \A i \in 1..Len(r.segs) : r.segs[i] \in Segments
  BY <1>2
<1> QED BY <1>1, <1>2, <1>3, <1>4, ContentAssumption DEF AnyRequest

\* What a tool makes of a content it can read is a text, whenever it says Ok.
LEMMA OutcomeIsText ==
  ASSUME NEW r \in Requests, NEW s \in Segments, NEW v \in Contents \ {Link, Dir}
  PROVE  /\ Outcome(r, s, v).code \in Codes
         /\ Outcome(r, s, v).text \in Seq(Words)
<1> DEFINE o == Outcome(r, s, v)
           Good(x) == x.code \in Codes /\ x.text \in Seq(Words)
<1> SUFFICES Good(o)
  OBVIOUS
<1>1. s.old \in Seq(Words) /\ s.new \in Seq(Words)
  BY DEF Segments
<1>2. r.tool \in {"write_file", "edit", "patch", "apply_patch"}
  BY RequestFacts
<1>e. <<>> \in Seq(Words)
  OBVIOUS
<1>f. \A code \in Codes, text \in Seq(Words) : Good([code |-> code, text |-> text])
  OBVIOUS
<1>g. {"Ok", "NotFound", "BinaryContent", "AmbiguousMatch", "PatchFailed"} \subseteq Codes
  BY DEF Codes
<1> HIDE DEF Good
<1>3. CASE r.tool = "write_file"
  <2>1. o = [code |-> "Ok", text |-> s.new]
    BY <1>3 DEF Outcome
  <2> QED BY <2>1, <1>1, <1>f, <1>g
<1>4. CASE r.tool # "write_file" /\ v = Missing
  <2>1. o = [code |-> "NotFound", text |-> <<>>]
    BY <1>4, ContentAssumption DEF Outcome, Text
  <2> QED BY <2>1, <1>e, <1>f, <1>g
<1>5. CASE r.tool # "write_file" /\ v = Binary
  <2>1. o = [code |-> "BinaryContent", text |-> <<>>]
    BY <1>5, ContentAssumption DEF Outcome, Text
  <2> QED BY <2>1, <1>e, <1>f, <1>g
<1>6. CASE r.tool = "edit" /\ v \notin {Missing, Binary}
  <2>1. v \in Seq(Words) /\ Text(v)
    BY <1>6, ContentAssumption DEF Contents, Text
  <2>2. o = LET n == MatchCount(v, s.old) IN
             IF n = 0 THEN [code |-> "NotFound", text |-> <<>>]
             ELSE IF n >= 2 THEN [code |-> "AmbiguousMatch", text |-> <<>>]
             ELSE [code |-> "Ok", text |-> ReplaceFirst(v, s.old, s.new)]
    BY <1>6, <2>1 DEF Outcome
  <2>3. CASE MatchCount(v, s.old) = 0
    <3>1. o = [code |-> "NotFound", text |-> <<>>]
      BY <2>2, <2>3
    <3> QED BY <3>1, <1>e, <1>f, <1>g
  <2>4. CASE MatchCount(v, s.old) # 0 /\ MatchCount(v, s.old) >= 2
    <3>1. o = [code |-> "AmbiguousMatch", text |-> <<>>]
      BY <2>2, <2>4
    <3> QED BY <3>1, <1>e, <1>f, <1>g
  <2>5. CASE MatchCount(v, s.old) # 0 /\ ~(MatchCount(v, s.old) >= 2)
    <3>1. o = [code |-> "Ok", text |-> ReplaceFirst(v, s.old, s.new)]
      BY <2>2, <2>5
    <3>2. Occurrences(v, s.old) # {}
      BY <2>1, <2>5, NothingCounted
    <3> QED BY <1>1, <1>f, <1>g, <2>1, <3>1, <3>2, ReplaceText
  <2> QED BY <2>3, <2>4, <2>5
<1>7. CASE r.tool \in {"patch", "apply_patch"} /\ v \notin {Missing, Binary}
  <2>1. v \in Seq(Words) /\ Text(v)
    BY <1>7, ContentAssumption DEF Contents, Text
  <2>2. o = IF Applies(v, s)
             THEN [code |-> "Ok", text |-> ReplaceFirst(v, s.old, s.new)]
             ELSE [code |-> "PatchFailed", text |-> <<>>]
    BY <1>7, <2>1 DEF Outcome
  <2>3. CASE Applies(v, s)
    BY <1>1, <1>f, <1>g, <2>1, <2>2, <2>3, ReplaceText DEF Applies
  <2>4. CASE ~Applies(v, s)
    BY <2>2, <2>4, <1>e, <1>f, <1>g
  <2> QED BY <2>3, <2>4
<1> QED BY <1>2, <1>3, <1>4, <1>5, <1>6, <1>7


(***************************************************************************)
(* How a step changes the calls.                                           *)
(***************************************************************************)
\* Only the call c changes, and its request stays.
OnlyCall(c, next) ==
  /\ next \in [Calls -> CallRecord]
  /\ \A d \in Calls : d # c => next[d] = calls[d]
  /\ next[c].req = calls[c].req

LEMMA CallFacts ==
  ASSUME TypeOK, NEW c \in Calls
  PROVE  /\ calls[c] \in CallRecord /\ Req(c) \in Requests
         /\ calls[c].seg \in Nat \ {0} /\ calls[c].read \in Contents
         /\ calls[c].text \in Seq(Words) /\ calls[c].changes \in Seq(Change)
         /\ calls[c].code \in Codes \union {"None"}
         /\ calls[c].at \in {"start", "done"} \union Working
BY DEF TypeOK, CallRecord, Req

LEMMA SegmentFacts ==
  ASSUME TypeOK, NEW c \in Calls, InCall(calls[c])
  PROVE  Seg(c) \in Segments /\ Req(c).segs[1] \in Segments
<1>1. /\ calls[c].seg \in 1..Len(Req(c).segs) /\ Len(Req(c).segs) \in Nat
      /\ \A i \in 1..Len(Req(c).segs) : Req(c).segs[i] \in Segments
      /\ Len(Req(c).segs) >= 1
  BY CallFacts, RequestFacts DEF InCall, SegmentInRange, Req
<1> QED BY <1>1 DEF Seg

LEMMA FailedCall ==
  ASSUME TypeOK, NEW c \in Calls, NEW code \in Codes
  PROVE  /\ OnlyCall(c, Failed(c, code))
         /\ Failed(c, code)[c] = [calls[c] EXCEPT !.at = "done", !.code = code, !.changes = <<>>]
<1>1. calls \in [Calls -> CallRecord]
  BY DEF TypeOK
<1>2. Failed(c, code)[c] = [calls[c] EXCEPT !.at = "done", !.code = code, !.changes = <<>>]
  BY <1>1 DEF Failed, CallRecord
<1>3. Failed(c, code)[c] \in CallRecord /\ Failed(c, code)[c].req = calls[c].req
  <2>1. <<>> \in Seq(Change)
    OBVIOUS
  <2> QED BY <1>1, <1>2, <2>1, ZenonT(60) DEF CallRecord
<1>4. \A d \in Calls : d # c => Failed(c, code)[d] = calls[d]
  BY <1>1 DEF Failed
<1>5. Failed(c, code) \in [Calls -> CallRecord]
  <2>1. /\ DOMAIN Failed(c, code) = Calls
        /\ Failed(c, code) = [d \in Calls |-> Failed(c, code)[d]]
    BY <1>1 DEF Failed
  <2>2. \A d \in Calls : Failed(c, code)[d] \in CallRecord
    BY <1>1, <1>3, <1>4
  <2> QED BY <2>1, <2>2
<1> QED BY <1>2, <1>3, <1>4, <1>5 DEF OnlyCall

\* A call goes to its next segment, or it has done with the last one.
Ended(x, before, after) ==
  LET more == x.seg < Len(x.req.segs)
  IN [x EXCEPT !.changes = Append(@, [path |-> x.req.segs[x.seg].path, before |-> Shown(before), after |-> after]),
               !.seg = IF more THEN @ + 1 ELSE @,
               !.at = IF more THEN "start" ELSE "done",
               !.code = IF more THEN @ ELSE "Ok"]

LEMMA EndedSegment ==
  ASSUME TypeOK, NEW c \in Calls, NEW before \in Contents, NEW after \in Seq(Words),
         Seg(c).path \in Files
  PROVE  /\ OnlyCall(c, SegmentDone(c, before, after))
         /\ SegmentDone(c, before, after)[c] = Ended(calls[c], before, after)
<1> DEFINE next == SegmentDone(c, before, after)
           x == calls[c]
           more == x.seg < Len(x.req.segs)
<1>1. calls \in [Calls -> CallRecord] /\ x \in CallRecord
  BY DEF TypeOK
<1>2. next[c] = Ended(x, before, after)
  BY <1>1 DEF SegmentDone, Ended, CallRecord, Req, Seg
<1>3. \A d \in Calls : d # c => next[d] = calls[d]
  BY <1>1 DEF SegmentDone
<1>4. next[c] \in CallRecord /\ next[c].req = x.req
  <2>1. [path |-> x.req.segs[x.seg].path, before |-> Shown(before), after |-> after] \in Change
    BY ContentFacts DEF Change, Seg, Req
  <2>2. x.changes \in Seq(Change) /\ x.seg \in Nat \ {0}
    BY <1>1 DEF CallRecord
  <2>3. Append(x.changes, [path |-> x.req.segs[x.seg].path, before |-> Shown(before), after |-> after])
          \in Seq(Change)
    BY <2>1, <2>2
  <2>4. (IF more THEN x.seg + 1 ELSE x.seg) \in Nat \ {0}
    BY <2>2
  <2>5. "Ok" \in Codes
    BY DEF Codes
  <2> HIDE DEF x
  <2> QED BY <1>1, <1>2, <2>3, <2>4, <2>5, ZenonT(60) DEF CallRecord, Ended
<1>5. next \in [Calls -> CallRecord]
  <2>1. DOMAIN next = Calls /\ next = [d \in Calls |-> next[d]]
    BY <1>1 DEF SegmentDone
  <2>2. \A d \in Calls : next[d] \in CallRecord
    BY <1>1, <1>3, <1>4
  <2> QED BY <2>1, <2>2
<1> QED BY <1>2, <1>3, <1>4, <1>5 DEF OnlyCall

\* A field of the call's state moves on.
LEMMA MovedCall ==
  ASSUME TypeOK, NEW c \in Calls, NEW at \in Working
  PROVE  /\ OnlyCall(c, [calls EXCEPT ![c].at = at])
         /\ [calls EXCEPT ![c].at = at][c] = [calls[c] EXCEPT !.at = at]
<1>1. calls \in [Calls -> CallRecord]
  BY DEF TypeOK
<1>2. [calls EXCEPT ![c].at = at][c] = [calls[c] EXCEPT !.at = at]
  BY <1>1
<1>3. [calls[c] EXCEPT !.at = at] \in CallRecord
  BY <1>1 DEF CallRecord
<1> QED BY <1>1, <1>2, <1>3 DEF OnlyCall, CallRecord

LEMMA ReadCall ==
  ASSUME TypeOK, NEW c \in Calls, NEW v \in Contents, NEW text \in Seq(Words)
  PROVE  /\ OnlyCall(c, [calls EXCEPT ![c].at = "create", ![c].read = v, ![c].text = text])
         /\ [calls EXCEPT ![c].at = "create", ![c].read = v, ![c].text = text][c] =
              [calls[c] EXCEPT !.at = "create", !.read = v, !.text = text]
<1> DEFINE next == [calls EXCEPT ![c].at = "create", ![c].read = v, ![c].text = text]
<1>1. calls \in [Calls -> CallRecord]
  BY DEF TypeOK
<1>2. next[c] = [calls[c] EXCEPT !.at = "create", !.read = v, !.text = text]
  BY <1>1 DEF CallRecord
<1>3. [calls[c] EXCEPT !.at = "create", !.read = v, !.text = text] \in CallRecord
  BY <1>1 DEF CallRecord, Working, Writing
<1>4. \A d \in Calls : d # c => next[d] = calls[d]
  BY <1>1
<1>5. next \in [Calls -> CallRecord]
  <2>1. DOMAIN next = Calls /\ next = [d \in Calls |-> next[d]]
    BY <1>1
  <2>2. \A d \in Calls : next[d] \in CallRecord
    BY <1>1, <1>2, <1>3, <1>4
  <2> QED BY <2>1, <2>2
<1> QED BY <1>1, <1>2, <1>3, <1>4, <1>5 DEF OnlyCall, CallRecord


LEMMA InCallFailed ==
  ASSUME NEW x \in CallRecord, InCall(x), x.at # "done", NEW code \in Codes \ {"Ok"}
  PROVE  InCall([x EXCEPT !.at = "done", !.code = code, !.changes = <<>>])
<1> DEFINE y == [x EXCEPT !.at = "done", !.code = code, !.changes = <<>>]
<1>1. /\ y.at = "done" /\ y.code = code /\ y.seg = x.seg /\ y.req = x.req /\ y.changes = <<>>
      /\ code \notin {"Ok", "None"}
  BY DEF CallRecord, Codes
<1>2. x.code = "None"
  BY DEF InCall
<1> HIDE DEF y
<1>3. SegmentInRange(y)
  <2>1. Len(y.changes) = 0
    BY <1>1
  <2> QED BY <1>1, <1>2, <2>1 DEF InCall, SegmentInRange, Collected
<1>4. OneUnlessPatch(y)
  BY <1>1, <1>2 DEF InCall, OneUnlessPatch, Working, Writing
<1>5. PathLookedAt(y)
  BY <1>1, <1>2 DEF InCall, PathLookedAt, Working, Writing
<1>6. InCall(y)
  BY <1>1, <1>3, <1>4, <1>5 DEF InCall, Writing
<1> QED BY <1>6 DEF y

LEMMA InCallEnded ==
  ASSUME NEW x \in CallRecord, InCall(x), x.at \in Working, NEW before \in Contents, NEW after \in Seq(Words)
  PROVE  /\ InCall(Ended(x, before, after))
         /\ Ended(x, before, after).at \in {"start", "done"}
         /\ Ended(x, before, after).req = x.req
         /\ Ended(x, before, after).code \in {"Ok", "None"}
         /\ Renamed(Ended(x, before, after)) = IF x.req.dry THEN 0 ELSE x.seg
         /\ x.code = "None"
         /\ Ended(x, before, after).changes =
              Append(x.changes, [path |-> x.req.segs[x.seg].path, before |-> Shown(before), after |-> after])
<1> DEFINE y == Ended(x, before, after)
           change == [path |-> x.req.segs[x.seg].path, before |-> Shown(before), after |-> after]
           more == x.seg < Len(x.req.segs)
<1>1. /\ y.req = x.req /\ y.changes = Append(x.changes, change)
      /\ y.seg = (IF more THEN x.seg + 1 ELSE x.seg)
      /\ y.at = (IF more THEN "start" ELSE "done")
      /\ y.code = (IF more THEN x.code ELSE "Ok")
  BY DEF CallRecord, Ended
<1>2. x.code = "None" /\ x.at # "done" /\ x.at # "start"
  BY DEF InCall, Working, Writing
<1>3. /\ x.seg \in 1..Len(x.req.segs) /\ Len(x.changes) = x.seg - 1
      /\ x.req \in Requests /\ x.changes \in Seq(Change)
  BY <1>2 DEF InCall, SegmentInRange, Collected, CallRecord
<1>4. Len(x.req.segs) \in Nat
  BY <1>3, RequestFacts
<1>5. Len(Append(x.changes, change)) = x.seg
  BY <1>3
<1> HIDE DEF y, change
<1>6. SegmentInRange(y)
  <2>1. y.seg \in 1..Len(y.req.segs)
    BY <1>1, <1>3, <1>4, SMTT(60)
  <2>2. Len(y.changes) = x.seg
    BY <1>1, <1>5
  <2> QED BY <1>1, <1>2, <1>3, <1>4, <2>1, <2>2 DEF SegmentInRange, Collected
<1>7. OneUnlessPatch(y)
  <2>1. x.req.tool # "patch" => x.seg = 1 /\ Len(x.req.segs) = 1
    BY DEF InCall, OneUnlessPatch
  <2>2. ASSUME x.req.tool # "patch" PROVE ~more
    <3>1. x.seg = 1 /\ Len(x.req.segs) = 1 /\ ~(1 < 1)
      BY <2>1, <2>2
    <3> QED BY <3>1, Zenon
  <2>3. x.req.tool # "patch" => y.seg = 1
    BY <1>1, <2>1, <2>2
  <2> QED BY <1>1, <2>1, <2>3 DEF OneUnlessPatch
<1>8. PathLookedAt(y)
  <2>1. x.req.segs[1].path \in Files
    BY DEF InCall, PathLookedAt
  <2>2. y.at \notin Working
    BY <1>1 DEF Working, Writing
  <2> QED BY <1>1, <2>1, <2>2 DEF PathLookedAt
<1>9. InCall(y)
  BY <1>1, <1>2, <1>6, <1>7, <1>8 DEF InCall, Writing
<1>10. y.code \in {"Ok", "None"}
  BY <1>1, <1>2
<1>11. Renamed(y) = IF x.req.dry THEN 0 ELSE x.seg
  <2>1. CASE more
    BY <1>1, <1>2, <1>3, <2>1 DEF Renamed
  <2>2. CASE ~more
    <3>1. Len(x.req.segs) = x.seg
      BY <1>3, <1>4, <2>2
    <3> QED BY <1>1, <2>2, <3>1 DEF Renamed
  <2> QED BY <2>1, <2>2
<1> QED BY <1>1, <1>2, <1>9, <1>10, <1>11 DEF y, change

LEMMA InCallMoved ==
  ASSUME NEW x \in CallRecord, InCall(x), NEW y \in CallRecord,
         y.req = x.req, y.seg = x.seg, y.changes = x.changes, y.code = x.code,
         x.at # "done", y.at \in Working,
         y.at \in Writing => ~x.req.dry,
         x.at = "start" => /\ x.req.segs[x.seg].path \in Files
                           /\ x.req.tool # "patch" => Len(x.req.segs) = 1
  PROVE  InCall(y)
<1>1. x.code = "None" /\ y.at # "done"
  BY DEF InCall, Working, Writing
<1>2. SegmentInRange(y)
  BY DEF InCall, SegmentInRange, Collected
<1>3. x.at \in {"start"} \union Working
  BY DEF CallRecord
<1>4. OneUnlessPatch(y)
  BY <1>1, <1>3 DEF InCall, OneUnlessPatch
<1>5. PathLookedAt(y)
  <2>1. x.req.segs[x.seg].path \in Files
    BY <1>3 DEF InCall, PathLookedAt
  <2>2. x.seg > 1 \/ x.seg = 1
    BY DEF CallRecord
  <2>3. x.req.segs[1].path \in Files
    BY <2>1, <2>2 DEF InCall, PathLookedAt
  <2> QED BY <2>1, <2>3 DEF PathLookedAt
<1> QED BY <1>1, <1>2, <1>4, <1>5 DEF InCall


(***************************************************************************)
(* The steps of a call.                                                    *)
(***************************************************************************)
LEMMA CallStepInCall ==
  ASSUME IInv, NEW c \in Calls, OnlyCall(c, calls'), InCall(calls'[c])
  PROVE  (\A d \in Calls : InCall(calls[d]))'
BY DEF IInv, OnlyCall

\* While a call is not done nothing is committed yet.
LEMMA CallStepCommit ==
  ASSUME IInv, NEW c \in Calls, calls[c].at # "done", UNCHANGED git
  PROVE  CommitWaits' /\ CursorInRange' /\ CommitKeepsUp'
<1>1. git.next = 1 /\ git.at = "add" /\ git'.next = 1 /\ git'.at = "add"
  BY DEF IInv, CommitWaits, BatchDone
<1>2. NCalls \in Nat
  BY FileToolsAssumption
<1>3. CommitWaits'
  BY <1>1 DEF CommitWaits
<1>4. CursorInRange'
  BY <1>1, <1>2 DEF CursorInRange
<1>5. CommitKeepsUp'
  <2>1. \A d \in Calls : ~(d < git'.next)
    BY <1>1 DEF Calls
  <2> QED BY <1>1, <2>1 DEF CommitKeepsUp
<1> QED BY <1>3, <1>4, <1>5

\* Nothing is renamed: the call stays at its segment, or it fails there, or it is a
\* dry run that goes on.
LEMMA CallStepReported ==
  ASSUME IInv, NEW c \in Calls, OnlyCall(c, calls'), UNCHANGED writes,
         calls[c].code = "None",
         \/ calls'[c].seg = calls[c].seg /\ calls'[c].code # "Ok"
            /\ (calls'[c].code = "None" => calls'[c].changes = calls[c].changes)
         \/ calls[c].req.dry
  PROVE  RenamesReported'
<1> SUFFICES ASSUME NEW d \in Calls PROVE Reported(calls'[d], writes[d])
  BY DEF RenamesReported
<1>1. Reported(calls[d], writes[d])
  BY DEF IInv, RenamesReported
<1>2. CASE d = c /\ calls[c].req.dry
  <2>1. calls'[c].req = calls[c].req
    BY DEF OnlyCall
  <2>2. Len(writes[c]) = 0
    BY <1>1, <1>2 DEF Reported, Renamed
  <2>3. Renamed(calls'[c]) = 0
    BY <1>2, <2>1 DEF Renamed
  <2> QED BY <1>2, <2>2, <2>3 DEF Reported
<1>3. CASE d = c /\ ~calls[c].req.dry
  <2>1. calls'[c].req = calls[c].req
    BY DEF OnlyCall
  <2>2. Renamed(calls'[c]) = Renamed(calls[c])
    BY <1>3, <2>1 DEF Renamed
  <2> QED BY <1>1, <1>3, <2>1, <2>2 DEF Reported
<1>4. CASE d # c
  BY <1>1, <1>4 DEF OnlyCall
<1> QED BY <1>2, <1>3, <1>4

LEMMA NotDone ==
  ASSUME IInv, NEW c \in Calls, calls[c].at # "done"
  PROVE  calls[c].code = "None"
BY DEF IInv, InCall

\* The call goes on to read, or stays where it was; no path changes.
LEMMA CallStepReads ==
  ASSUME IInv, NEW c \in Calls, OnlyCall(c, calls'), UNCHANGED <<files, up>>,
         calls'[c].at = "read" => files[calls'[c].req.segs[calls'[c].seg].path] \notin {Link, Dir}
  PROVE  ReadsAFile'
<1> SUFFICES ASSUME up, NEW d \in Calls, calls'[d].at = "read"
             PROVE  files[calls'[d].req.segs[calls'[d].seg].path] \notin {Link, Dir}
  BY DEF ReadsAFile, Seg, Req
<1>1. CASE d = c
  BY <1>1
<1>2. CASE d # c
  BY <1>2 DEF IInv, ReadsAFile, OnlyCall, Seg, Req
<1> QED BY <1>1, <1>2

\* A call that has no temp file does not get one.
LEMMA CallStepTemps ==
  ASSUME IInv, NEW c \in Calls, OnlyCall(c, calls'), UNCHANGED <<temps, up>>,
         calls[c].at \in {"start", "read", "create"},
         calls'[c].at \in {"start", "read", "create", "done"}
  PROVE  TempComplete'
<1>1. c \notin DOMAIN temps
  BY DEF IInv, TempComplete
<1> SUFFICES ASSUME NEW d \in Calls
             PROVE  /\ d \in DOMAIN temps => calls'[d].at \in {"write", "sync", "rename", "done"}
                    /\ calls'[d].at \in {"write", "sync", "rename"} => d \in DOMAIN temps
                    /\ up /\ calls'[d].at \in {"sync", "rename"} => temps[d].data = calls'[d].text
                    /\ up /\ calls'[d].at = "rename" => temps[d].synced
  BY DEF TempComplete
<1>2. CASE d = c
  BY <1>1, <1>2
<1>3. CASE d # c
  BY <1>3 DEF IInv, TempComplete, OnlyCall
<1> QED BY <1>2, <1>3

\* A call meets an error before it has a temp file.
LEMMA EarlyFailure ==
  ASSUME IInv, NEW c \in Calls, calls[c].at \in {"start", "read"}, NEW code \in Codes \ {"Ok"},
         calls' = Failed(c, code), UNCHANGED <<files, temps, former, git, up, writes, saved>>,
         faults' \in Nat
  PROVE  IInv'
<1> DEFINE x == calls[c]
           y == [x EXCEPT !.at = "done", !.code = code, !.changes = <<>>]
<1>1. TypeOK /\ x \in CallRecord /\ InCall(x) /\ x.at # "done"
  BY CallFacts DEF IInv
<1>2. OnlyCall(c, calls') /\ calls'[c] = y
  BY <1>1, FailedCall
<1>3. y.at = "done" /\ y.seg = x.seg /\ y.code = code /\ code \notin {"Ok", "None"}
  BY <1>1 DEF CallRecord, Codes
<1>4. InCall(y)
  BY <1>1, InCallFailed
<1>5. ReadsAFile'
  BY <1>2, <1>3, CallStepReads
<1>6. RenamesReported'
  BY <1>1, <1>2, <1>3, NotDone, CallStepReported
<1>7. TempComplete'
  BY <1>2, <1>3, CallStepTemps
<1>8. TypeOK'
  BY <1>1, <1>2 DEF TypeOK, OnlyCall
<1> QED BY <1>1, <1>2, <1>4, <1>5, <1>6, <1>7, <1>8, CallStepInCall, CallStepCommit DEF IInv

LEMMA LookInv ==
  ASSUME IInv, NEW c \in Calls, Look(c)
  PROVE  IInv'
<1> DEFINE x == calls[c]
           code == IF ~Normalized(Req(c)) \/ ~Seg(c).parses THEN "InvalidArgs" ELSE PathCheck(Req(c), Seg(c))
<1>1. /\ up /\ x.at = "start" /\ UNCHANGED <<files, temps, former, git, up, writes, saved, faults>>
      /\ calls' = IF code = "Ok" THEN [calls EXCEPT ![c].at = "read"] ELSE Failed(c, code)
  BY DEF Look
<1>2. TypeOK /\ x \in CallRecord /\ InCall(x) /\ x.req = Req(c) /\ Req(c) \in Requests
  BY CallFacts DEF IInv, Req
<1>3. code \in Codes
  BY DEF PathCheck, Codes
<1>4. CASE code = "Ok"
  <2> DEFINE y == [x EXCEPT !.at = "read"]
  <2>1. OnlyCall(c, calls') /\ calls'[c] = y
    BY <1>1, <1>2, <1>4, MovedCall DEF Working
  <2>2. Normalized(Req(c)) /\ PathCheck(Req(c), Seg(c)) = "Ok"
    BY <1>4
  <2>3. Seg(c).path \in Files /\ files[Seg(c).path] \notin {Link, Dir}
    BY <1>2, <2>2, SegmentFacts DEF PathCheck, Segments, Paths
  <2>4. Req(c).tool # "patch" => Len(Req(c).segs) = 1
    BY <1>2, <2>2, RequestFacts DEF Normalized
  <2>5. /\ y \in CallRecord /\ y.at = "read" /\ y.req = x.req /\ y.seg = x.seg
        /\ y.changes = x.changes /\ y.code = x.code
    BY <1>2 DEF CallRecord, Working
  <2>6. InCall(y)
    BY <1>1, <1>2, <2>3, <2>4, <2>5, InCallMoved DEF Working, Writing, Seg
  <2>7. ReadsAFile'
    BY <1>1, <2>1, <2>3, <2>5, CallStepReads DEF Seg, Req
  <2>8. RenamesReported'
    BY <1>1, <1>2, <2>1, <2>5, NotDone, CallStepReported
  <2>9. TempComplete'
    BY <1>1, <2>1, <2>5, CallStepTemps
  <2>10. TypeOK'
    BY <1>1, <1>2, <2>1 DEF TypeOK, OnlyCall
  <2> QED BY <1>1, <2>1, <2>6, <2>7, <2>8, <2>9, <2>10, CallStepInCall, CallStepCommit DEF IInv
<1>5. CASE code # "Ok"
  <2>1. faults' \in Nat
    BY <1>1, <1>2 DEF TypeOK
  <2> QED BY <1>1, <1>3, <1>5, <2>1, EarlyFailure
<1> QED BY <1>4, <1>5


LEMMA ReadAsInv ==
  ASSUME IInv, NEW c \in Calls, NEW v \in Contents \ {Link, Dir}, calls[c].at = "read",
         ReadAs(c, v), UNCHANGED <<files, temps, former, git, up, writes, saved>>, faults' \in Nat
  PROVE  IInv'
<1> DEFINE x == calls[c]
           r == Outcome(Req(c), Seg(c), v)
<1>1. /\ x.at = "read" /\ UNCHANGED <<files, temps, former, git, up, writes, saved>>
      /\ faults' \in Nat
      /\ calls' = IF r.code # "Ok" THEN Failed(c, r.code)
                  ELSE IF Req(c).dry THEN SegmentDone(c, v, r.text)
                  ELSE [calls EXCEPT ![c].at = "create", ![c].read = v, ![c].text = r.text]
  BY DEF ReadAs
<1>2. TypeOK /\ x \in CallRecord /\ InCall(x) /\ x.req = Req(c) /\ Req(c) \in Requests
  BY CallFacts DEF IInv, Req
<1>3. Seg(c).path \in Files /\ Seg(c) = x.req.segs[x.seg]
  BY <1>1, <1>2 DEF InCall, PathLookedAt, Working, Seg, Req
<1>4. v \in Contents \ {Link, Dir}
  OBVIOUS
<1>5. r.code \in Codes /\ r.text \in Seq(Words)
  BY <1>2, <1>4, OutcomeIsText, SegmentFacts
<1> HIDE DEF r
<1>0. CASE r.code # "Ok"
  BY <1>0, <1>1, <1>5, EarlyFailure
<1> SUFFICES ASSUME NEW y \in CallRecord, OnlyCall(c, calls'), calls'[c] = y, InCall(y),
                    y.at \in {"start", "create", "done"},
                    \/ y.seg = x.seg /\ y.code = x.code /\ y.changes = x.changes
                    \/ x.req.dry
             PROVE  IInv'
  <2>2. CASE r.code = "Ok" /\ Req(c).dry
    <3> DEFINE y == Ended(x, v, r.text)
    <3>1. OnlyCall(c, calls') /\ calls'[c] = y
      BY <1>1, <1>2, <1>3, <1>4, <1>5, <2>2, EndedSegment
    <3>2. InCall(y) /\ y.at \in {"start", "done"}
      BY <1>1, <1>2, <1>4, <1>5, InCallEnded DEF Working
    <3>3. y \in CallRecord
      BY <3>1 DEF OnlyCall
    <3> QED BY <1>2, <2>2, <3>1, <3>2, <3>3
  <2>3. CASE r.code = "Ok" /\ ~Req(c).dry
    <3> DEFINE y == [x EXCEPT !.at = "create", !.read = v, !.text = r.text]
    <3>0. calls' = [calls EXCEPT ![c].at = "create", ![c].read = v, ![c].text = r.text]
      BY <1>1, <2>3
    <3>a. \A w \in Contents, t \in Seq(Words) :
            /\ OnlyCall(c, [calls EXCEPT ![c].at = "create", ![c].read = w, ![c].text = t])
            /\ [calls EXCEPT ![c].at = "create", ![c].read = w, ![c].text = t][c] =
                 [x EXCEPT !.at = "create", !.read = w, !.text = t]
      BY <1>2, ReadCall, Zenon
    <3>b. v \in Contents /\ r.text \in Seq(Words)
      BY <1>4, <1>5
    <3>c. /\ OnlyCall(c, [calls EXCEPT ![c].at = "create", ![c].read = v, ![c].text = r.text])
          /\ [calls EXCEPT ![c].at = "create", ![c].read = v, ![c].text = r.text][c] = y
      BY <3>a, <3>b, Zenon
    <3>1. OnlyCall(c, calls') /\ calls'[c] = y
      BY <3>0, <3>c, Zenon
    <3>2. /\ y \in CallRecord /\ y.at = "create" /\ y.req = x.req /\ y.seg = x.seg
          /\ y.changes = x.changes /\ y.code = x.code
      BY <1>2, <1>4, <1>5 DEF CallRecord, Working, Writing
    <3>3. InCall(y)
      BY <1>1, <1>2, <2>3, <3>2, InCallMoved DEF Working, Writing
    <3> QED BY <3>1, <3>2, <3>3
  <2> QED BY <1>0, <2>2, <2>3
<1>6. ReadsAFile'
  BY <1>1, CallStepReads
<1>7. RenamesReported'
  BY <1>1, NotDone, CallStepReported
<1>8. TempComplete'
  BY <1>1, CallStepTemps
<1>9. TypeOK'
  BY <1>1, <1>2 DEF TypeOK, OnlyCall
<1> QED BY <1>1, <1>6, <1>7, <1>8, <1>9, CallStepInCall, CallStepCommit DEF IInv

LEMMA ReadFileInv ==
  ASSUME IInv, NEW c \in Calls, ReadFile(c)
  PROVE  IInv'
<1> DEFINE v == files[Seg(c).path]
<1>1. /\ up /\ calls[c].at = "read" /\ ReadAs(c, v) /\ faults' = faults
      /\ UNCHANGED <<files, temps, former, git, up, writes, saved>>
  BY DEF ReadFile
<1>2. TypeOK /\ InCall(calls[c])
  BY DEF IInv
<1>3. Seg(c).path \in Files
  BY <1>1, <1>2 DEF InCall, PathLookedAt, Working, Seg, Req
<1>4. v \in Contents \ {Link, Dir} /\ faults' \in Nat
  BY <1>1, <1>2, <1>3 DEF IInv, ReadsAFile, TypeOK
<1> HIDE DEF v
<1> QED BY <1>1, <1>4, ReadAsInv

LEMMA ReadFailsInv ==
  ASSUME IInv, NEW c \in Calls, ReadFails(c)
  PROVE  IInv'
<1>1. /\ calls[c].at = "read" /\ faults' = faults + 1
      /\ UNCHANGED <<files, temps, former, git, up, writes, saved>>
      /\ ReadAs(c, Missing) \/ calls' = Failed(c, "PermissionDenied")
  BY DEF ReadFails
<1>2. faults' \in Nat
  BY <1>1 DEF IInv, TypeOK
<1>3. Missing \in Contents \ {Link, Dir}
  BY ContentFacts, ContentAssumption
<1>4. "PermissionDenied" \in Codes \ {"Ok"}
  BY DEF Codes
<1>5. CASE ReadAs(c, Missing)
  BY <1>1, <1>2, <1>3, <1>5, ReadAsInv
<1>6. CASE calls' = Failed(c, "PermissionDenied")
  BY <1>1, <1>2, <1>4, <1>6, EarlyFailure
<1> QED BY <1>1, <1>5, <1>6

LEMMA CreateTempInv ==
  ASSUME IInv, NEW c \in Calls, CreateTemp(c)
  PROVE  IInv'
<1> DEFINE x == calls[c]
           y == [x EXCEPT !.at = "write"]
<1>1. /\ up /\ x.at = "create" /\ UNCHANGED <<files, former, git, up, writes, saved, faults>>
      /\ temps' = [d \in DOMAIN temps \union {c} |->
                     IF d = c THEN [data |-> Torn, synced |-> FALSE] ELSE temps[d]]
      /\ calls' = [calls EXCEPT ![c].at = "write"]
  BY DEF CreateTemp
<1>2. TypeOK /\ x \in CallRecord /\ InCall(x)
  BY CallFacts DEF IInv
<1>3. OnlyCall(c, calls') /\ calls'[c] = y
  BY <1>1, <1>2, MovedCall DEF Working, Writing
<1>4. /\ y \in CallRecord /\ y.at = "write" /\ y.req = x.req /\ y.seg = x.seg
      /\ y.changes = x.changes /\ y.code = x.code
  BY <1>2 DEF CallRecord, Working, Writing
<1>5. InCall(y)
  <2>1. ~x.req.dry
    BY <1>1, <1>2 DEF InCall, Writing
  <2> QED BY <1>1, <1>2, <1>4, <2>1, InCallMoved DEF Working, Writing
<1>6. /\ DOMAIN temps' = DOMAIN temps \union {c}
      /\ \A d \in DOMAIN temps : d # c => temps'[d] = temps[d]
  BY <1>1
<1>7. c \notin DOMAIN temps
  BY <1>1 DEF IInv, TempComplete
<1>8. TypeOK'
  <2>1. [data |-> Torn, synced |-> FALSE] \in TempFile
    BY DEF TempFile
  <2>2. temps' \in [DOMAIN temps' -> TempFile] /\ DOMAIN temps' \subseteq Calls
    BY <1>1, <1>2, <1>6, <2>1 DEF TypeOK
  <2> QED BY <1>1, <1>2, <1>3, <2>2 DEF TypeOK, OnlyCall
<1>9. TempComplete'
  <2> SUFFICES ASSUME NEW d \in Calls
               PROVE  /\ d \in DOMAIN temps' => calls'[d].at \in {"write", "sync", "rename", "done"}
                      /\ calls'[d].at \in {"write", "sync", "rename"} => d \in DOMAIN temps'
                      /\ up /\ calls'[d].at \in {"sync", "rename"} => temps'[d].data = calls'[d].text
                      /\ up /\ calls'[d].at = "rename" => temps'[d].synced
    BY <1>1 DEF TempComplete
  <2>1. CASE d = c
    BY <1>3, <1>4, <1>6, <2>1
  <2>2. CASE d # c
    BY <1>3, <1>6, <2>2 DEF IInv, TempComplete, OnlyCall
  <2> QED BY <2>1, <2>2
<1>10. ReadsAFile' /\ RenamesReported'
  BY <1>1, <1>3, <1>4, NotDone, CallStepReads, CallStepReported
<1> QED BY <1>1, <1>3, <1>5, <1>8, <1>9, <1>10, CallStepInCall, CallStepCommit DEF IInv


LEMMA WriteTempInv ==
  ASSUME IInv, NEW c \in Calls, WriteTemp(c)
  PROVE  IInv'
<1> DEFINE x == calls[c]
           y == [x EXCEPT !.at = "sync"]
<1>1. /\ up /\ x.at = "write" /\ UNCHANGED <<files, former, git, up, writes, saved, faults>>
      /\ temps' = [temps EXCEPT ![c].data = x.text]
      /\ calls' = [calls EXCEPT ![c].at = "sync"]
  BY DEF WriteTemp
<1>2. TypeOK /\ x \in CallRecord /\ InCall(x)
  BY CallFacts DEF IInv
<1>3. OnlyCall(c, calls') /\ calls'[c] = y
  BY <1>1, <1>2, MovedCall DEF Working, Writing
<1>4. /\ y \in CallRecord /\ y.at = "sync" /\ y.req = x.req /\ y.seg = x.seg
      /\ y.changes = x.changes /\ y.code = x.code /\ y.text = x.text /\ x.text \in Seq(Words)
  BY <1>2 DEF CallRecord, Working, Writing
<1>5. InCall(y)
  <2>1. ~x.req.dry
    BY <1>1, <1>2 DEF InCall, Writing
  <2> QED BY <1>1, <1>2, <1>4, <2>1, InCallMoved DEF Working, Writing
<1>6. c \in DOMAIN temps /\ temps \in [DOMAIN temps -> TempFile]
  BY <1>1 DEF IInv, TempComplete, TypeOK
<1>7. temps'[c].data = x.text /\ DOMAIN temps' = DOMAIN temps
  BY <1>1, <1>6 DEF TempFile
<1>8. TypeOK'
  <2>1. [temps[c] EXCEPT !.data = x.text] \in TempFile
    BY <1>4, <1>6 DEF TempFile
  <2>2. temps' \in [DOMAIN temps' -> TempFile] /\ DOMAIN temps' \subseteq Calls
    BY <1>1, <1>2, <1>6, <2>1 DEF TypeOK
  <2> QED BY <1>1, <1>2, <1>3, <2>2 DEF TypeOK, OnlyCall
<1>9. TempComplete'
  <2> SUFFICES ASSUME NEW d \in Calls
               PROVE  /\ d \in DOMAIN temps' => calls'[d].at \in {"write", "sync", "rename", "done"}
                      /\ calls'[d].at \in {"write", "sync", "rename"} => d \in DOMAIN temps'
                      /\ up /\ calls'[d].at \in {"sync", "rename"} => temps'[d].data = calls'[d].text
                      /\ up /\ calls'[d].at = "rename" => temps'[d].synced
    BY <1>1 DEF TempComplete
  <2>1. CASE d = c
    BY <1>3, <1>4, <1>6, <1>7, <2>1
  <2>2. CASE d # c
    <3>1. d \in DOMAIN temps => temps'[d] = temps[d]
      BY <1>1, <2>2
    <3> QED BY <1>3, <1>7, <2>2, <3>1 DEF IInv, TempComplete, OnlyCall
  <2> QED BY <2>1, <2>2
<1>10. ReadsAFile' /\ RenamesReported'
  BY <1>1, <1>3, <1>4, NotDone, CallStepReads, CallStepReported
<1> QED BY <1>1, <1>3, <1>5, <1>8, <1>9, <1>10, CallStepInCall, CallStepCommit DEF IInv

LEMMA SyncTempInv ==
  ASSUME IInv, NEW c \in Calls, SyncTemp(c)
  PROVE  IInv'
<1> DEFINE x == calls[c]
           y == [x EXCEPT !.at = "rename"]
<1>1. /\ up /\ x.at = "sync" /\ UNCHANGED <<files, former, git, up, writes, saved, faults>>
      /\ temps' = [temps EXCEPT ![c].synced = TRUE]
      /\ calls' = [calls EXCEPT ![c].at = "rename"]
  BY DEF SyncTemp
<1>2. TypeOK /\ x \in CallRecord /\ InCall(x)
  BY CallFacts DEF IInv
<1>3. OnlyCall(c, calls') /\ calls'[c] = y
  BY <1>1, <1>2, MovedCall DEF Working, Writing
<1>4. /\ y \in CallRecord /\ y.at = "rename" /\ y.req = x.req /\ y.seg = x.seg
      /\ y.changes = x.changes /\ y.code = x.code /\ y.text = x.text
  BY <1>2 DEF CallRecord, Working, Writing
<1>5. InCall(y)
  <2>1. ~x.req.dry
    BY <1>1, <1>2 DEF InCall, Writing
  <2> QED BY <1>1, <1>2, <1>4, <2>1, InCallMoved DEF Working, Writing
<1>6. c \in DOMAIN temps /\ temps \in [DOMAIN temps -> TempFile] /\ temps[c].data = x.text
  BY <1>1 DEF IInv, TempComplete, TypeOK
<1>7. temps'[c].data = x.text /\ temps'[c].synced /\ DOMAIN temps' = DOMAIN temps
  BY <1>1, <1>6 DEF TempFile
<1>8. TypeOK'
  <2>1. [temps[c] EXCEPT !.synced = TRUE] \in TempFile
    BY <1>6 DEF TempFile
  <2>2. temps' \in [DOMAIN temps' -> TempFile] /\ DOMAIN temps' \subseteq Calls
    BY <1>1, <1>2, <1>6, <2>1 DEF TypeOK
  <2> QED BY <1>1, <1>2, <1>3, <2>2 DEF TypeOK, OnlyCall
<1>9. TempComplete'
  <2> SUFFICES ASSUME NEW d \in Calls
               PROVE  /\ d \in DOMAIN temps' => calls'[d].at \in {"write", "sync", "rename", "done"}
                      /\ calls'[d].at \in {"write", "sync", "rename"} => d \in DOMAIN temps'
                      /\ up /\ calls'[d].at \in {"sync", "rename"} => temps'[d].data = calls'[d].text
                      /\ up /\ calls'[d].at = "rename" => temps'[d].synced
    BY <1>1 DEF TempComplete
  <2>1. CASE d = c
    BY <1>3, <1>4, <1>6, <1>7, <2>1
  <2>2. CASE d # c
    <3>1. d \in DOMAIN temps => temps'[d] = temps[d]
      BY <1>1, <2>2
    <3> QED BY <1>3, <1>7, <2>2, <3>1 DEF IInv, TempComplete, OnlyCall
  <2> QED BY <2>1, <2>2
<1>10. ReadsAFile' /\ RenamesReported'
  BY <1>1, <1>3, <1>4, NotDone, CallStepReads, CallStepReported
<1> QED BY <1>1, <1>3, <1>5, <1>8, <1>9, <1>10, CallStepInCall, CallStepCommit DEF IInv

\* The rename of a segment, and the change that tells it, keep the two in step.
LEMMA RenameReported ==
  ASSUME NEW x \in CallRecord, InCall(x), x.at \in Writing, NEW moves \in Seq(Move),
         Reported(x, moves), NEW path \in Files, path = x.req.segs[x.seg].path
  PROVE  Reported(Ended(x, x.read, x.text),
                  Append(moves, [path |-> path, from |-> x.read, to |-> x.text]))
<1> DEFINE y == Ended(x, x.read, x.text)
           move == [path |-> path, from |-> x.read, to |-> x.text]
           change == [path |-> path, before |-> Shown(x.read), after |-> x.text]
           longer == Append(moves, move)
<1>1. x.read \in Contents /\ x.text \in Seq(Words) /\ x.changes \in Seq(Change)
      /\ x.seg \in Nat \ {0} /\ ~x.req.dry
  BY DEF CallRecord, InCall
<1>2. /\ y.req = x.req /\ y.code \in {"Ok", "None"} /\ x.code = "None"
      /\ Renamed(y) = x.seg /\ y.changes = Append(x.changes, change)
  BY <1>1, InCallEnded DEF Working
<1>3. Len(x.changes) = x.seg - 1 /\ Len(moves) = x.seg - 1
  BY <1>1, <1>2 DEF InCall, SegmentInRange, Collected, Reported, Renamed
<1>4. move \in Move /\ change \in Change
  BY <1>1, ContentFacts DEF Move, Change
<1>5. Told(move) = change /\ move.path = path
  BY DEF Told
<1> HIDE DEF y, move, change
<1>6. /\ Len(longer) = x.seg /\ longer[x.seg] = move
      /\ \A i \in 1..(x.seg - 1) : longer[i] = moves[i]
  BY <1>1, <1>3, <1>4
<1>7. /\ y.changes[x.seg] = change
      /\ \A i \in 1..(x.seg - 1) : y.changes[i] = x.changes[i]
  BY <1>1, <1>2, <1>3, <1>4
<1> HIDE DEF longer
<1>8. ASSUME NEW i \in 1..Len(longer)
      PROVE  longer[i].path = y.req.segs[i].path /\ y.changes[i] = Told(longer[i])
  <2>1. CASE i = x.seg
    BY <1>2, <1>5, <1>6, <1>7, <2>1
  <2>2. CASE i # x.seg
    <3>1. i \in 1..(x.seg - 1)
      BY <1>1, <1>6, <2>2
    <3>2. moves[i].path = x.req.segs[i].path /\ x.changes[i] = Told(moves[i])
      BY <1>2, <1>3, <3>1 DEF Reported
    <3> QED BY <1>2, <1>6, <1>7, <3>1, <3>2
  <2> QED BY <2>1, <2>2
<1>9. Reported(y, longer)
  BY <1>2, <1>6, <1>8 DEF Reported
<1> QED BY <1>9 DEF y, longer, move


LEMMA RenameInv ==
  ASSUME IInv, NEW c \in Calls, Rename(c)
  PROVE  IInv'
<1> DEFINE x == calls[c]
           p == Seg(c).path
           y == Ended(x, x.read, x.text)
           move == [path |-> p, from |-> x.read, to |-> x.text]
<1>1. /\ up /\ x.at = "rename" /\ UNCHANGED <<git, up, saved, faults>>
      /\ calls' = SegmentDone(c, x.read, x.text) /\ temps' = Without(c)
  BY DEF Rename
<1>2. TypeOK /\ x \in CallRecord /\ InCall(x) /\ x.read \in Contents /\ x.text \in Seq(Words)
  BY CallFacts DEF IInv
<1>3. p \in Files /\ p = x.req.segs[x.seg].path /\ ~x.req.dry
  BY <1>1, <1>2 DEF InCall, PathLookedAt, Working, Writing, Seg, Req
<1>4. c \in DOMAIN temps /\ temps[c].data = x.text /\ temps[c].synced
  BY <1>1 DEF IInv, TempComplete
<1>5. OnlyCall(c, calls') /\ calls'[c] = y
  BY <1>1, <1>2, <1>3, EndedSegment
<1>6. InCall(y) /\ y.at \in {"start", "done"} /\ y.req = x.req
  BY <1>1, <1>2, InCallEnded DEF Working, Writing
<1>7. /\ files' = [files EXCEPT ![p] = x.text]
      /\ former' = [former EXCEPT ![p] = @ \union {files[p]} \union {}]
      /\ writes' = [writes EXCEPT ![c] = Append(@, move)]
  BY <1>4 DEF Rename
<1>8. DOMAIN temps' = DOMAIN temps \ {c} /\ \A d \in DOMAIN temps' : temps'[d] = temps[d]
  BY <1>1 DEF Without
<1> HIDE DEF y
<1>9. TypeOK'
  <2>1. files' \in [Files -> Contents]
    BY <1>2, <1>3, <1>7, ContentFacts DEF TypeOK
  <2>2. former' \in [Files -> SUBSET Contents]
    BY <1>2, <1>3, <1>7 DEF TypeOK
  <2>3. temps' \in [DOMAIN temps' -> TempFile] /\ DOMAIN temps' \subseteq Calls
    BY <1>1, <1>2, <1>8 DEF TypeOK, Without
  <2>4. writes' \in [Calls -> Seq(Move)]
    <3>1. move \in Move /\ writes \in [Calls -> Seq(Move)]
      BY <1>2, <1>3 DEF Move, TypeOK
    <3> HIDE DEF move
    <3>2. Append(writes[c], move) \in Seq(Move)
      BY <3>1
    <3> QED BY <1>7, <3>1, <3>2
  <2> QED BY <1>1, <1>2, <1>5, <2>1, <2>2, <2>3, <2>4 DEF TypeOK, OnlyCall
<1>10. ReadsAFile'
  <2> SUFFICES ASSUME NEW d \in Calls, calls'[d].at = "read"
               PROVE  files'[calls'[d].req.segs[calls'[d].seg].path] \notin {Link, Dir}
    BY DEF ReadsAFile, Seg, Req
  <2>1. d # c /\ calls'[d] = calls[d]
    BY <1>5, <1>6 DEF OnlyCall
  <2>2. files[calls[d].req.segs[calls[d].seg].path] \notin {Link, Dir}
    BY <1>1, <2>1 DEF IInv, ReadsAFile, Seg, Req
  <2>3. calls[d].req.segs[calls[d].seg].path \in Files
    BY <2>1 DEF IInv, InCall, PathLookedAt, Working
  <2>4. x.text \notin {Link, Dir}
    BY <1>2, ContentFacts
  <2> QED BY <1>2, <1>7, <2>1, <2>2, <2>3, <2>4 DEF TypeOK
<1>11. TempComplete'
  <2> SUFFICES ASSUME NEW d \in Calls
               PROVE  /\ d \in DOMAIN temps' => calls'[d].at \in {"write", "sync", "rename", "done"}
                      /\ calls'[d].at \in {"write", "sync", "rename"} => d \in DOMAIN temps'
                      /\ up /\ calls'[d].at \in {"sync", "rename"} => temps'[d].data = calls'[d].text
                      /\ up /\ calls'[d].at = "rename" => temps'[d].synced
    BY <1>1 DEF TempComplete
  <2>1. CASE d = c
    BY <1>5, <1>6, <1>8, <2>1
  <2>2. CASE d # c
    BY <1>5, <1>8, <2>2 DEF IInv, TempComplete, OnlyCall
  <2> QED BY <2>1, <2>2
<1>12. RenamesReported'
  <2> SUFFICES ASSUME NEW d \in Calls PROVE Reported(calls'[d], writes'[d])
    BY DEF RenamesReported
  <2>1. Reported(calls[d], writes[d]) /\ writes \in [Calls -> Seq(Move)]
    BY DEF IInv, RenamesReported, TypeOK
  <2>2. CASE d = c
    <3>1. writes[c] \in Seq(Move) /\ writes'[c] = Append(writes[c], move)
      BY <1>7, <2>1
    <3>2. Reported(Ended(x, x.read, x.text), Append(writes[c], move))
      BY <1>1, <1>2, <1>3, <2>1, <2>2, <3>1, RenameReported DEF Writing
    <3> QED BY <1>5, <2>2, <3>1, <3>2 DEF y
  <2>3. CASE d # c
    BY <1>5, <1>7, <2>1, <2>3 DEF OnlyCall
  <2> QED BY <2>2, <2>3
<1> QED BY <1>1, <1>5, <1>6, <1>9, <1>10, <1>11, <1>12, CallStepInCall, CallStepCommit DEF IInv

LEMMA WriteFailsInv ==
  ASSUME IInv, NEW c \in Calls, WriteFails(c)
  PROVE  IInv'
<1> DEFINE x == calls[c]
           y == [x EXCEPT !.at = "done", !.code = "PermissionDenied", !.changes = <<>>]
<1>1. /\ up /\ x.at \in Writing /\ UNCHANGED <<files, former, git, up, writes, saved>>
      /\ calls' = Failed(c, "PermissionDenied") /\ temps' \in {Without(c), temps} /\ faults' = faults + 1
  BY DEF WriteFails, Cleanup, Writing
<1>2. TypeOK /\ x \in CallRecord /\ InCall(x)
  BY CallFacts DEF IInv
<1>3. "PermissionDenied" \in Codes \ {"Ok"} /\ x.at # "done"
  BY <1>1 DEF Codes, Writing
<1>4. OnlyCall(c, calls') /\ calls'[c] = y
  BY <1>1, <1>2, <1>3, FailedCall
<1>5. InCall(y)
  BY <1>2, <1>3, InCallFailed
<1>6. y.at = "done" /\ y.seg = x.seg /\ y.code = "PermissionDenied"
  BY <1>2 DEF CallRecord
<1>7. /\ DOMAIN temps' \subseteq DOMAIN temps /\ DOMAIN temps \subseteq DOMAIN temps' \union {c}
      /\ \A d \in DOMAIN temps' : temps'[d] = temps[d]
  BY <1>1 DEF Without
<1>8. TypeOK'
  <2>1. temps' \in [DOMAIN temps' -> TempFile]
    BY <1>1, <1>2 DEF TypeOK, Without
  <2>2. DOMAIN temps' \subseteq Calls /\ faults' \in Nat
    BY <1>1, <1>2, <1>7 DEF TypeOK
  <2> QED BY <1>1, <1>2, <1>4, <2>1, <2>2 DEF TypeOK, OnlyCall
<1>9. TempComplete'
  <2> SUFFICES ASSUME NEW d \in Calls
               PROVE  /\ d \in DOMAIN temps' => calls'[d].at \in {"write", "sync", "rename", "done"}
                      /\ calls'[d].at \in {"write", "sync", "rename"} => d \in DOMAIN temps'
                      /\ up /\ calls'[d].at \in {"sync", "rename"} => temps'[d].data = calls'[d].text
                      /\ up /\ calls'[d].at = "rename" => temps'[d].synced
    BY <1>1 DEF TempComplete
  <2>1. CASE d = c
    BY <1>4, <1>6, <2>1
  <2>2. CASE d # c
    BY <1>4, <1>7, <2>2 DEF IInv, TempComplete, OnlyCall
  <2> QED BY <2>1, <2>2
<1>10. ReadsAFile' /\ RenamesReported'
  BY <1>1, <1>3, <1>4, <1>6, NotDone, CallStepReads, CallStepReported
<1>11. calls[c].at # "done"
  BY <1>3
<1> QED BY <1>1, <1>4, <1>5, <1>8, <1>9, <1>10, <1>11, CallStepInCall, CallStepCommit DEF IInv


(***************************************************************************)
(* The commit, the person and the faults.                                  *)
(***************************************************************************)
\* What the calls did is over: only the repository changes.
LEMMA GitStepKeeps ==
  ASSUME IInv, UNCHANGED <<files, temps, former, calls, up, writes, saved>>, git' \in Repository,
         faults' \in Nat, CommitWaits', CursorInRange', CommitKeepsUp'
  PROVE  IInv'
<1>1. TypeOK'
  BY DEF IInv, TypeOK
<1>2. (\A c \in Calls : InCall(calls[c]))'
  BY DEF IInv
<1>3. ReadsAFile' /\ TempComplete' /\ RenamesReported'
  BY DEF IInv, ReadsAFile, TempComplete, RenamesReported, Seg, Req
<1> QED BY <1>1, <1>2, <1>3 DEF IInv

\* A call that commits has resolved a path in the sandbox.
LEMMA TouchedFile ==
  ASSUME IInv, NEW c \in Calls, calls[c].code = "Ok"
  PROVE  Touched(c) \in Files
BY DEF IInv, InCall, PathLookedAt, Touched, Req

LEMMA NextCallFacts ==
  ASSUME IInv, git.next <= NCalls
  PROVE  /\ NextCall \in Repository
         /\ NextCall.next = git.next + 1 /\ NextCall.at = "add"
         /\ NextCall.index = git.index /\ NextCall.head = git.head
         /\ git.next \in Calls /\ git.next + 1 \in 1..(NCalls + 1)
<1>1. git \in Repository /\ git.next \in 1..(NCalls + 1) /\ NCalls \in Nat
  BY FileToolsAssumption DEF IInv, TypeOK, CursorInRange
<1>2. git.next \in Calls /\ git.next + 1 \in 1..(NCalls + 1) /\ git.next + 1 \in Nat \ {0}
  BY <1>1 DEF Calls
<1>3. NextCall \in Repository
  BY <1>1, <1>2 DEF NextCall, Repository
<1> QED BY <1>1, <1>2, <1>3 DEF NextCall, Repository

LEMMA NothingToCommitInv ==
  ASSUME IInv, NothingToCommit
  PROVE  IInv'
<1>1. /\ up /\ BatchDone /\ git.next <= NCalls /\ git.at = "add" /\ ~Commits(git.next)
      /\ git' = NextCall
      /\ UNCHANGED <<files, temps, former, calls, up, writes, saved, faults>>
  BY DEF NothingToCommit
<1>2. /\ git' \in Repository /\ git'.next = git.next + 1 /\ git'.at = "add"
      /\ git'.index = git.index /\ git'.head = git.head /\ git.next \in Calls
      /\ git.next + 1 \in 1..(NCalls + 1)
  BY <1>1, NextCallFacts
<1>3. CommitWaits' /\ CursorInRange'
  BY <1>1, <1>2 DEF CommitWaits, CursorInRange, BatchDone
<1>4. CommitKeepsUp'
  <2> SUFFICES ASSUME faults = 0, NEW c \in Calls, c < git.next + 1, Commits(c), Touched(c) \notin saved
               PROVE  git.index[Touched(c)] = files[Touched(c)] /\ git.head[Touched(c)] = files[Touched(c)]
    BY <1>1, <1>2 DEF CommitKeepsUp, Settled, InIndex, Commits, Touched, Req
  <2>1. c # git.next
    BY <1>1
  <2>2. c < git.next
    BY <1>2, <2>1 DEF Calls
  <2> QED BY <1>1, <2>2 DEF IInv, CommitKeepsUp, Settled, InIndex
<1>5. faults' \in Nat
  BY <1>1 DEF IInv, TypeOK
<1> QED BY <1>1, <1>2, <1>3, <1>4, <1>5, GitStepKeeps

LEMMA GitAddInv ==
  ASSUME IInv, GitAdd
  PROVE  IInv'
<1> DEFINE path == Touched(git.next)
<1>1. /\ up /\ BatchDone /\ git.next <= NCalls /\ git.at = "add" /\ Commits(git.next)
      /\ git' = [git EXCEPT !.index[path] = files[path], !.at = "commit"]
      /\ UNCHANGED <<files, temps, former, calls, up, writes, saved, faults>>
  BY DEF GitAdd
<1>2. git \in Repository /\ git.next \in Calls /\ git.next \in 1..(NCalls + 1) /\ faults \in Nat
  BY <1>1, NextCallFacts DEF IInv, TypeOK, CursorInRange
<1>3. path \in Files /\ files \in [Files -> Contents] /\ git.index \in [Files -> Contents]
  BY <1>1, <1>2, TouchedFile DEF Commits, IInv, TypeOK, Repository
<1> HIDE DEF path
<1>4. /\ git'.index = [git.index EXCEPT ![path] = files[path]] /\ git'.at = "commit"
      /\ git'.next = git.next /\ git'.head = git.head /\ git'.commits = git.commits
  BY <1>1, <1>2 DEF Repository
<1>5. git' \in Repository
  <2>1. [git.index EXCEPT ![path] = files[path]] \in [Files -> Contents]
    BY <1>3
  <2>2. git' = [git EXCEPT !.index = [git.index EXCEPT ![path] = files[path]], !.at = "commit"]
    BY <1>1, <1>2 DEF Repository
  <2> QED BY <1>2, <2>1, <2>2 DEF Repository
<1>6. CommitWaits' /\ CursorInRange'
  BY <1>1, <1>2, <1>4 DEF CommitWaits, CursorInRange, BatchDone
<1>7. CommitKeepsUp'
  <2>1. ASSUME faults = 0, NEW c \in Calls, c < git.next, Commits(c), Touched(c) \notin saved
        PROVE  git'.index[Touched(c)] = files[Touched(c)] /\ git'.head[Touched(c)] = files[Touched(c)]
    <3>1. git.index[Touched(c)] = files[Touched(c)] /\ git.head[Touched(c)] = files[Touched(c)]
      BY <1>1, <2>1 DEF IInv, CommitKeepsUp, Settled, InIndex
    <3>2. Touched(c) \in Files
      BY <2>1, TouchedFile DEF Commits
    <3> QED BY <1>3, <1>4, <3>1, <3>2
  <2>2. git'.index[path] = files[path]
    BY <1>3, <1>4
  <2> QED BY <1>1, <1>4, <2>1, <2>2, ZenonT(60) DEF CommitKeepsUp, Settled, InIndex, Commits, Touched, Req, path
<1> QED BY <1>1, <1>2, <1>5, <1>6, <1>7, GitStepKeeps

LEMMA GitCommitInv ==
  ASSUME IInv, GitCommit
  PROVE  IInv'
<1>1. /\ up /\ git.at = "commit"
      /\ git' = IF Staged = {} THEN NextCall
                ELSE [NextCall EXCEPT !.head = git.index,
                                      !.commits = Append(@, [call |-> git.next, paths |-> Staged])]
      /\ UNCHANGED <<files, temps, former, calls, up, writes, saved, faults>>
  BY DEF GitCommit
<1>2. git.next <= NCalls /\ BatchDone /\ faults \in Nat
  BY <1>1 DEF IInv, CursorInRange, CommitWaits, TypeOK
<1>3. /\ NextCall \in Repository /\ NextCall.next = git.next + 1 /\ NextCall.at = "add"
      /\ NextCall.index = git.index /\ NextCall.head = git.head
      /\ git.next \in Calls /\ git.next + 1 \in 1..(NCalls + 1)
  BY <1>2, NextCallFacts
<1>4. git \in Repository /\ git.index \in [Files -> Contents] /\ git.head \in [Files -> Contents]
  BY DEF IInv, TypeOK, Repository
<1>5. /\ git' \in Repository /\ git'.next = git.next + 1 /\ git'.at = "add"
      /\ git'.index = git.index /\ git'.head = git.index
  <2>1. CASE Staged = {}
    <3>1. git.head = git.index
      BY <1>4, <2>1 DEF Staged
    <3> QED BY <1>1, <1>3, <2>1, <3>1
  <2>2. CASE Staged # {}
    <3> DEFINE entry == [call |-> git.next, paths |-> Staged]
    <3>1. entry \in [call: Nat, paths: SUBSET Files]
      BY <1>4 DEF Staged, Repository
    <3>2. NextCall.commits \in Seq([call: Nat, paths: SUBSET Files])
      BY <1>3 DEF Repository
    <3>3. Append(NextCall.commits, entry) \in Seq([call: Nat, paths: SUBSET Files])
      BY <3>1, <3>2
    <3> HIDE DEF entry
    <3>4. git' = [NextCall EXCEPT !.head = git.index, !.commits = Append(NextCall.commits, entry)]
      BY <1>1, <1>3, <2>2 DEF entry, Repository
    <3> QED BY <1>3, <1>4, <3>3, <3>4 DEF Repository
  <2> QED BY <2>1, <2>2
<1>6. CommitWaits' /\ CursorInRange'
  BY <1>1, <1>2, <1>3, <1>5 DEF CommitWaits, CursorInRange, BatchDone
<1>7. CommitKeepsUp'
  <2> SUFFICES ASSUME faults = 0, NEW c \in Calls, c < git.next + 1, Commits(c), Touched(c) \notin saved
               PROVE  git.index[Touched(c)] = files[Touched(c)]
    BY <1>1, <1>5 DEF CommitKeepsUp, Settled, InIndex, Commits, Touched, Req
  <2>1. c < git.next \/ c = git.next
    BY <1>3 DEF Calls
  <2> QED BY <1>1, <2>1 DEF IInv, CommitKeepsUp, Settled, InIndex
<1> QED BY <1>1, <1>2, <1>5, <1>6, <1>7, GitStepKeeps

LEMMA GitFailsInv ==
  ASSUME IInv, GitFails
  PROVE  IInv'
<1>1. /\ up /\ BatchDone /\ git.next <= NCalls /\ git' = NextCall /\ faults' = faults + 1
      /\ UNCHANGED <<files, temps, former, calls, up, writes, saved>>
  BY DEF GitFails
<1>2. /\ git' \in Repository /\ git'.next = git.next + 1 /\ git'.at = "add"
      /\ git.next + 1 \in 1..(NCalls + 1)
  BY <1>1, NextCallFacts
<1>3. CommitWaits' /\ CursorInRange'
  BY <1>1, <1>2 DEF CommitWaits, CursorInRange, BatchDone
<1>4. faults' \in Nat /\ faults' # 0
  BY <1>1 DEF IInv, TypeOK
<1>5. CommitKeepsUp'
  BY <1>4 DEF CommitKeepsUp
<1> QED BY <1>1, <1>2, <1>3, <1>4, <1>5, GitStepKeeps


LEMMA PersonSavesInv ==
  ASSUME IInv, NEW f \in Files, PersonSaves(f)
  PROVE  IInv'
<1>1. /\ up /\ files' = [files EXCEPT ![f] = PersonText] /\ saved' = saved \union {f}
      /\ UNCHANGED <<temps, former, calls, git, up, writes, faults>>
  BY DEF PersonSaves
<1>2. PersonText \in Seq(Words) /\ PersonText \in Contents /\ PersonText \notin {Link, Dir}
      /\ PersonText # Missing
  BY ContentAssumption, ContentFacts
<1>3. files \in [Files -> Contents] /\ Text(files[f])
  BY DEF IInv, TypeOK, PersonSaves
<1>4. files' \in [Files -> Contents]
  BY <1>1, <1>2, <1>3
<1>5. TypeOK'
  <2>1. saved' \in SUBSET Files
    BY <1>1 DEF IInv, TypeOK
  <2> QED BY <1>1, <1>4, <2>1 DEF IInv, TypeOK
<1>6. (\A c \in Calls : InCall(calls[c]))' /\ TempComplete' /\ RenamesReported'
  BY <1>1 DEF IInv, TempComplete, RenamesReported, Req
<1>7. ReadsAFile'
  <2> SUFFICES ASSUME NEW c \in Calls, calls[c].at = "read" PROVE files'[Seg(c).path] \notin {Link, Dir}
    BY <1>1 DEF ReadsAFile, Seg, Req
  <2>1. files[Seg(c).path] \notin {Link, Dir}
    BY <1>1 DEF IInv, ReadsAFile
  <2>2. Seg(c).path \in Files
    BY DEF IInv, InCall, PathLookedAt, Working, Seg, Req
  <2> QED BY <1>1, <1>2, <1>3, <2>1, <2>2
<1>8. CommitWaits' /\ CursorInRange'
  BY <1>1 DEF IInv, CommitWaits, CursorInRange, BatchDone
<1>9. CommitKeepsUp'
  <2> SUFFICES ASSUME faults = 0
               PROVE  /\ \A c \in Calls : c < git.next => Settled(c)'
                      /\ git.at = "commit" /\ Touched(git.next) \notin saved' =>
                           git.index[Touched(git.next)] = files'[Touched(git.next)]
    BY <1>1 DEF CommitKeepsUp, InIndex, Touched, Req
  <2>1. ASSUME NEW c \in Calls, c < git.next, calls[c].code = "Ok" /\ Req(c).tool # "patch",
               files'[Touched(c)] # Missing, Touched(c) \notin saved'
        PROVE  git.index[Touched(c)] = files'[Touched(c)] /\ git.head[Touched(c)] = files'[Touched(c)]
    <3>1. Touched(c) # f /\ Touched(c) \notin saved
      BY <1>1, <2>1
    <3>2. files'[Touched(c)] = files[Touched(c)]
      BY <1>1, <1>3, <2>1, <3>1, TouchedFile
    <3>3. Settled(c)
      BY <1>1, <2>1 DEF IInv, CommitKeepsUp
    <3> QED BY <2>1, <3>1, <3>2, <3>3 DEF Settled, Commits, InIndex
  <2>2. \A c \in Calls : c < git.next => Settled(c)'
    BY <1>1, <2>1 DEF Settled, Commits, InIndex, Touched, Req
  <2>3. ASSUME git.at = "commit", Touched(git.next) \notin saved'
        PROVE  git.index[Touched(git.next)] = files'[Touched(git.next)]
    <3>1. Touched(git.next) # f /\ Touched(git.next) \notin saved
      BY <1>1, <2>3
    <3>2. files'[Touched(git.next)] = files[Touched(git.next)]
      BY <1>1, <1>3, <3>1
    <3> QED BY <1>1, <2>3, <3>1, <3>2 DEF IInv, CommitKeepsUp, InIndex
  <2> QED BY <2>2, <2>3
<1> QED BY <1>5, <1>6, <1>7, <1>8, <1>9 DEF IInv

\* When the process has ended there is nothing left that could read or commit.
LEMMA EndedInv ==
  ASSUME IInv, up' = FALSE, faults' \in Nat, UNCHANGED <<former, calls, git, writes, saved>>,
         files' \in [Files -> Contents],
         DOMAIN temps' = DOMAIN temps, temps' \in [DOMAIN temps' -> TempFile]
  PROVE  IInv'
<1>1. TypeOK'
  <2>1. up' \in BOOLEAN
    OBVIOUS
  <2> QED BY <2>1 DEF IInv, TypeOK
<1>2. (\A c \in Calls : InCall(calls[c]))' /\ RenamesReported'
  BY DEF IInv, RenamesReported, Req
<1>3. ReadsAFile' /\ CommitKeepsUp'
  BY DEF ReadsAFile, CommitKeepsUp
<1>4. TempComplete'
  BY DEF IInv, TempComplete
<1>5. CommitWaits' /\ CursorInRange'
  BY DEF IInv, CommitWaits, CursorInRange, BatchDone
<1> QED BY <1>1, <1>2, <1>3, <1>4, <1>5 DEF IInv

LEMMA KillInv ==
  ASSUME IInv, Kill
  PROVE  IInv'
<1>1. up' = FALSE /\ faults' \in Nat /\ UNCHANGED <<files, temps, former, calls, git, writes, saved>>
  BY DEF Kill, IInv, TypeOK
<1>2. files' \in [Files -> Contents] /\ temps' \in [DOMAIN temps' -> TempFile]
  BY <1>1 DEF IInv, TypeOK
<1> QED BY <1>1, <1>2, EndedInv

LEMMA PowerLossInv ==
  ASSUME IInv, PowerLoss
  PROVE  IInv'
<1>1. /\ up' = FALSE /\ faults' \in Nat /\ UNCHANGED <<former, calls, git, writes, saved>>
      /\ temps' = [c \in DOMAIN temps |-> IF temps[c].synced THEN temps[c]
                                          ELSE [temps[c] EXCEPT !.data = Torn]]
  BY DEF PowerLoss, IInv, TypeOK
<1>2. files' \in [Files -> Contents]
  <2>1. PICK now \in [Files -> UNION {former[f] \union {files[f]} : f \in Files}] :
          (\A f \in Files : now[f] \in former[f] \union {files[f]}) /\ files' = now
    BY DEF PowerLoss
  <2>2. \A f \in Files : former[f] \subseteq Contents /\ files[f] \in Contents
    BY DEF IInv, TypeOK
  <2>3. \A f \in Files : now[f] \in Contents
    BY <2>1, <2>2
  <2> QED BY <2>1, <2>3
<1>3. temps' \in [DOMAIN temps' -> TempFile] /\ DOMAIN temps' = DOMAIN temps
  <2>1. temps \in [DOMAIN temps -> TempFile]
    BY DEF IInv, TypeOK
  <2>2. \A t \in TempFile : [t EXCEPT !.data = Torn] \in TempFile
    BY DEF TempFile
  <2> QED BY <1>1, <2>1, <2>2
<1> QED BY <1>1, <1>2, <1>3, EndedInv

-----------------------------------------------------------------------------
LEMMA InitInv ==
  ASSUME Init
  PROVE  IInv
<1>1. PICK reqs \in [Calls -> Requests] :
        calls = [c \in Calls |-> [req |-> reqs[c], at |-> "start", seg |-> 1, read |-> Missing,
                                  text |-> <<>>, changes |-> <<>>, code |-> "None"]]
  BY DEF Init
<1>2. files \in [Files -> Contents]
  BY ContentAssumption DEF Init
<1>3. <<>> \in Seq(Words) /\ <<>> \in Seq(Change) /\ <<>> \in Seq(Move)
      /\ <<>> \in Seq([call: Nat, paths: SUBSET Files])
  OBVIOUS
<1>4. NCalls \in Nat /\ NCalls >= 1
  BY FileToolsAssumption
<1>5. git \in Repository /\ git.next = 1 /\ git.at = "add"
  <2>1. PICK staged \in SUBSET {f \in Files : Text(files[f])} :
          git = [index |-> files,
                 head |-> [f \in Files |-> IF f \in staged THEN Missing ELSE files[f]],
                 next |-> 1, at |-> "add", commits |-> <<>>]
    BY DEF Init
  <2>2. [f \in Files |-> IF f \in staged THEN Missing ELSE files[f]] \in [Files -> Contents]
    BY <1>2, ContentFacts
  <2> QED BY <1>2, <1>3, <2>1, <2>2 DEF Repository
<1>6. calls \in [Calls -> CallRecord]
  <2>1. \A r \in Requests : [req |-> r, at |-> "start", seg |-> 1, read |-> Missing, text |-> <<>>,
                             changes |-> <<>>, code |-> "None"] \in CallRecord
    BY <1>3, ContentFacts DEF CallRecord
  <2> QED BY <1>1, <2>1
<1>7. TypeOK
  <2>1. DOMAIN temps = {} /\ temps \in [DOMAIN temps -> TempFile]
    BY DEF Init
  <2>2. former \in [Files -> SUBSET Contents] /\ writes \in [Calls -> Seq(Move)]
    BY <1>3 DEF Init
  <2> QED BY <1>2, <1>5, <1>6, <2>1, <2>2 DEF Init, TypeOK
<1>8. \A c \in Calls : InCall(calls[c])
  <2> SUFFICES ASSUME NEW c \in Calls PROVE InCall(calls[c])
    OBVIOUS
  <2>1. /\ calls[c].at = "start" /\ calls[c].seg = 1 /\ calls[c].code = "None"
        /\ calls[c].changes = <<>> /\ calls[c].req \in Requests
    BY <1>1
  <2>2. Len(calls[c].req.segs) \in Nat /\ Len(calls[c].req.segs) >= 1
    BY <2>1, RequestFacts
  <2>3. SegmentInRange(calls[c])
    BY <2>1, <2>2 DEF SegmentInRange, Collected
  <2> QED BY <2>1, <2>3 DEF InCall, OneUnlessPatch, PathLookedAt, Working, Writing
<1>9. ReadsAFile /\ TempComplete
  <2>1. \A c \in Calls : calls[c].at = "start"
    BY <1>1
  <2> QED BY <2>1 DEF Init, ReadsAFile, TempComplete
<1>10. RenamesReported
  <2>1. \A c \in Calls : calls[c].seg = 1 /\ calls[c].code = "None" /\ writes[c] = <<>>
    BY <1>1 DEF Init
  <2> QED BY <2>1 DEF RenamesReported, Reported, Renamed
<1>11. CommitWaits /\ CursorInRange /\ CommitKeepsUp
  <2>1. \A c \in Calls : ~(c < 1)
    BY DEF Calls
  <2> QED BY <1>4, <1>5, <2>1 DEF CommitWaits, CursorInRange, CommitKeepsUp
<1> QED BY <1>7, <1>8, <1>9, <1>10, <1>11 DEF IInv

\* The invariant is inductive: it holds at first and every step keeps it.
THEOREM ToolsInductive == Spec => []IInv
<1>1. Init => IInv
  BY InitInv
<1>2. IInv /\ [Next]_vars => IInv'
  <2> SUFFICES ASSUME IInv, [Next]_vars PROVE IInv'
    OBVIOUS
  <2>1. CASE \E c \in Calls : \/ Look(c) \/ ReadFile(c) \/ ReadFails(c) \/ CreateTemp(c)
                              \/ WriteTemp(c) \/ SyncTemp(c) \/ Rename(c) \/ WriteFails(c)
    BY <2>1, LookInv, ReadFileInv, ReadFailsInv, CreateTempInv, WriteTempInv, SyncTempInv, RenameInv, WriteFailsInv
  <2>2. CASE NothingToCommit \/ GitAdd \/ GitCommit \/ GitFails
    BY <2>2, NothingToCommitInv, GitAddInv, GitCommitInv, GitFailsInv
  <2>3. CASE \E f \in Files : PersonSaves(f)
    BY <2>3, PersonSavesInv
  <2>4. CASE Kill \/ PowerLoss
    BY <2>4, KillInv, PowerLossInv
  <2>5. CASE UNCHANGED vars
    <3>1. TypeOK'
      BY <2>5 DEF IInv, TypeOK, vars
    <3>2. (\A c \in Calls : InCall(calls[c]))' /\ ReadsAFile' /\ TempComplete' /\ RenamesReported'
      BY <2>5 DEF IInv, ReadsAFile, TempComplete, RenamesReported, Seg, Req, vars
    <3>3. CommitWaits' /\ CursorInRange'
      BY <2>5 DEF IInv, CommitWaits, CursorInRange, BatchDone, vars
    <3>4. CommitKeepsUp'
      BY <2>5 DEF IInv, CommitKeepsUp, Settled, InIndex, Commits, Touched, Req, vars
    <3> QED BY <3>1, <3>2, <3>3, <3>4 DEF IInv
  <2> QED BY <2>1, <2>2, <2>3, <2>4, <2>5 DEF Next
<1> QED BY <1>1, <1>2, PTL DEF Spec

(***************************************************************************)
(* The results.                                                            *)
(***************************************************************************)
\* No torn file: at any time, after a kill and after a power loss at any step of any
\* of the calls, a path holds a whole version, and a tool has read a whole one.
THEOREM NoTornFile == Spec => []WholeFiles
<1>1. IInv => WholeFiles
  <2> SUFFICES ASSUME IInv PROVE WholeFiles
    OBVIOUS
  <2>1. \A f \in Files : files[f] # Torn
    BY ContentFacts DEF IInv, TypeOK
  <2>2. ASSUME NEW c \in Calls, NEW i \in 1..Len(writes[c]) PROVE writes[c][i].from # Torn
    <3>1. writes[c] \in Seq(Move)
      BY DEF IInv, TypeOK
    <3>2. writes[c][i] \in Move
      BY <3>1
    <3> QED BY <3>2, ContentFacts DEF Move
  <2> QED BY <2>1, <2>2 DEF WholeFiles
<1> QED BY <1>1, ToolsInductive, PTL

\* A call that has succeeded lists the files it replaced, in order, with the content
\* it read and the one it put there.  One that failed lists none: a one-file tool has
\* replaced none then, a patch those of the segments before the one that failed.
THEOREM CallsReportTruly == Spec => []ReportsAreTrue
<1>1. IInv => ReportsAreTrue
  <2> SUFFICES ASSUME IInv, NEW c \in Calls, calls[c].at = "done"
               PROVE  LET x == calls[c]
                          ok == x.code = "Ok"
                          done == writes[c]
                      IN  /\ x.req.dry => done = <<>>
                          /\ ok => Len(x.changes) = Len(x.req.segs)
                          /\ ok /\ ~x.req.dry => x.changes = [i \in DOMAIN done |-> Told(done[i])]
                          /\ ~ok => x.changes = <<>>
                          /\ ~ok /\ x.req.tool # "patch" => done = <<>>
                          /\ ~x.req.dry => /\ Len(done) = IF ok THEN Len(x.req.segs) ELSE x.seg - 1
                                          /\ \A i \in DOMAIN done : done[i].path = x.req.segs[i].path
    BY DEF ReportsAreTrue, Told, Req
  <2> DEFINE x == calls[c]
             done == writes[c]
  <2>1. /\ InCall(x) /\ Reported(x, done) /\ x.code # "None" /\ done \in Seq(Move)
        /\ x.changes \in Seq(Change) /\ x.seg \in Nat \ {0}
    BY CallFacts DEF IInv, RenamesReported, InCall, TypeOK
  <2>2. Len(done) = Renamed(x) /\ DOMAIN done = 1..Len(done) /\ Len(done) \in Nat
    BY <2>1 DEF Reported
  <2>3. Len(x.changes) = IF x.code = "Ok" THEN Len(x.req.segs) ELSE 0
    BY <2>1 DEF InCall, SegmentInRange, Collected
  <2> HIDE DEF x, done
  <2>4. x.req.dry => done = <<>>
    BY <2>1, <2>2 DEF Renamed
  <2>5. ~x.req.dry => Len(done) = IF x.code = "Ok" THEN Len(x.req.segs) ELSE x.seg - 1
    BY <2>2 DEF Renamed
  <2>6. \A i \in DOMAIN done : done[i].path = x.req.segs[i].path
    BY <2>1, <2>2 DEF Reported
  <2>7. x.code # "Ok" => x.changes = <<>>
    BY <2>1, <2>3
  <2>8. ASSUME x.code # "Ok", x.req.tool # "patch" PROVE done = <<>>
    <3>1. x.seg = 1
      BY <2>1, <2>8 DEF InCall, OneUnlessPatch
    <3> QED BY <2>1, <2>2, <2>8, <3>1 DEF Renamed
  <2>9. ASSUME x.code = "Ok", ~x.req.dry PROVE x.changes = [i \in DOMAIN done |-> Told(done[i])]
    <3>1. DOMAIN x.changes = DOMAIN done /\ x.changes = [i \in DOMAIN x.changes |-> x.changes[i]]
      BY <2>1, <2>2, <2>3, <2>5, <2>9
    <3>2. \A i \in DOMAIN done : x.changes[i] = Told(done[i])
      BY <2>1, <2>2, <2>9 DEF Reported
    <3> QED BY <3>1, <3>2
  <2> QED BY <2>3, <2>4, <2>5, <2>6, <2>7, <2>8, <2>9 DEF x, done
<1> QED BY <1>1, ToolsInductive, PTL

\* The automatic commit: when it has gone through the calls and nothing failed, the
\* last commit holds what is on disk in every file a successful call changed.
THEOREM CommitHoldsWork == Spec => []WorkIsCommitted
<1>1. IInv => WorkIsCommitted
  <2> SUFFICES ASSUME IInv, up, git.next > NCalls, faults = 0, NEW c \in Calls,
                      Commits(c), Touched(c) \notin saved
               PROVE  git.head[Touched(c)] = files[Touched(c)]
    BY DEF WorkIsCommitted
  <2>1. c < git.next
    BY FileToolsAssumption DEF IInv, TypeOK, Repository, Calls
  <2> QED BY <2>1 DEF IInv, CommitKeepsUp, Settled
<1> QED BY <1>1, ToolsInductive, PTL

(***************************************************************************)
(* ConfigStore: commands that run one after the other lose no setting,     *)
(* whatever fails or is killed, for any number of settings, servers,       *)
(* sections, commands and failures.  (With Overlap a run of TLC refutes    *)
(* the same.)                                                              *)
(***************************************************************************)
Inodes == 1..(Cardinality(Procs) + 3)
InodeContents == [state : {"whole", "empty", "mixed", "invalid"}, config : Configs]
Cmds == CommandSet \cup {[op |-> "none"]}
Places == {"idle", "load", "save", "remove", "merge", "open", "write", "rename", "edit"}
ProcStates == [at : Places, cmd : Cmds, raw : Configs, fd : {0} \cup Inodes]

StoreTypeOK ==
  /\ config \in {0} \cup Inodes /\ tmp \in {0} \cup Inodes
  /\ inodes \in [Inodes -> InodeContents]
  /\ procs \in [Procs -> ProcStates]
  /\ expected \in InodeContents

\* One command at a time; it alone has a file open, which is config.toml.tmp and
\* never config.toml.
OneAtATime ==
  /\ \A p, q \in Procs : ~At(p, "idle") /\ ~At(q, "idle") => p = q
  /\ \A p \in Procs : At(p, "idle") => procs[p] = Rest
  /\ \A p \in Procs : ~At(p, "idle") => procs[p].cmd \in CommandSet
  /\ \A p \in Procs : IF procs[p].at \in {"write", "rename"}
                      THEN procs[p].fd = tmp /\ tmp # 0 ELSE procs[p].fd = 0
  /\ tmp # 0 => tmp # config

\* The configuration that a command will write, by the place where it stands:
\* what it found with its change, at first without the unknown sections.
Pending(p) ==
  LET cmd == procs[p].cmd
      raw == procs[p].raw
      changed == Update(cmd, Found.config)
  IN  /\ procs[p].at \in {"save", "merge", "open", "write", "rename"} => Parses(Found)
      /\ procs[p].at \in {"save", "merge", "open", "write", "rename"} => cmd.op # "edit"
      /\ procs[p].at = "save" => cmd.op # "reset"
      /\ procs[p].at = "remove" => cmd.op = "reset" /\ raw = Default
      /\ procs[p].at \in {"save", "merge"} /\ cmd.op # "reset" =>
           raw = [changed EXCEPT !.unknown = {}]
      /\ procs[p].at = "merge" /\ cmd.op = "reset" => raw = Default /\ Found = Empty
      /\ procs[p].at \in {"open", "write", "rename"} =>
           raw = IF cmd.op = "reset" THEN Default ELSE changed
      /\ procs[p].at = "write" => inodes[procs[p].fd].state = "empty"
      /\ procs[p].at = "rename" => inodes[procs[p].fd] = Whole(raw)

\* What a loader finds is what the commands made of the file, to the letter.
Kept == Found = expected

Sound == config # 0 => inodes[config].state \in {"whole", "invalid"}

StoreInv == StoreTypeOK /\ OneAtATime /\ (\A p \in Procs : Pending(p)) /\ Kept /\ Sound

(***************************************************************************)
(* Facts about the operators.                                              *)
(***************************************************************************)
LEMMA Enough ==
  ASSUME IsFiniteSet(Procs), NEW p \in Procs
  PROVE  1 \in Inodes /\ 2 \in Inodes /\ 3 \in Inodes /\ 4 \in Inodes
<1>1. Cardinality(Procs) \in Nat /\ Cardinality(Procs) # 0
  BY FS_CardinalityType, FS_EmptySet
<1> QED BY <1>1 DEF Inodes

LEMMA ContentsTyped ==
  /\ Default \in Configs /\ Empty \in InodeContents /\ Mixed \in InodeContents /\ Invalid \in InodeContents
  /\ Default.unknown = {}
  /\ \A c \in Configs : Whole(c) \in InodeContents /\ Whole(c).config = c
                         /\ Whole(c).state = "whole" /\ Parses(Whole(c))
  /\ Empty.config = Default /\ Empty.state = "empty" /\ Parses(Empty)
  /\ Invalid.state = "invalid"
<1>1. Default \in Configs /\ Default.unknown = {}
  BY DEF Default, Configs
<1> QED BY <1>1 DEF InodeContents, Empty, Mixed, Invalid, Whole, Parses

\* A command changes settings and servers; what it does not know stays.
LEMMA UpdateTyped ==
  ASSUME NEW cmd \in CommandSet, NEW c \in Configs
  PROVE  /\ Update(cmd, c) \in Configs
         /\ cmd.op # "reset" /\ cmd.op # "edit" => Update(cmd, c).unknown = c.unknown
<1>1. CASE cmd \in {Set(k, v) : k \in Settings, v \in Values \cup {None}}
  <2>1. PICK k \in Settings, v \in Values \cup {None} : cmd = Set(k, v)
    BY <1>1
  <2>2. cmd.op = "set" /\ cmd.key = k /\ cmd.value = v
    BY <2>1 DEF Set
  <2>3. Update(cmd, c) = [c EXCEPT !.known[k] = v]
    BY <2>2 DEF Update
  <2> QED BY <2>3 DEF Configs
<1>2. CASE cmd \in {Mcp(op, s) : op \in {"add", "remove", "enable", "disable"}, s \in Servers}
  <2>1. PICK op \in {"add", "remove", "enable", "disable"}, s \in Servers : cmd = Mcp(op, s)
    BY <1>2
  <2>2. cmd.op = op /\ cmd.server = s
    BY <2>1 DEF Mcp
  <2>3. PICK v \in {"none", "on", "off"} : Update(cmd, c) = [c EXCEPT !.servers[s] = v]
    BY <2>2 DEF Update
  <2> QED BY <2>3 DEF Configs
<1>3. CASE cmd \in {[op |-> "reset"], [op |-> "edit"]}
  <2>1. cmd.op \in {"reset", "edit"}
    BY <1>3
  <2>2. Update(cmd, c) = Default
    BY <2>1 DEF Update
  <2> QED BY <2>1, <2>2, ContentsTyped
<1> QED BY <1>1, <1>2, <1>3 DEF CommandSet

\* Only a reset and an edit bring all defaults.
LEMMA ResetUpdate ==
  ASSUME NEW cmd, cmd.op = "reset", NEW c
  PROVE  Update(cmd, c) = Default
BY DEF Update

\* Merging back the unknown sections of the file undoes their loss.
LEMMA MergeRestores ==
  ASSUME NEW c \in Configs
  PROVE  [[c EXCEPT !.unknown = {}] EXCEPT !.unknown = c.unknown] = c
BY DEF Configs

LEMMA FoundTyped ==
  ASSUME StoreTypeOK
  PROVE  Found \in InodeContents /\ Found.config \in Configs
<1>1. Found \in InodeContents
  BY ContentsTyped DEF StoreTypeOK, Found
<1> QED BY <1>1 DEF InodeContents

LEMMA RestTyped ==
  Rest \in ProcStates /\ Rest.at = "idle" /\ Rest.fd = 0
BY ContentsTyped DEF Rest, ProcStates, Cmds, Places

\* The process that moves is the only one.
LEMMA Moves ==
  ASSUME StoreInv, NEW p \in Procs, NEW n \in ProcStates,
         \A q \in Procs \ {p} : At(q, "idle"),
         procs' = [procs EXCEPT ![p] = n],
         config' \in {0} \cup Inodes, tmp' \in {0} \cup Inodes,
         inodes' \in [Inodes -> InodeContents], expected' \in InodeContents,
         tmp' # 0 => tmp' # config',
         IF n.at = "idle" THEN n = Rest ELSE n.cmd \in CommandSet,
         IF n.at \in {"write", "rename"} THEN n.fd = tmp' /\ tmp' # 0 ELSE n.fd = 0,
         Pending(p)', Kept', Sound'
  PROVE  StoreInv'
<1> USE DEF StoreInv
<1>1. /\ procs' \in [Procs -> ProcStates] /\ procs'[p] = n
      /\ \A q \in Procs \ {p} : procs'[q] = procs[q]
  BY DEF StoreTypeOK
<1>2. StoreTypeOK'
  BY <1>1 DEF StoreTypeOK
<1>3. \A q \in Procs \ {p} : procs'[q] = Rest /\ procs'[q].at = "idle" /\ procs'[q].fd = 0
  BY <1>1, RestTyped DEF OneAtATime
<1>4. OneAtATime'
  BY <1>1, <1>3 DEF OneAtATime, At
<1>5. ASSUME NEW q \in Procs \ {p} PROVE Pending(q)'
  BY <1>3 DEF Pending
<1> QED BY <1>2, <1>4, <1>5

\* A process that returns leaves nothing pending.
LEMMA Returned ==
  ASSUME StoreInv, NEW p \in Procs, Return(p)
  PROVE  /\ procs' = [procs EXCEPT ![p] = Rest] /\ Pending(p)'
<1>1. procs'[p].at = "idle"
  BY RestTyped DEF Return, StoreInv, StoreTypeOK
<1> QED BY <1>1 DEF Return, Pending

(***************************************************************************)
(* The steps.                                                              *)
(***************************************************************************)
LEMMA Alone ==
  ASSUME StoreInv, NEW p \in Procs, ~At(p, "idle")
  PROVE  \A q \in Procs \ {p} : At(q, "idle")
BY DEF StoreInv, OneAtATime

\* A step that leaves the files alone.
LEMMA FilesStay ==
  ASSUME StoreInv, UNCHANGED <<config, tmp, inodes, expected>>
  PROVE  /\ config' \in {0} \cup Inodes /\ tmp' \in {0} \cup Inodes
         /\ inodes' \in [Inodes -> InodeContents] /\ expected' \in InodeContents
         /\ tmp' # 0 => tmp' # config'
         /\ Found' = Found /\ Kept' /\ Sound'
BY DEF StoreInv, StoreTypeOK, OneAtATime, Kept, Sound, Found

LEMMA BeginKeeps ==
  ASSUME StoreInv, ~Overlap, NEW p \in Procs, Begin(p)
  PROVE  StoreInv'
<1>1. PICK cmd \in CommandSet :
        procs' = [procs EXCEPT ![p] = [Rest EXCEPT !.at = "load", !.cmd = cmd]]
  BY DEF Begin
<1> DEFINE n == [Rest EXCEPT !.at = "load", !.cmd = cmd]
<1>2. n \in ProcStates /\ n.at = "load" /\ n.cmd = cmd /\ n.fd = 0
  BY ContentsTyped DEF Rest, ProcStates, Cmds, Places
<1>3. \A q \in Procs \ {p} : At(q, "idle")
  BY DEF Begin
<1>4. UNCHANGED <<config, tmp, inodes, expected>>
  BY DEF Begin
<1> HIDE DEF n
<1>5. procs' = [procs EXCEPT ![p] = n]
  BY <1>1 DEF n
<1>6. procs'[p] = n
  BY <1>5 DEF StoreInv, StoreTypeOK
<1>7. Pending(p)'
  BY <1>2, <1>6 DEF Pending
<1> QED BY <1>2, <1>3, <1>4, <1>5, <1>7, FilesStay, Moves

LEMMA LoadKeeps ==
  ASSUME StoreInv, NEW p \in Procs, Load(p)
  PROVE  StoreInv'
<1> DEFINE cmd == procs[p].cmd
           place == CASE cmd.op = "reset" -> "remove"
                      [] cmd.op = "edit" -> "edit"
                      [] OTHER -> "save"
           changed == Update(cmd, Found.config)
           raw == [changed EXCEPT !.unknown = {}]
           n == [procs[p] EXCEPT !.at = place, !.raw = raw]
<1>1. At(p, "load") /\ cmd \in CommandSet /\ procs[p].fd = 0 /\ procs[p] \in ProcStates
  BY DEF Load, StoreInv, StoreTypeOK, OneAtATime, At
<1>2. changed \in Configs
  BY <1>1, FoundTyped, UpdateTyped DEF StoreInv
<1>3. raw \in Configs /\ (cmd.op = "reset" => raw = Default)
  <2>1. raw \in Configs
    BY <1>2 DEF Configs
  <2>2. cmd.op = "reset" => raw = [Default EXCEPT !.unknown = {}]
    BY ResetUpdate
  <2>3. [Default EXCEPT !.unknown = {}] = Default
    BY DEF Default
  <2> QED BY <2>1, <2>2, <2>3
<1>4. /\ place \in {"remove", "edit", "save"}
      /\ place = "remove" <=> cmd.op = "reset"
      /\ place = "save" => cmd.op \notin {"reset", "edit"}
  OBVIOUS
<1>5. procs' = [procs EXCEPT ![p] = n]
  BY DEF Load, StoreInv, StoreTypeOK
<1> HIDE DEF place, raw
<1>6. n \in ProcStates /\ n.at = place /\ n.cmd = cmd /\ n.raw = raw /\ n.fd = 0
  BY <1>1, <1>3, <1>4 DEF ProcStates, Places
<1> HIDE DEF n
<1>7. procs'[p] = n
  BY <1>5 DEF StoreInv, StoreTypeOK
<1>8. UNCHANGED <<config, tmp, inodes, expected>> /\ Parses(Found)
  BY DEF Load
<1>9. Found' = Found /\ Parses(Found)'
  BY <1>8, FilesStay
<1>10. Pending(p)'
  <2>1. procs'[p].at = place /\ procs'[p].cmd = cmd /\ procs'[p].raw = raw
    BY <1>6, <1>7
  <2> HIDE DEF cmd
  <2>2. place = "save" => raw = [Update(cmd, Found.config) EXCEPT !.unknown = {}]
    BY DEF raw
  <2> QED BY <1>3, <1>4, <1>9, <2>1, <2>2 DEF Pending
<1>11. \A q \in Procs \ {p} : At(q, "idle")
  BY <1>1, Alone DEF At
<1> QED
  BY <1>1, <1>4, <1>5, <1>6, <1>8, <1>10, <1>11, FilesStay, Moves

LEMMA RefuseKeeps ==
  ASSUME StoreInv, NEW p \in Procs, ~At(p, "idle"), Return(p),
         UNCHANGED <<config, tmp, inodes, expected>>
  PROVE  StoreInv'
BY Alone, RestTyped, Returned, FilesStay, Moves

LEMMA LoadAgainKeeps ==
  ASSUME StoreInv, NEW p \in Procs, LoadAgain(p)
  PROVE  StoreInv'
<1>1. UNCHANGED <<config, tmp, inodes, expected>> /\ At(p, "save")
  BY DEF LoadAgain
<1>2. CASE Parses(Found)
  <2> DEFINE n == [procs[p] EXCEPT !.at = "merge"]
  <2>1. "merge" \in Places /\ procs[p].raw \in Configs /\ Goto(p, "merge")
    BY <1>2 DEF LoadAgain, Places, StoreInv, StoreTypeOK, ProcStates
  <2>2. /\ n \in ProcStates /\ procs' = [procs EXCEPT ![p] = n] /\ procs'[p] = n
        /\ n.at = "merge" /\ n.raw = procs[p].raw /\ n.cmd = procs[p].cmd /\ n.fd = procs[p].fd
    <3>1. procs[p] \in ProcStates /\ DOMAIN procs = Procs
      BY DEF StoreInv, StoreTypeOK
    <3>2. /\ n \in ProcStates /\ n.at = "merge" /\ n.raw = procs[p].raw
          /\ n.cmd = procs[p].cmd /\ n.fd = procs[p].fd
      BY <2>1, <3>1 DEF ProcStates
    <3>3. procs' = [procs EXCEPT ![p] = n]
      BY <2>1, <3>1 DEF Goto
    <3> QED BY <3>1, <3>2, <3>3
  <2> HIDE DEF n
  <2>3. Found' = Found /\ Parses(Found)'
    BY <1>1, <1>2, FilesStay
  <2>4. Pending(p) /\ procs[p].at = "save"
    BY <1>1 DEF StoreInv, At
  <2>5. Pending(p)'
    BY <2>2, <2>3, <2>4 DEF Pending
  <2>6. n.cmd \in CommandSet /\ n.fd = 0 /\ ~At(p, "idle")
    BY <2>2, <2>4 DEF StoreInv, OneAtATime, At
  <2> QED BY <1>1, <2>2, <2>5, <2>6, Alone, FilesStay, Moves
<1>3. CASE ~Parses(Found)
  BY <1>1, <1>3, RefuseKeeps DEF LoadAgain, At
<1> QED BY <1>2, <1>3

LEMMA RemoveKeeps ==
  ASSUME StoreInv, NEW p \in Procs, Remove(p)
  PROVE  StoreInv'
<1> DEFINE n == [procs[p] EXCEPT !.at = "merge"]
<1>1. /\ At(p, "remove") /\ config' = 0 /\ expected' = Empty
      /\ UNCHANGED <<tmp, inodes>>
  BY DEF Remove
<1>2. "merge" \in Places /\ procs[p].raw \in Configs /\ Goto(p, "merge")
  BY DEF Remove, Places, StoreInv, StoreTypeOK, ProcStates
<1>3. /\ n \in ProcStates /\ procs' = [procs EXCEPT ![p] = n] /\ procs'[p] = n
      /\ n.at = "merge" /\ n.raw = procs[p].raw /\ n.cmd = procs[p].cmd /\ n.fd = procs[p].fd
  <2>1. procs[p] \in ProcStates /\ DOMAIN procs = Procs
    BY DEF StoreInv, StoreTypeOK
  <2>2. /\ n \in ProcStates /\ n.at = "merge" /\ n.raw = procs[p].raw
        /\ n.cmd = procs[p].cmd /\ n.fd = procs[p].fd
    BY <1>2, <2>1 DEF ProcStates
  <2>3. procs' = [procs EXCEPT ![p] = n]
    BY <1>2, <2>1 DEF Goto
  <2> QED BY <2>1, <2>2, <2>3
<1> HIDE DEF n
<1>4. Found' = Empty /\ Kept' /\ Sound'
  BY <1>1 DEF Found, Kept, Sound
<1>5. procs[p].cmd.op = "reset" /\ procs[p].raw = Default
  BY <1>1 DEF StoreInv, Pending, At
<1>6. Pending(p)'
  BY <1>3, <1>4, <1>5, ContentsTyped DEF Pending
<1>7. /\ n.cmd \in CommandSet /\ n.fd = 0 /\ ~At(p, "idle")
      /\ config' \in {0} \cup Inodes /\ tmp' \in {0} \cup Inodes
      /\ inodes' \in [Inodes -> InodeContents] /\ expected' \in InodeContents
      /\ tmp' # 0 => tmp' # config'
  BY <1>1, <1>3, ContentsTyped DEF StoreInv, StoreTypeOK, OneAtATime, At
<1> QED BY <1>3, <1>4, <1>6, <1>7, Alone, Moves

LEMMA MergeKeeps ==
  ASSUME StoreInv, NEW p \in Procs, Merge(p)
  PROVE  StoreInv'
<1> DEFINE raw == [procs[p].raw EXCEPT !.unknown = unknown_top_level_entries]
           n == [procs[p] EXCEPT !.at = "open", !.raw = raw]
           cmd == procs[p].cmd
<1>1. At(p, "merge") /\ UNCHANGED <<config, tmp, inodes, expected>>
  BY DEF Merge
<1>2. /\ procs[p].raw \in Configs /\ "open" \in Places /\ Parses(Found) /\ Pending(p)
      /\ cmd \in CommandSet /\ procs[p].fd = 0 /\ ~At(p, "idle")
  BY <1>1 DEF StoreInv, StoreTypeOK, ProcStates, Places, Pending, OneAtATime, At
<1>3. unknown_top_level_entries = Found.config.unknown /\ Found.config \in Configs
  BY <1>2, FoundTyped DEF unknown_top_level_entries, StoreInv
<1>4. raw \in Configs
  BY <1>2, <1>3 DEF Configs
<1>5. raw = IF cmd.op = "reset" THEN Default ELSE Update(cmd, Found.config)
  <2>1. CASE cmd.op = "reset"
    <3>1. procs[p].raw = Default /\ Found = Empty
      BY <1>1, <1>2, <2>1 DEF Pending, At
    <3>2. unknown_top_level_entries = {}
      BY <1>3, <3>1, ContentsTyped
    <3>3. raw = [Default EXCEPT !.unknown = {}]
      BY <3>1, <3>2
    <3> QED BY <2>1, <3>3 DEF Default
  <2>2. CASE cmd.op # "reset"
    <3>1. procs[p].raw = [Update(cmd, Found.config) EXCEPT !.unknown = {}]
      BY <1>1, <1>2, <2>2 DEF Pending, At
    <3>2. Update(cmd, Found.config) \in Configs
      BY <1>2, <1>3, UpdateTyped
    <3>3. CASE cmd.op = "edit"
      BY <1>1, <1>2, <3>3 DEF Pending, At
    <3>4. CASE cmd.op # "edit"
      <4>1. Update(cmd, Found.config).unknown = Found.config.unknown
        BY <1>2, <1>3, <2>2, <3>4, UpdateTyped
      <4> QED BY <1>3, <2>2, <3>1, <3>2, <4>1, MergeRestores
    <3> QED BY <3>3, <3>4
  <2> QED BY <2>1, <2>2
<1>6. procs' = [procs EXCEPT ![p].at = "open", ![p].raw = raw]
  <2>1. procs[p] \in ProcStates /\ DOMAIN procs = Procs
    BY DEF StoreInv, StoreTypeOK
  <2> HIDE DEF raw
  <2>2. procs' = [procs EXCEPT ![p].at = "open", ![p].raw.unknown = unknown_top_level_entries]
    BY DEF Merge
  <2> QED BY <2>1, <2>2 DEF raw, ProcStates
<1> HIDE DEF raw
<1>7. /\ n \in ProcStates /\ procs' = [procs EXCEPT ![p] = n] /\ procs'[p] = n
      /\ n.at = "open" /\ n.raw = raw /\ n.cmd = cmd /\ n.fd = procs[p].fd
  <2>1. procs[p] \in ProcStates /\ DOMAIN procs = Procs
    BY DEF StoreInv, StoreTypeOK
  <2>2. /\ n \in ProcStates /\ n.at = "open" /\ n.raw = raw
        /\ n.cmd = procs[p].cmd /\ n.fd = procs[p].fd
    BY <1>2, <1>4, <1>6, <2>1 DEF ProcStates
  <2>3. procs' = [procs EXCEPT ![p] = n]
    BY <1>2, <1>4, <1>6, <2>1 DEF Goto
  <2> QED BY <2>1, <2>2, <2>3
<1> HIDE DEF n, cmd
<1>8. Found' = Found /\ Parses(Found)'
  BY <1>1, <1>2, FilesStay
<1>9. Pending(p)'
  <2>1. cmd.op # "edit"
    BY <1>1, <1>2 DEF Pending, At, cmd
  <2> QED BY <1>5, <1>7, <1>8, <2>1 DEF Pending
<1> QED BY <1>1, <1>2, <1>7, <1>9, Alone, FilesStay, Moves

LEMMA OpenKeeps ==
  ASSUME StoreInv, IsFiniteSet(Procs), NEW p \in Procs, Open(p)
  PROVE  StoreInv'
<1> DEFINE i == IF tmp = 0 THEN Free ELSE tmp
           n == [procs[p] EXCEPT !.at = "write", !.fd = i]
           cmd == procs[p].cmd
<1>1. /\ At(p, "open") /\ tmp' = i /\ inodes' = [inodes EXCEPT ![i] = Empty]
      /\ procs' = [procs EXCEPT ![p].at = "write", ![p].fd = i]
      /\ UNCHANGED <<config, expected>>
  BY DEF Open
<1>2. /\ procs[p] \in ProcStates /\ DOMAIN procs = Procs /\ Pending(p) /\ cmd \in CommandSet
      /\ ~At(p, "idle") /\ Parses(Found) /\ procs[p].at = "open"
  BY <1>1 DEF StoreInv, StoreTypeOK, Pending, OneAtATime, At
<1>3. \A q \in Procs : procs[q].fd = 0
  BY <1>2, Alone DEF StoreInv, OneAtATime, At
<1>4. tmp = 0 => Free \in Inodes /\ Free # config
  <2>1. DOMAIN inodes = Inodes
    BY DEF StoreInv, StoreTypeOK
  <2>2. \E k \in Inodes : k \notin {config, tmp} \cup {procs[q].fd : q \in Procs}
    BY <1>3, Enough
  <2>3. Free \in Inodes /\ Free \notin {config, tmp} \cup {procs[q].fd : q \in Procs}
    BY <2>1, <2>2 DEF Free
  <2> QED BY <2>3
<1>5. i \in Inodes /\ i # config /\ i # 0
  BY <1>4 DEF StoreInv, StoreTypeOK, OneAtATime, Inodes
<1> HIDE DEF i, cmd
<1>6. /\ n \in ProcStates /\ procs' = [procs EXCEPT ![p] = n] /\ procs'[p] = n
      /\ n.at = "write" /\ n.raw = procs[p].raw /\ n.cmd = cmd /\ n.fd = i
  <2>1. "write" \in Places
    BY DEF Places
  <2>2. /\ n \in ProcStates /\ n.at = "write" /\ n.raw = procs[p].raw
        /\ n.cmd = procs[p].cmd /\ n.fd = i
    BY <1>2, <1>5, <2>1 DEF ProcStates
  <2>3. procs' = [procs EXCEPT ![p] = n]
    BY <1>1, <1>2
  <2> QED BY <1>2, <2>2, <2>3 DEF cmd
<1> HIDE DEF n
<1>7. inodes' \in [Inodes -> InodeContents] /\ inodes'[i] = Empty
      /\ \A k \in Inodes \ {i} : inodes'[k] = inodes[k]
  BY <1>1, <1>5, ContentsTyped DEF StoreInv, StoreTypeOK
<1>8. Found' = Found /\ Parses(Found)' /\ Kept' /\ Sound'
  BY <1>1, <1>2, <1>5, <1>7 DEF StoreInv, StoreTypeOK, Found, Kept, Sound
<1>9. Pending(p)'
  BY <1>2, <1>6, <1>7, <1>8, ContentsTyped DEF Pending, cmd
<1>10. /\ config' \in {0} \cup Inodes /\ tmp' \in {0} \cup Inodes /\ expected' \in InodeContents
       /\ tmp' # config' /\ tmp' # 0 /\ tmp' = i
  BY <1>1, <1>5 DEF StoreInv, StoreTypeOK
<1> QED BY <1>2, <1>6, <1>7, <1>8, <1>9, <1>10, Alone, Moves

LEMMA WriteKeeps ==
  ASSUME StoreInv, NEW p \in Procs, Write(p)
  PROVE  StoreInv'
<1> DEFINE i == procs[p].fd
           n == [procs[p] EXCEPT !.at = "rename"]
           cmd == procs[p].cmd
<1>1. At(p, "write") /\ UNCHANGED <<config, tmp, expected>> /\ Goto(p, "rename")
  BY DEF Write
<1>2. /\ procs[p] \in ProcStates /\ procs[p].raw \in Configs /\ Pending(p) /\ cmd \in CommandSet
      /\ ~At(p, "idle") /\ Parses(Found) /\ procs[p].at = "write" /\ "rename" \in Places
      /\ i = tmp /\ tmp # 0 /\ tmp # config /\ i \in Inodes /\ inodes[i].state = "empty"
  BY <1>1 DEF StoreInv, StoreTypeOK, Pending, OneAtATime, At, ProcStates, Places
<1>3. inodes' = [inodes EXCEPT ![i] = Whole(procs[p].raw)]
  BY <1>2 DEF Write
<1>4. /\ n \in ProcStates /\ procs' = [procs EXCEPT ![p] = n] /\ procs'[p] = n
      /\ n.at = "rename" /\ n.raw = procs[p].raw /\ n.cmd = procs[p].cmd /\ n.fd = procs[p].fd
  <2>1. procs[p] \in ProcStates /\ DOMAIN procs = Procs
    BY DEF StoreInv, StoreTypeOK
  <2>2. /\ n \in ProcStates /\ n.at = "rename" /\ n.raw = procs[p].raw
        /\ n.cmd = procs[p].cmd /\ n.fd = procs[p].fd
    BY <1>1, <1>2, <2>1 DEF ProcStates
  <2>3. procs' = [procs EXCEPT ![p] = n]
    BY <1>1, <1>2, <2>1 DEF Goto
  <2> QED BY <2>1, <2>2, <2>3
<1> HIDE DEF n
<1>5. /\ inodes' \in [Inodes -> InodeContents] /\ inodes'[i] = Whole(procs[p].raw)
      /\ \A k \in Inodes \ {i} : inodes'[k] = inodes[k]
  BY <1>2, <1>3, ContentsTyped DEF StoreInv, StoreTypeOK
<1>6. Found' = Found /\ Parses(Found)' /\ Kept' /\ Sound'
  BY <1>1, <1>2, <1>5 DEF StoreInv, StoreTypeOK, Found, Kept, Sound
<1>7. Pending(p)'
  BY <1>2, <1>4, <1>5, <1>6 DEF Pending
<1>8. /\ config' \in {0} \cup Inodes /\ tmp' \in {0} \cup Inodes /\ expected' \in InodeContents
      /\ tmp' # config' /\ tmp' # 0 /\ n.fd = tmp'
  BY <1>1, <1>2, <1>4 DEF StoreInv, StoreTypeOK
<1> QED BY <1>2, <1>4, <1>5, <1>6, <1>7, <1>8, Alone, Moves

LEMMA RenameKeeps ==
  ASSUME StoreInv, NEW p \in Procs, RenameTmp(p)
  PROVE  StoreInv'
<1> DEFINE cmd == procs[p].cmd
           new == IF cmd.op = "reset" THEN Default ELSE Update(cmd, expected.config)
<1>1. /\ procs[p] \in ProcStates /\ Pending(p) /\ procs[p].at = "rename"
      /\ ~At(p, "idle") /\ procs[p].fd = tmp /\ tmp # 0 /\ tmp \in Inodes
  BY DEF RenameTmp, StoreInv, StoreTypeOK, OneAtATime, At
<1>2. config' = tmp /\ tmp' = 0 /\ expected' = Whole(new) /\ Return(p) /\ inodes' = inodes
  BY <1>1 DEF RenameTmp
<1>3. inodes[tmp] = Whole(procs[p].raw) /\ procs[p].raw = new
  BY <1>1 DEF Pending, StoreInv, Kept
<1>4. procs[p].raw \in Configs
  BY <1>1 DEF ProcStates
<1>5. Found' = expected'
  BY <1>1, <1>2, <1>3 DEF Found, Inodes
<1>6. Kept' /\ Sound'
  BY <1>2, <1>3, <1>4, <1>5, ContentsTyped DEF Kept, Sound
<1>7. /\ config' \in {0} \cup Inodes /\ tmp' \in {0} \cup Inodes /\ expected' \in InodeContents
      /\ inodes' \in [Inodes -> InodeContents] /\ tmp' = 0
  BY <1>1, <1>2, <1>3, <1>4, ContentsTyped DEF StoreInv, StoreTypeOK
<1> QED BY <1>1, <1>2, <1>6, <1>7, Alone, Returned, RestTyped, Moves

LEMMA EditKeeps ==
  ASSUME StoreInv, IsFiniteSet(Procs), NEW p \in Procs, Edit(p)
  PROVE  StoreInv'
<1>1. PICK content \in {Invalid} \cup {Whole([Found.config EXCEPT !.unknown = S]) : S \in SUBSET Sections} :
        /\ config' = Free /\ inodes' = [inodes EXCEPT ![Free] = content] /\ expected' = content
  BY DEF Edit
<1>2. At(p, "edit") /\ Return(p) /\ tmp' = tmp /\ ~At(p, "idle")
  BY DEF Edit, At
<1>3. content \in InodeContents /\ content.state \in {"whole", "invalid"}
  <2>1. \A S \in SUBSET Sections : [Found.config EXCEPT !.unknown = S] \in Configs
    BY FoundTyped DEF StoreInv, Configs
  <2>2. CASE content = Invalid
    BY <2>2, ContentsTyped
  <2>3. CASE content # Invalid
    <3>1. PICK S \in SUBSET Sections : content = Whole([Found.config EXCEPT !.unknown = S])
      BY <1>1, <2>3
    <3> QED BY <2>1, <3>1, ContentsTyped
  <2> QED BY <2>2, <2>3
<1>4. \A q \in Procs : procs[q].fd = 0
  BY <1>2, Alone DEF StoreInv, OneAtATime, At
<1>5. Free \in Inodes /\ Free # tmp
  <2>1. DOMAIN inodes = Inodes
    BY DEF StoreInv, StoreTypeOK
  <2>2. \E k \in Inodes : k \notin {config, tmp} \cup {procs[q].fd : q \in Procs}
    BY <1>4, Enough
  <2>3. Free \in Inodes /\ Free \notin {config, tmp} \cup {procs[q].fd : q \in Procs}
    BY <2>1, <2>2 DEF Free
  <2> QED BY <2>3
<1>6. inodes' \in [Inodes -> InodeContents] /\ inodes'[config'] = content /\ config' # 0
  BY <1>1, <1>3, <1>5 DEF StoreInv, StoreTypeOK, Inodes
<1>7. Kept' /\ Sound'
  BY <1>1, <1>3, <1>6 DEF Kept, Found, Sound
<1>8. /\ config' \in {0} \cup Inodes /\ tmp' \in {0} \cup Inodes /\ expected' \in InodeContents
      /\ tmp' # 0 => tmp' # config'
  BY <1>1, <1>2, <1>3, <1>5 DEF StoreInv, StoreTypeOK
<1> QED BY <1>2, <1>6, <1>7, <1>8, Alone, Returned, RestTyped, Moves

LEMMA FailKeeps ==
  ASSUME StoreInv, NEW p \in Procs, Fail(p)
  PROVE  StoreInv'
<1>1. ~At(p, "idle") /\ Return(p) /\ UNCHANGED <<config, tmp, expected>>
  BY DEF Fail
<1>2. CASE inodes' = inodes
  BY <1>1, <1>2, RefuseKeeps
<1>3. CASE At(p, "write") /\ inodes' = [inodes EXCEPT ![procs[p].fd] = Mixed]
  <2>1. procs[p].fd = tmp /\ tmp # 0 /\ tmp # config /\ tmp \in Inodes
    BY <1>3 DEF StoreInv, StoreTypeOK, OneAtATime, At
  <2>2. inodes' \in [Inodes -> InodeContents] /\ \A k \in Inodes \ {tmp} : inodes'[k] = inodes[k]
    BY <1>3, <2>1, ContentsTyped DEF StoreInv, StoreTypeOK
  <2>3. Kept' /\ Sound'
    BY <1>1, <2>1, <2>2 DEF StoreInv, StoreTypeOK, Found, Kept, Sound
  <2>4. /\ config' \in {0} \cup Inodes /\ tmp' \in {0} \cup Inodes /\ expected' \in InodeContents
        /\ tmp' # 0 => tmp' # config'
    BY <1>1 DEF StoreInv, StoreTypeOK, OneAtATime
  <2> QED BY <1>1, <2>2, <2>3, <2>4, Alone, Returned, RestTyped, Moves
<1> QED BY <1>2, <1>3 DEF Fail

LEMMA NextKeeps ==
  ASSUME ~Overlap, IsFiniteSet(Procs), StoreInv, [StoreNext]_storeVars
  PROVE  StoreInv'
<1>1. ASSUME NEW p \in Procs, Step(p) PROVE StoreInv'
  <2>1. CASE Refuse(p)
    BY <2>1, RefuseKeeps DEF Refuse, At
  <2> QED
    BY <1>1, <2>1, BeginKeeps, LoadKeeps, LoadAgainKeeps, RemoveKeeps, MergeKeeps,
       OpenKeeps, WriteKeeps, RenameKeeps, EditKeeps, FailKeeps DEF Step
<1>2. CASE UNCHANGED storeVars
  BY <1>2 DEF storeVars, StoreInv, StoreTypeOK, OneAtATime, Pending, Kept, Sound, Found, At
<1> QED BY <1>1, <1>2 DEF StoreNext

LEMMA InitHolds ==
  ASSUME IsFiniteSet(Procs), StoreInit
  PROVE  StoreInv
<1>1. [Default EXCEPT !.unknown = Sections] \in Configs
  BY ContentsTyped DEF Configs
<1>2. expected \in InodeContents /\ (config # 0 => expected.state = "whole")
  BY <1>1, ContentsTyped DEF StoreInit
<1>3. Cardinality(Procs) \in Nat
  BY FS_CardinalityType
<1>4. config \in {0} \cup Inodes /\ tmp = 0
  BY <1>3 DEF StoreInit, Inodes
<1>5. inodes \in [Inodes -> InodeContents]
  BY <1>2, ContentsTyped DEF StoreInit, Inodes
<1>6. procs \in [Procs -> ProcStates]
  BY RestTyped DEF StoreInit
<1>7. Found = expected
  <2>1. CASE config = 0
    BY <2>1 DEF StoreInit, Found
  <2>2. CASE config # 0
    BY <1>4, <2>2 DEF StoreInit, Found, Inodes
  <2> QED BY <2>1, <2>2
<1>8. OneAtATime /\ \A p \in Procs : Pending(p)
  BY <1>4, RestTyped DEF StoreInit, OneAtATime, Pending, At
<1>9. Sound
  BY <1>2, <1>7 DEF Sound, Found
<1> QED BY <1>2, <1>4, <1>5, <1>6, <1>7, <1>8, <1>9 DEF StoreInv, StoreTypeOK, Kept

\* Commands that do not overlap, each with its steps and its place in them: the
\* inductive invariant.
THEOREM StoreInductive ==
  ASSUME ~Overlap
  PROVE  StoreSpec => []StoreInv
<1>1. StoreInit => StoreInv
  BY InitHolds, StoreAssumption
<1>2. StoreInv /\ [StoreNext]_storeVars => StoreInv'
  BY NextKeeps, StoreAssumption
<1> QED BY <1>1, <1>2, PTL DEF StoreSpec

\* Commands that run one after the other lose no setting, server or section,
\* whatever was killed or failed in between.
THEOREM ConfigAlwaysKept ==
  ASSUME ~Overlap
  PROVE  StoreSpec => []ConfigKept
<1>1. StoreInv => ConfigKept
  BY DEF StoreInv, Kept, ConfigKept
<1> QED BY <1>1, StoreInductive, PTL

\* save_config_to "Writes config atomically", as long as no two commands overlap.
THEOREM SavesAtomicAlone ==
  ASSUME ~Overlap
  PROVE  StoreSpec => []SavesAreAtomic
<1>1. StoreInv => SavesAreAtomic
  BY DEF StoreInv, Sound, SavesAreAtomic
<1> QED BY <1>1, StoreInductive, PTL
=============================================================================
