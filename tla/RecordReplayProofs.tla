------------------------- MODULE RecordReplayProofs -------------------------
(***************************************************************************)
(* Machine-checked proofs about what is recorded of a model's answer and   *)
(* how a recording is played back.                                         *)
(*                                                                         *)
(* Replay, for sessions of any length, any answers, tools and recordings:  *)
(* what it means that a replay passed, and that the comparisons of replay  *)
(* and diff agree.                                                         *)
(*                                                                         *)
(* ProviderStream, for answers of any length, cut into chunks anywhere:    *)
(* what the agent loop is given is what the model said, and what is        *)
(* journaled is what the agent loop was given.                             *)
(***************************************************************************)
EXTENDS Replay, ProviderStream, SequenceTheorems, FiniteSetTheorems, NaturalsInduction,
        WellFoundedInduction, TLAPS

(***************************************************************************)
(* Sequences as values, and the positions in them.                         *)
(***************************************************************************)
IsSeq(s) == s \in Seq({s[i] : i \in DOMAIN s})

LEMMA SeqFacts ==
  ASSUME NEW s, IsSeq(s)
  PROVE  /\ Len(s) \in Nat /\ DOMAIN s = 1..Len(s)
         /\ s = [i \in 1..Len(s) |-> s[i]]
         /\ (s = <<>>) <=> (Len(s) = 0)
<1> DEFINE S == {s[i] : i \in DOMAIN s}
<1>1. s \in Seq(S)
  BY DEF IsSeq
<1> HIDE DEF S
<1> QED BY <1>1

LEMMA SeqMade ==
  ASSUME NEW n \in Nat, NEW T, NEW f \in [1..n -> T]
  PROVE  IsSeq(f) /\ Len(f) = n /\ DOMAIN f = 1..n
<1> DEFINE S == {f[i] : i \in DOMAIN f}
<1>1. DOMAIN f = 1..n /\ f = [i \in 1..n |-> f[i]]
  OBVIOUS
<1>2. \A i \in 1..n : f[i] \in S
  BY <1>1
<1> HIDE DEF S
<1>3. f \in [1..n -> S]
  BY <1>1, <1>2
<1>4. f \in Seq(S) /\ Len(f) = n
  BY <1>1, <1>3
<1> QED BY <1>1, <1>4 DEF S, IsSeq

LEMMA SeqAppend ==
  ASSUME NEW s, IsSeq(s), NEW x
  PROVE  /\ IsSeq(Append(s, x)) /\ Len(Append(s, x)) = Len(s) + 1
         /\ \A i \in 1..Len(s) : Append(s, x)[i] = s[i]
         /\ Append(s, x)[Len(s) + 1] = x
<1> DEFINE T == {s[i] : i \in DOMAIN s} \cup {x}
           t == Append(s, x)
<1>1. s \in Seq(T) /\ x \in T
  BY DEF IsSeq
<1> HIDE DEF T
<1>2. /\ t \in Seq(T) /\ Len(t) = Len(s) + 1 /\ Len(s) \in Nat
      /\ \A i \in 1..Len(s) : t[i] = s[i]
      /\ t[Len(s) + 1] = x
  BY <1>1, AppendProperties
<1> HIDE DEF t
<1>3. t \in [1..(Len(s) + 1) -> T] /\ Len(s) + 1 \in Nat
  BY <1>2
<1>4. IsSeq(t)
  BY <1>3, SeqMade
<1> QED BY <1>2, <1>4 DEF t

LEMMA SeqConcat ==
  ASSUME NEW s, IsSeq(s), NEW t, IsSeq(t)
  PROVE  /\ IsSeq(s \o t) /\ Len(s \o t) = Len(s) + Len(t)
         /\ \A i \in 1..Len(s) : (s \o t)[i] = s[i]
         /\ \A i \in 1..Len(t) : (s \o t)[Len(s) + i] = t[i]
<1> DEFINE T == {s[i] : i \in DOMAIN s} \cup {t[i] : i \in DOMAIN t}
           u == s \o t
<1>1. s \in Seq(T) /\ t \in Seq(T)
  BY DEF IsSeq
<1> HIDE DEF T
<1>2. /\ u \in Seq(T) /\ Len(u) = Len(s) + Len(t) /\ Len(s) \in Nat /\ Len(t) \in Nat
      /\ \A i \in 1..Len(s) : u[i] = s[i]
      /\ \A i \in 1..Len(t) : u[Len(s) + i] = t[i]
  BY <1>1, ConcatProperties
<1> HIDE DEF u
<1>3. u \in [1..(Len(s) + Len(t)) -> T] /\ Len(s) + Len(t) \in Nat
  BY <1>2
<1>4. IsSeq(u)
  BY <1>3, SeqMade
<1> QED BY <1>2, <1>4 DEF u

LEMMA SeqOne ==
  ASSUME NEW x
  PROVE  IsSeq(<<x>>) /\ Len(<<x>>) = 1 /\ <<x>>[1] = x /\ DOMAIN <<x>> = 1..1
<1>1. <<x>> \in [1..1 -> {x}]
  OBVIOUS
<1> QED BY <1>1, SeqMade

LEMMA SeqNone == IsSeq(<<>>) /\ Len(<<>>) = 0 /\ DOMAIN <<>> = {}
<1>1. <<>> \in Seq({<<>>[i] : i \in DOMAIN <<>>})
  OBVIOUS
<1> QED BY <1>1 DEF IsSeq

LEMMA LeastNumber ==
  ASSUME NEW T \in SUBSET Nat, T # {}
  PROVE  \E m \in T : \A n \in T : m <= n
<1> DEFINE Less == {p \in Nat \X Nat : p[1] < p[2]}
<1>1. IsWellFoundedOn(Less, Nat)
  <2>1. OpToRel(<, Nat) = Less
    BY DEF OpToRel
  <2> QED BY <2>1, NatLessThanWellFounded
<1> HIDE DEF Less
<1>2. PICK m \in T : \A n \in T : <<n, m>> \notin Less
  BY <1>1, WFMin, Zenon
<1>3. ASSUME NEW n \in T PROVE m <= n
  <2>1. <<n, m>> \in Nat \X Nat /\ <<n, m>>[1] = n /\ <<n, m>>[2] = m
    OBVIOUS
  <2> QED BY <1>2, <2>1 DEF Less
<1> QED BY <1>3

(***************************************************************************)
(* Finite sets of numbers.                                                 *)
(***************************************************************************)
LEMMA FinitePart ==
  ASSUME NEW n \in Nat, NEW S \in SUBSET (1..n)
  PROVE  IsFiniteSet(S) /\ Cardinality(S) \in Nat /\ Cardinality(S) <= n
<1>1. IsFiniteSet(1..n) /\ Cardinality(1..n) = n
  BY FS_Interval
<1> QED BY <1>1, FS_Subset, FS_CardinalityType

\* A set of numbers has one of every rank.
LEMMA Ranked ==
  ASSUME NEW n \in Nat, NEW S \in SUBSET (1..n), NEW r \in 1..Cardinality(S)
  PROVE  \E p \in S : Cardinality({q \in S : q <= p}) = r
<1> DEFINE Good(m) == \A T \in SUBSET (1..m) : \A k \in 1..Cardinality(T) :
                        \E p \in T : Cardinality({q \in T : q <= p}) = k
           Bad == {m \in Nat : ~Good(m)}
<1>1. SUFFICES Bad = {}
  <2>1. SUFFICES ASSUME Bad = {} PROVE Good(n)
    BY Zenon
  <2> HIDE DEF Good
  <2> QED BY <2>1
<1>2. SUFFICES ASSUME Bad # {} PROVE FALSE
  OBVIOUS
<1>3. PICK m \in Bad : \A j \in Bad : m <= j
  BY <1>2, LeastNumber
<1>3a. PICK T \in SUBSET (1..m) :
         \E k \in 1..Cardinality(T) : \A p \in T : Cardinality({q \in T : q <= p}) # k
  BY <1>3, ZenonT(60)
<1>4. PICK k \in 1..Cardinality(T) : \A p \in T : Cardinality({q \in T : q <= p}) # k
  BY <1>3a
<1>5. IsFiniteSet(T) /\ Cardinality(T) \in Nat /\ Cardinality(T) # 0
  <2>1. m \in Nat
    BY <1>3
  <2>2. IsFiniteSet(T) /\ Cardinality(T) \in Nat
    BY <2>1, FinitePart
  <2> QED BY <2>2, <1>4
<1>6. m # 0
  <2>1. CASE m = 0
    <3>1. T = {}
      BY <2>1
    <3> QED BY <3>1, <1>5, FS_EmptySet
  <2> QED BY <2>1
<1>7. m - 1 \in Nat /\ Good(m - 1)
  <2> HIDE DEF Good
  <2>1. m \in Nat /\ m - 1 \in Nat /\ ~(m <= m - 1)
    BY <1>3, <1>6
  <2> QED BY <1>3, <2>1
<1>8. CASE m \notin T
  <2>1. T \in SUBSET (1..(m - 1))
    BY <1>8
  <2> QED BY <2>1, <1>4, <1>7
<1>9. CASE m \in T
  <2> DEFINE U == T \ {m}
  <2>1. U \in SUBSET (1..(m - 1))
    OBVIOUS
  <2>2. IsFiniteSet(U) /\ Cardinality(U) = Cardinality(T) - 1
    BY <1>5, <1>9, FS_RemoveElement
  <2>3. CASE k = Cardinality(T)
    <3>1. {q \in T : q <= m} = T
      <4>1. m \in Nat /\ \A q \in T : q <= m
        BY <1>3
      <4> QED BY <4>1
    <3> QED BY <3>1, <2>3, <1>4, <1>9
  <2>4. CASE k # Cardinality(T)
    <3>1. k \in 1..Cardinality(U)
      BY <2>4, <2>2, <1>4, <1>5
    <3>2. PICK p \in U : Cardinality({q \in U : q <= p}) = k
      BY <3>1, <2>1, <1>7
    <3>3. {q \in T : q <= p} = {q \in U : q <= p}
      BY <2>1
    <3> QED BY <3>2, <3>3, <1>4
  <2> QED BY <2>3, <2>4
<1> QED BY <1>8, <1>9

\* Two parts of a sequence are counted together.
Shifted(a, B) == {a + k : k \in B}

LEMMA ShiftedCount ==
  ASSUME NEW a \in Nat, NEW A \in SUBSET (1..a), NEW B \in SUBSET (Nat \ {0}), IsFiniteSet(B)
  PROVE  Cardinality(A \cup Shifted(a, B)) = Cardinality(A) + Cardinality(B)
<1> DEFINE C == Shifted(a, B)
           f == [k \in B |-> a + k]
<1>1. IsFiniteSet(A) /\ Cardinality(A) \in Nat /\ Cardinality(B) \in Nat
  BY FinitePart, FS_CardinalityType
<1>2. f \in Bijection(B, C)
  <2>1. f \in [B -> C] /\ \A x, y \in B : f[x] = f[y] => x = y
    BY DEF Shifted
  <2>2. \A c \in C : \E k \in B : f[k] = c
    BY DEF Shifted
  <2> HIDE DEF f, C
  <2> QED BY <2>1, <2>2 DEF Bijection, Injection, Surjection, IsInjective
<1>3. IsFiniteSet(C) /\ Cardinality(C) = Cardinality(B)
  BY <1>1, <1>2, FS_Bijection DEF ExistsBijection
<1>4. A \cap C = {}
  BY DEF Shifted
<1> HIDE DEF C
<1>5. Cardinality(A \cup C) = Cardinality(A) + Cardinality(C) - Cardinality(A \cap C)
  BY <1>1, <1>3, FS_Union
<1>6. Cardinality(A \cap C) = 0
  BY <1>4, FS_EmptySet
<1>7. Cardinality(A \cup C) = Cardinality(A) + Cardinality(B)
  BY <1>1, <1>3, <1>5, <1>6
<1> QED BY <1>7 DEF C

(***************************************************************************)
(* Events and histories as values.                                         *)
(***************************************************************************)
Kinds == {"SessionStart", "UserTurn", "ProviderCall", "ToolCall", "PermissionGate",
          "AssistantTurn", "SessionEnd"}

IsAttempt(a) ==
  /\ a.stream = a.response
  /\ a.status = "Success" => a.error = None /\ IsSeq(a.response[1].calls)

IsCall(e) == IsSeq(e.attempts) /\ \A i \in 1..Len(e.attempts) : IsAttempt(e.attempts[i])

IsEvent(e) == e.kind \in Kinds /\ (e.kind = "ProviderCall" => IsCall(e))

IsHistory(h) == IsSeq(h) /\ \A n \in 1..Len(h) : IsEvent(h[n])

\* The model calls of a replay that goes on: one attempt, a success.
PlaysOnce(e) ==
  e.kind = "ProviderCall" => Len(e.attempts) = 1 /\ e.attempts[1].status = "Success"

AllPlayed(h) == \A n \in 1..Len(h) : PlaysOnce(h[n])

NoEnd(h) == \A n \in 1..Len(h) : h[n].kind # "SessionEnd"

(***************************************************************************)
(* The comparisons.                                                        *)
(***************************************************************************)
\* What the property Conduct keeps of one event.
Deed(e) ==
  CASE e.kind = "SessionStart" -> <<e.kind, e.cwd>>
    [] e.kind = "ProviderCall" -> <<e.kind, e.stream>>
    [] e.kind = "ToolCall" -> <<e.kind, e.tool, e.input, e.output>>
    [] e.kind = "PermissionGate" -> <<e.kind, e.decision, e.context>>
    [] e.kind = "AssistantTurn" -> <<e.kind, e.message, e.tool_calls>>
    [] OTHER -> <<e.kind>>

LEMMA ConductIsDeeds ==
  ASSUME NEW h PROVE Conduct(h) = [n \in DOMAIN h |-> Deed(h[n])]
BY DEF Conduct, Deed

SameFields(e, f) ==
  e.kind = f.kind /\ \A x \in DOMAIN ReplayFields[e.kind] : Field(e, x) = Field(f, x)

LEMMA FieldsDecide ==
  ASSUME NEW n, NEW e, NEW f
  PROVE  compare_event_pair(n, e, f) = {} <=> SameFields(e, f)
<1>1. CASE e.kind # f.kind
  BY <1>1 DEF compare_event_pair, SameFields
<1>2. CASE e.kind = f.kind
  <2> DEFINE F == ReplayFields[e.kind]
             D == Differing(F, e, f)
  <2>1. compare_event_pair(n, e, f) = {Divergence(Some(n), F[x]) : x \in D}
    BY <1>2, Zenon DEF compare_event_pair
  <2>2. D = {} <=> \A x \in DOMAIN F : Field(e, x) = Field(f, x)
    BY DEF Differing
  <2> HIDE DEF D, F
  <2>3. compare_event_pair(n, e, f) = {} <=> D = {}
    BY <2>1
  <2> QED BY <1>2, <2>2, <2>3 DEF SameFields, F
<1> QED BY <1>1, <1>2

\* The compared fields of each kind.
LEMMA FieldsOfKind ==
  /\ DOMAIN ReplayFields["SessionStart"] = {"cwd"}
  /\ DOMAIN ReplayFields["UserTurn"] = {"prompt"}
  /\ DOMAIN ReplayFields["ProviderCall"] = {"provider", "final_response", "stream"}
  /\ DOMAIN ReplayFields["ToolCall"] = {"tool", "input", "output"}
  /\ DOMAIN ReplayFields["PermissionGate"] = {"decision", "policy", "context"}
  /\ DOMAIN ReplayFields["AssistantTurn"] = {"message", "tool_calls"}
  /\ DOMAIN ReplayFields["SessionEnd"] = {"summary"}
<1>1. DOMAIN ReplayFields["SessionStart"] = {"cwd"}  BY DEF ReplayFields
<1>2. DOMAIN ReplayFields["UserTurn"] = {"prompt"}  BY DEF ReplayFields
<1>3. DOMAIN ReplayFields["ProviderCall"] = {"provider", "final_response", "stream"}
  BY DEF ReplayFields
<1>4. DOMAIN ReplayFields["ToolCall"] = {"tool", "input", "output"}  BY DEF ReplayFields
<1>5. DOMAIN ReplayFields["PermissionGate"] = {"decision", "policy", "context"}
  BY DEF ReplayFields
<1>6. DOMAIN ReplayFields["AssistantTurn"] = {"message", "tool_calls"}  BY DEF ReplayFields
<1>7. DOMAIN ReplayFields["SessionEnd"] = {"summary"}  BY DEF ReplayFields
<1> QED BY <1>1, <1>2, <1>3, <1>4, <1>5, <1>6, <1>7

LEMMA SameDeed ==
  ASSUME NEW e, NEW f, e.kind \in Kinds, SameFields(e, f)
  PROVE  Deed(e) = Deed(f) /\ e.kind = f.kind /\ (e.kind = "ToolCall" => e.tool = f.tool)
<1>1. e.kind = f.kind /\ \A x \in DOMAIN ReplayFields[e.kind] : Field(e, x) = Field(f, x)
  BY DEF SameFields
<1>2. CASE e.kind = "SessionStart"
  <2>1. Field(e, "cwd") = Field(f, "cwd")  BY <1>1, <1>2, FieldsOfKind
  <2> QED BY <1>1, <1>2, <2>1 DEF Deed, Field
<1>3. CASE e.kind = "UserTurn"
  BY <1>1, <1>3 DEF Deed
<1>4. CASE e.kind = "ProviderCall"
  <2>1. Field(e, "stream") = Field(f, "stream")  BY <1>1, <1>4, FieldsOfKind
  <2> QED BY <1>1, <1>4, <2>1 DEF Deed, Field
<1>5. CASE e.kind = "ToolCall"
  <2>1. /\ Field(e, "tool") = Field(f, "tool") /\ Field(e, "input") = Field(f, "input")
        /\ Field(e, "output") = Field(f, "output")
    BY <1>1, <1>5, FieldsOfKind
  <2> QED BY <1>1, <1>5, <2>1 DEF Deed, Field
<1>6. CASE e.kind = "PermissionGate"
  <2>1. Field(e, "decision") = Field(f, "decision") /\ Field(e, "context") = Field(f, "context")
    BY <1>1, <1>6, FieldsOfKind
  <2> QED BY <1>1, <1>6, <2>1 DEF Deed, Field
<1>7. CASE e.kind = "AssistantTurn"
  <2>1. Field(e, "message") = Field(f, "message")
        /\ Field(e, "tool_calls") = Field(f, "tool_calls")
    BY <1>1, <1>7, FieldsOfKind
  <2> QED BY <1>1, <1>7, <2>1 DEF Deed, Field
<1>8. CASE e.kind = "SessionEnd"
  BY <1>1, <1>8 DEF Deed
<1> QED BY <1>2, <1>3, <1>4, <1>5, <1>6, <1>7, <1>8 DEF Kinds

LEMMA SameLength ==
  ASSUME NEW s, NEW r, IsSeq(s), IsSeq(r)
  PROVE  LengthDivergences(s, r) = {} <=> Len(s) = Len(r)
<1>1. Len(s) \in Nat /\ Len(r) \in Nat
  BY SeqFacts
<1>2. CASE Len(s) # Len(r)
  <2>1. Divergence(None, "EventCountMismatch") \in LengthDivergences(s, r)
    BY <1>2 DEF LengthDivergences
  <2> QED BY <1>2, <2>1
<1>3. CASE Len(s) = Len(r)
  <2>1. (Len(r) + 1)..Len(s) = {} /\ (Len(s) + 1)..Len(r) = {}
    BY <1>1, <1>3
  <2> QED BY <1>3, <2>1 DEF LengthDivergences
<1> QED BY <1>2, <1>3

LEMMA SharedIsAll ==
  ASSUME NEW s, NEW r, Len(s) = Len(r) PROVE Shared(s, r) = 1..Len(s)
BY DEF Shared

\* Default mode finds nothing when every pair of events has the same fields.
LEMMA DefaultDecides ==
  ASSUME NEW s, NEW r, IsSeq(s), IsSeq(r)
  PROVE  compare_default_mode(s, r) = {} <=>
           Len(s) = Len(r) /\ \A n \in 1..Len(s) : SameFields(s[n], r[n])
<1>1. compare_default_mode(s, r) = {} <=>
        /\ LengthDivergences(s, r) = {}
        /\ \A n \in Shared(s, r) : compare_event_pair(n, s[n], r[n]) = {}
  BY DEF compare_default_mode
<1> QED BY <1>1, SameLength, SharedIsAll, FieldsDecide

\* The pairs strict mode finds nothing in.
StrictFree(n, e, f) ==
  Projection(e) = Projection(f) \/ compare_event_pair_strict(n, e, f) = {}

LEMMA StrictDecides ==
  ASSUME NEW s, NEW r, IsSeq(s), IsSeq(r)
  PROVE  compare_strict_mode(s, r) = {} <=>
           Len(s) = Len(r) /\ \A n \in 1..Len(s) : StrictFree(n, s[n], r[n])
<1>1. compare_strict_mode(s, r) = {} <=>
        /\ LengthDivergences(s, r) = {}
        /\ \A n \in Shared(s, r) : StrictFree(n, s[n], r[n])
  BY DEF compare_strict_mode, StrictFree
<1> QED BY <1>1, SameLength, SharedIsAll

LEMMA SameProjection ==
  ASSUME NEW e, NEW f, Projection(e) = Projection(f)
  PROVE  e = f \/ (e.kind = "SessionStart" /\ f.kind = "SessionStart" /\ e.cwd = f.cwd)
<1>1. CASE e.kind # "SessionStart" /\ f.kind # "SessionStart"
  BY <1>1 DEF Projection
<1>2. CASE e.kind = "SessionStart" /\ f.kind = "SessionStart"
  <2>1. [kind |-> e.kind, cwd |-> e.cwd] = [kind |-> f.kind, cwd |-> f.cwd]
    BY <1>2 DEF Projection
  <2> QED BY <1>2, <2>1
<1>3. CASE e.kind = "SessionStart" /\ f.kind # "SessionStart"
  <2>1. [kind |-> e.kind, cwd |-> e.cwd] = f
    BY <1>3 DEF Projection
  <2>2. f.kind = e.kind
    BY <2>1
  <2> QED BY <1>3, <2>2
<1>4. CASE e.kind # "SessionStart" /\ f.kind = "SessionStart"
  <2>1. [kind |-> f.kind, cwd |-> f.cwd] = e
    BY <1>4 DEF Projection
  <2>2. f.kind = e.kind
    BY <2>1
  <2> QED BY <1>4, <2>2
<1> QED BY <1>1, <1>2, <1>3, <1>4

\* What strict mode compares of two model calls.
SameAttempt(a, b) == a.status = b.status /\ a.response = b.response /\ a.stream = b.stream

LEMMA StrictAttempts ==
  ASSUME NEW n, NEW a, NEW b
  PROVE  compare_attempt_fields(n, a, b) = {} <=> SameAttempt(a, b)
<1> DEFINE F == [status   |-> "AttemptStatusDivergence",
                 response |-> "AssistantContentMismatch",
                 stream   |-> "AssistantContentMismatch"]
           D == {g \in DOMAIN F : a[g] # b[g]}
<1>1. compare_attempt_fields(n, a, b) = {Divergence(Some(n), F[f]) : f \in D}
  BY Zenon DEF compare_attempt_fields
<1>2. D = {} <=> SameAttempt(a, b)
  <2>1. DOMAIN F = {"status", "response", "stream"}
    OBVIOUS
  <2> HIDE DEF F
  <2> QED BY <2>1 DEF SameAttempt
<1> HIDE DEF D, F
<1> QED BY <1>1, <1>2

SameCall(e, f) ==
  /\ e.provider = f.provider /\ Len(e.attempts) = Len(f.attempts) /\ e.stream = f.stream
  /\ \A i \in Shared(e.attempts, f.attempts) : SameAttempt(e.attempts[i], f.attempts[i])

LEMMA StrictCalls ==
  ASSUME NEW n, NEW e, NEW f, e.kind = "ProviderCall", f.kind = "ProviderCall"
  PROVE  compare_event_pair_strict(n, e, f) = {} <=> SameCall(e, f)
<1> DEFINE F == [provider      |-> "ContentReferenceMismatch",
                 attempt_count |-> "AttemptCountDivergence",
                 stream        |-> "AssistantContentMismatch"]
           D == Differing(F, e, f)
           A == UNION {compare_attempt_fields(n, e.attempts[i], f.attempts[i]) :
                         i \in Shared(e.attempts, f.attempts)}
<1>1. compare_event_pair_strict(n, e, f) = {Divergence(Some(n), F[x]) : x \in D} \cup A
  <2>1. {e.kind, f.kind} = {"ProviderCall"}
    OBVIOUS
  <2> QED BY <2>1, Zenon DEF compare_event_pair_strict
<1>2. D = {} <=> /\ e.provider = f.provider /\ Len(e.attempts) = Len(f.attempts)
                 /\ e.stream = f.stream
  <2>1. DOMAIN F = {"provider", "attempt_count", "stream"}
    OBVIOUS
  <2>2. /\ Field(e, "provider") = e.provider /\ Field(f, "provider") = f.provider
        /\ Field(e, "stream") = e.stream /\ Field(f, "stream") = f.stream
        /\ Field(e, "attempt_count") = Len(e.attempts)
        /\ Field(f, "attempt_count") = Len(f.attempts)
    BY DEF Field
  <2> HIDE DEF F
  <2> QED BY <2>1, <2>2 DEF Differing
<1>3. A = {} <=> \A i \in Shared(e.attempts, f.attempts) :
                   SameAttempt(e.attempts[i], f.attempts[i])
  BY StrictAttempts
<1> HIDE DEF A, D, F
<1> QED BY <1>1, <1>2, <1>3 DEF SameCall

LEMMA StrictOthers ==
  ASSUME NEW n, NEW e, NEW f, ~(e.kind = "ProviderCall" /\ f.kind = "ProviderCall")
  PROVE  compare_event_pair_strict(n, e, f) = {} <=> SameFields(e, f)
<1>1. {e.kind, f.kind} # {"ProviderCall"}
  OBVIOUS
<1> QED BY <1>1, FieldsDecide DEF compare_event_pair_strict

LEMMA StrictDeed ==
  ASSUME NEW n, NEW e, NEW f, e.kind \in Kinds, StrictFree(n, e, f)
  PROVE  Deed(e) = Deed(f) /\ e.kind = f.kind /\ (e.kind = "ToolCall" => e.tool = f.tool)
<1>1. CASE Projection(e) = Projection(f)
  <2>1. CASE e = f  BY <2>1
  <2>2. CASE e.kind = "SessionStart" /\ f.kind = "SessionStart" /\ e.cwd = f.cwd
    BY <2>2 DEF Deed
  <2> QED BY <1>1, <2>1, <2>2, SameProjection
<1>2. CASE compare_event_pair_strict(n, e, f) = {}
  <2>1. CASE e.kind = "ProviderCall" /\ f.kind = "ProviderCall"
    <3>1. e.stream = f.stream
      BY <1>2, <2>1, StrictCalls DEF SameCall
    <3> QED BY <2>1, <3>1 DEF Deed
  <2>2. CASE ~(e.kind = "ProviderCall" /\ f.kind = "ProviderCall")
    BY <1>2, <2>2, StrictOthers, SameDeed
  <2> QED BY <2>1, <2>2
<1> QED BY <1>1, <1>2 DEF StrictFree

\* A replay in which nothing was found did what the recorded session did.
LEMMA NothingFound ==
  ASSUME NEW mode, NEW s, NEW r, IsHistory(s), IsHistory(r), compare(mode, s, r) = {}
  PROVE  /\ Conduct(r) = Conduct(s) /\ Len(s) = Len(r)
         /\ \A n \in 1..Len(s) :
              s[n].kind = r[n].kind /\ (s[n].kind = "ToolCall" => s[n].tool = r[n].tool)
<1>1. IsSeq(s) /\ IsSeq(r) /\ \A n \in 1..Len(s) : s[n].kind \in Kinds
  BY DEF IsHistory, IsEvent
<1>2. /\ Len(s) = Len(r)
      /\ \A n \in 1..Len(s) : /\ Deed(s[n]) = Deed(r[n]) /\ s[n].kind = r[n].kind
                              /\ s[n].kind = "ToolCall" => s[n].tool = r[n].tool
  <2>1. CASE mode = "strict"
    <3>1. compare_strict_mode(s, r) = {}
      BY <2>1 DEF compare
    <3>2. Len(s) = Len(r) /\ \A n \in 1..Len(s) : StrictFree(n, s[n], r[n])
      BY <3>1, <1>1, StrictDecides
    <3> QED BY <3>2, <1>1, StrictDeed
  <2>2. CASE mode # "strict"
    <3>1. compare_default_mode(s, r) = {}
      BY <2>2 DEF compare
    <3>2. Len(s) = Len(r) /\ \A n \in 1..Len(s) : SameFields(s[n], r[n])
      BY <3>1, <1>1, DefaultDecides
    <3> QED BY <3>2, <1>1, SameDeed
  <2> QED BY <2>1, <2>2
<1>3. DOMAIN s = 1..Len(s) /\ DOMAIN r = 1..Len(s)
  BY <1>1, <1>2, SeqFacts
<1> QED BY <1>2, <1>3, ConductIsDeeds

(***************************************************************************)
(* Diff against strict mode.                                               *)
(***************************************************************************)
LEMMA DiffFieldsOfKind ==
  /\ DOMAIN DiffFields["SessionStart"] = {"cwd", "config"}
  /\ DOMAIN DiffFields["UserTurn"] = {"prompt"}
  /\ DOMAIN DiffFields["ProviderCall"] =
       {"provider", "attempt_count", "final_response", "stream"}
  /\ DOMAIN DiffFields["ToolCall"] = {"tool", "input", "output"}
  /\ DOMAIN DiffFields["PermissionGate"] = {"decision", "policy", "context"}
  /\ DOMAIN DiffFields["AssistantTurn"] = {"message", "tool_calls"}
  /\ DOMAIN DiffFields["SessionEnd"] = {"summary"}
<1>1. DOMAIN DiffFields["SessionStart"] = {"cwd", "config"}  BY DEF DiffFields
<1>2. DOMAIN DiffFields["UserTurn"] = {"prompt"}  BY DEF DiffFields
<1>3. DOMAIN DiffFields["ProviderCall"] =
        {"provider", "attempt_count", "final_response", "stream"}
  BY DEF DiffFields
<1>4. DOMAIN DiffFields["ToolCall"] = {"tool", "input", "output"}  BY DEF DiffFields
<1>5. DOMAIN DiffFields["PermissionGate"] = {"decision", "policy", "context"}
  BY DEF DiffFields
<1>6. DOMAIN DiffFields["AssistantTurn"] = {"message", "tool_calls"}  BY DEF DiffFields
<1>7. DOMAIN DiffFields["SessionEnd"] = {"summary"}  BY DEF DiffFields
<1> QED BY <1>1, <1>2, <1>3, <1>4, <1>5, <1>6, <1>7

\* No field of an event but an attempt's request is informational.
LEMMA FieldsMatter ==
  ASSUME NEW kind \in Kinds, NEW x \in DOMAIN DiffFields[kind]
  PROVE  DiffFields[kind][x] # "ProviderCallRequest"
<1>1. CASE kind = "SessionStart"
  <2>1. x \in {"cwd", "config"}  BY <1>1, DiffFieldsOfKind
  <2> QED BY <1>1, <2>1 DEF DiffFields
<1>2. CASE kind = "UserTurn"
  <2>1. x = "prompt"  BY <1>2, DiffFieldsOfKind
  <2> QED BY <1>2, <2>1 DEF DiffFields
<1>3. CASE kind = "ProviderCall"
  <2>1. x \in {"provider", "attempt_count", "final_response", "stream"}
    BY <1>3, DiffFieldsOfKind
  <2> QED BY <1>3, <2>1 DEF DiffFields
<1>4. CASE kind = "ToolCall"
  <2>1. x \in {"tool", "input", "output"}  BY <1>4, DiffFieldsOfKind
  <2> QED BY <1>4, <2>1 DEF DiffFields
<1>5. CASE kind = "PermissionGate"
  <2>1. x \in {"decision", "policy", "context"}  BY <1>5, DiffFieldsOfKind
  <2> QED BY <1>5, <2>1 DEF DiffFields
<1>6. CASE kind = "AssistantTurn"
  <2>1. x \in {"message", "tool_calls"}  BY <1>6, DiffFieldsOfKind
  <2> QED BY <1>6, <2>1 DEF DiffFields
<1>7. CASE kind = "SessionEnd"
  <2>1. x = "summary"  BY <1>7, DiffFieldsOfKind
  <2> QED BY <1>7, <2>1 DEF DiffFields
<1> QED BY <1>1, <1>2, <1>3, <1>4, <1>5, <1>6, <1>7 DEF Kinds

\* A difference that counts: neither a request nor the configuration.
Matters(d) == ~(is_informational(d) \/ d.field = "config")

DiffFree(n, e, f) ==
  e.kind = f.kind /\ \A d \in field_differences_at_position(n, e, f) : ~Matters(d)

LEMMA AttemptsMatter ==
  ASSUME NEW n, NEW a, NEW b
  PROVE  (\A d \in compare_attempt_pair(n, a, b) : ~Matters(d))
           <=> a.status = b.status /\ a.error = b.error
<1> DEFINE D == {g \in DOMAIN AttemptFields : a[g] # b[g]}
<1>1. compare_attempt_pair(n, a, b) = {Difference(n, g, AttemptFields[g]) : g \in D}
  BY Zenon DEF compare_attempt_pair
<1>2. DOMAIN AttemptFields = {"request", "status", "error"}
  BY DEF AttemptFields
<1>3. /\ Matters(Difference(n, "status", AttemptFields["status"]))
      /\ Matters(Difference(n, "error", AttemptFields["error"]))
      /\ ~Matters(Difference(n, "request", AttemptFields["request"]))
  BY DEF AttemptFields, Matters, Difference, is_informational
<1>4. (\A d \in compare_attempt_pair(n, a, b) : ~Matters(d))
        <=> "status" \notin D /\ "error" \notin D
  <2>1. D \subseteq {"request", "status", "error"}
    BY <1>2
  <2> HIDE DEF D
  <2> QED BY <1>1, <1>3, <2>1
<1> QED BY <1>2, <1>4

SameStatus(a, b) == a.status = b.status /\ a.error = b.error

LEMMA DiffDecides ==
  ASSUME NEW n, NEW e, NEW f, e.kind \in Kinds
  PROVE  DiffFree(n, e, f) <=>
           /\ e.kind = f.kind
           /\ \A x \in DOMAIN DiffFields[e.kind] \ {"config"} : Field(e, x) = Field(f, x)
           /\ e.kind = "ProviderCall" =>
                \A i \in Shared(e.attempts, f.attempts) :
                  SameStatus(e.attempts[i], f.attempts[i])
<1> DEFINE F == DiffFields[e.kind]
           D == Differing(F, e, f)
           A == IF e.kind = "ProviderCall"
                THEN UNION {compare_attempt_pair(n, e.attempts[i], f.attempts[i]) :
                              i \in Shared(e.attempts, f.attempts)}
                ELSE {}
           B == {Difference(n, x, F[x]) : x \in D}
<1>1. field_differences_at_position(n, e, f) = B \cup A
  BY Zenon DEF field_differences_at_position
<1>2. (\A d \in B : ~Matters(d)) <=>
        \A x \in DOMAIN F \ {"config"} : Field(e, x) = Field(f, x)
  <2>1. \A x \in DOMAIN F : Matters(Difference(n, x, F[x])) <=> x # "config"
    BY FieldsMatter DEF Matters, Difference, is_informational
  <2>2. D \subseteq DOMAIN F /\ \A x \in DOMAIN F : x \notin D <=> Field(e, x) = Field(f, x)
    BY DEF Differing
  <2> HIDE DEF D, F
  <2>3. (\A d \in B : ~Matters(d)) <=> \A x \in D : ~Matters(Difference(n, x, F[x]))
    OBVIOUS
  <2> QED BY <2>1, <2>2, <2>3
<1>3. (\A d \in A : ~Matters(d)) <=>
        (e.kind = "ProviderCall" =>
                \A i \in Shared(e.attempts, f.attempts) :
                  SameStatus(e.attempts[i], f.attempts[i]))
  <2>1. CASE e.kind = "ProviderCall"
    <3>1. A = UNION {compare_attempt_pair(n, e.attempts[i], f.attempts[i]) :
                              i \in Shared(e.attempts, f.attempts)}
      BY <2>1
    <3>2. (\A d \in A : ~Matters(d)) <=>
            \A i \in Shared(e.attempts, f.attempts) :
              \A d \in compare_attempt_pair(n, e.attempts[i], f.attempts[i]) : ~Matters(d)
      <4> HIDE DEF A
      <4> QED BY <3>1
    <3> QED BY <3>2, <2>1, AttemptsMatter DEF SameStatus
  <2>2. CASE e.kind # "ProviderCall"
    BY <2>2
  <2> QED BY <2>1, <2>2
<1> HIDE DEF A, B
<1>4. DiffFree(n, e, f) <=>
        e.kind = f.kind /\ (\A d \in A : ~Matters(d)) /\ \A d \in B : ~Matters(d)
  BY <1>1 DEF DiffFree
<1> QED BY <1>2, <1>3, <1>4 DEF F

\* Of a recorded call and one that was played once, strict mode and diff find the
\* same.
LEMMA CallsAgree ==
  ASSUME NEW n, NEW e, NEW f, IsEvent(e), IsEvent(f), PlaysOnce(f),
         e.kind = "ProviderCall", f.kind = "ProviderCall"
  PROVE  StrictFree(n, e, f) <=> DiffFree(n, e, f)
<1>1. /\ IsCall(e) /\ IsCall(f) /\ Len(f.attempts) = 1 /\ f.attempts[1].status = "Success"
      /\ e.kind \in Kinds
  BY DEF IsEvent, PlaysOnce
<1>2. DiffFree(n, e, f) <=>
        /\ e.provider = f.provider /\ Len(e.attempts) = Len(f.attempts) /\ e.stream = f.stream
        /\ LastOf(e.attempts).response = LastOf(f.attempts).response
        /\ \A i \in Shared(e.attempts, f.attempts) :
             SameStatus(e.attempts[i], f.attempts[i])
  <2>1. DOMAIN DiffFields[e.kind] \ {"config"} =
          {"provider", "attempt_count", "final_response", "stream"}
    BY DiffFieldsOfKind
  <2>2. \A g \in {e, f} :
          /\ Field(g, "provider") = g.provider /\ Field(g, "stream") = g.stream
          /\ Field(g, "attempt_count") = Len(g.attempts)
          /\ Field(g, "final_response") = LastOf(g.attempts).response
    BY DEF Field
  <2> QED BY <1>1, <2>1, <2>2, DiffDecides
<1>3. ASSUME Len(e.attempts) = 1
      PROVE  /\ Shared(e.attempts, f.attempts) = {1}
             /\ LastOf(e.attempts) = e.attempts[1] /\ LastOf(f.attempts) = f.attempts[1]
             /\ IsAttempt(e.attempts[1]) /\ IsAttempt(f.attempts[1])
  BY <1>1, <1>3 DEF Shared, LastOf, IsCall
<1>4. ASSUME SameCall(e, f) PROVE DiffFree(n, e, f)
  <2>1. Len(e.attempts) = 1
    BY <1>1, <1>4 DEF SameCall
  <2>2. SameAttempt(e.attempts[1], f.attempts[1])
    BY <1>3, <1>4, <2>1 DEF SameCall
  <2>3. SameStatus(e.attempts[1], f.attempts[1])
    BY <1>1, <1>3, <2>1, <2>2 DEF SameAttempt, IsAttempt, SameStatus
  <2>4. LastOf(e.attempts).response = LastOf(f.attempts).response
    BY <1>3, <2>1, <2>2 DEF SameAttempt
  <2> QED BY <1>2, <1>3, <1>4, <2>1, <2>3, <2>4 DEF SameCall
<1>5. ASSUME DiffFree(n, e, f) PROVE SameCall(e, f)
  <2>1. Len(e.attempts) = 1
    BY <1>1, <1>2, <1>5
  <2>2. SameAttempt(e.attempts[1], f.attempts[1])
    BY <1>2, <1>3, <1>5, <2>1 DEF SameAttempt, SameStatus, IsAttempt
  <2> QED BY <1>2, <1>3, <1>5, <2>1, <2>2 DEF SameCall
<1>6. ASSUME Projection(e) = Projection(f) PROVE SameCall(e, f)
  <2>1. e = f
    BY <1>6, SameProjection
  <2> QED BY <2>1 DEF SameCall, SameAttempt
<1>7. compare_event_pair_strict(n, e, f) = {} <=> SameCall(e, f)
  BY StrictCalls
<1> QED BY <1>4, <1>5, <1>6, <1>7 DEF StrictFree

LEMMA PairsAgree ==
  ASSUME NEW n, NEW e, NEW f, IsEvent(e), IsEvent(f), PlaysOnce(f)
  PROVE  StrictFree(n, e, f) <=> DiffFree(n, e, f)
<1>1. e.kind \in Kinds
  BY DEF IsEvent
<1>2. CASE e.kind # f.kind
  <2>1. ~StrictFree(n, e, f)
    BY <1>1, <1>2, StrictDeed
  <2> QED BY <1>2, <2>1 DEF DiffFree
<1>3. CASE e.kind = f.kind /\ e.kind = "ProviderCall"
  BY <1>3, CallsAgree
<1>4. CASE e.kind = f.kind /\ e.kind # "ProviderCall"
  <2>1. DiffFree(n, e, f) <=>
          \A x \in DOMAIN DiffFields[e.kind] \ {"config"} : Field(e, x) = Field(f, x)
    BY <1>1, <1>4, DiffDecides
  <2>2. DOMAIN DiffFields[e.kind] \ {"config"} = DOMAIN ReplayFields[e.kind]
    <3>1. CASE e.kind = "SessionStart"  BY <3>1, FieldsOfKind, DiffFieldsOfKind
    <3>2. CASE e.kind = "UserTurn"  BY <3>2, FieldsOfKind, DiffFieldsOfKind
    <3>3. CASE e.kind = "ToolCall"  BY <3>3, FieldsOfKind, DiffFieldsOfKind
    <3>4. CASE e.kind = "PermissionGate"  BY <3>4, FieldsOfKind, DiffFieldsOfKind
    <3>5. CASE e.kind = "AssistantTurn"  BY <3>5, FieldsOfKind, DiffFieldsOfKind
    <3>6. CASE e.kind = "SessionEnd"  BY <3>6, FieldsOfKind, DiffFieldsOfKind
    <3> QED BY <1>1, <1>4, <3>1, <3>2, <3>3, <3>4, <3>5, <3>6 DEF Kinds
  <2>3. DiffFree(n, e, f) <=> SameFields(e, f)
    BY <1>4, <2>1, <2>2 DEF SameFields
  <2>4. compare_event_pair_strict(n, e, f) = {} <=> SameFields(e, f)
    BY <1>4, StrictOthers
  <2>5. ASSUME Projection(e) = Projection(f) PROVE SameFields(e, f)
    <3>1. CASE e = f  BY <3>1 DEF SameFields
    <3>2. CASE e.kind = "SessionStart" /\ f.kind = "SessionStart" /\ e.cwd = f.cwd
      <4>1. DOMAIN ReplayFields[e.kind] = {"cwd"} /\ Field(e, "cwd") = Field(f, "cwd")
        BY <3>2, FieldsOfKind DEF Field
      <4> QED BY <3>2, <4>1 DEF SameFields
    <3> QED BY <2>5, <3>1, <3>2, SameProjection
  <2> QED BY <2>3, <2>4, <2>5 DEF StrictFree
<1> QED BY <1>2, <1>3, <1>4

LEMMA NoBreak ==
  ASSUME NEW s, NEW r, IsSeq(s), IsSeq(r)
  PROVE  StructuralBreak(s, r) = None <=>
           Len(s) = Len(r) /\ \A n \in 1..Len(s) : s[n].kind = r[n].kind
<1> DEFINE breaks == {n \in Shared(s, r) : s[n].kind # r[n].kind}
                     \cup (IF Len(s) # Len(r) THEN {Cardinality(Shared(s, r)) + 1} ELSE {})
<1>1. StructuralBreak(s, r) =
        IF breaks = {} THEN None
        ELSE Some(CHOOSE n \in breaks : \A m \in breaks : n <= m)
  BY Zenon DEF StructuralBreak
<1>2. breaks = {} <=> Len(s) = Len(r) /\ \A n \in 1..Len(s) : s[n].kind = r[n].kind
  BY SharedIsAll
<1> HIDE DEF breaks
<1>3. \A x : Some(x) # None
  BY DEF Some, None
<1> QED BY <1>1, <1>2, <1>3

\* Strict mode and diff give the same verdict on a recording and its replay.
LEMMA ComparisonsAgree ==
  ASSUME NEW s, NEW r, IsHistory(s), IsHistory(r), AllPlayed(r)
  PROVE  compare_strict_mode(s, r) = {} <=>
           /\ run_inner(s, r).structural_break = None
           /\ \A d \in run_inner(s, r).differences :
                is_informational(d) \/ d.field = "config"
<1>1. IsSeq(s) /\ IsSeq(r)
  BY DEF IsHistory
<1> DEFINE b == StructuralBreak(s, r)
           before == {n \in Shared(s, r) : b = None \/ n < b[1]}
           found == UNION {field_differences_at_position(n, s[n], r[n]) : n \in before}
<1>2. run_inner(s, r).structural_break = b /\ run_inner(s, r).differences = found
  BY Zenon DEF run_inner
<1>3. (\A d \in found : is_informational(d) \/ d.field = "config") <=>
        \A n \in before : \A d \in field_differences_at_position(n, s[n], r[n]) : ~Matters(d)
  BY DEF Matters
<1>4. b = None <=> Len(s) = Len(r) /\ \A n \in 1..Len(s) : s[n].kind = r[n].kind
  BY <1>1, NoBreak
<1>5. b = None => before = 1..Len(s)
  BY <1>4, SharedIsAll
<1>6. compare_strict_mode(s, r) = {} <=>
        Len(s) = Len(r) /\ \A n \in 1..Len(s) : StrictFree(n, s[n], r[n])
  BY <1>1, StrictDecides
<1>7. ASSUME Len(s) = Len(r)
      PROVE  \A n \in 1..Len(s) : StrictFree(n, s[n], r[n]) <=> DiffFree(n, s[n], r[n])
  BY <1>7, PairsAgree DEF IsHistory, AllPlayed
<1> HIDE DEF b, before, found
<1>8. ASSUME compare_strict_mode(s, r) = {}
      PROVE  b = None /\ \A n \in before :
               \A d \in field_differences_at_position(n, s[n], r[n]) : ~Matters(d)
  <2>1. Len(s) = Len(r) /\ \A n \in 1..Len(s) : DiffFree(n, s[n], r[n])
    BY <1>6, <1>7, <1>8
  <2>2. b = None
    BY <1>4, <2>1 DEF DiffFree
  <2> QED BY <1>5, <2>1, <2>2 DEF DiffFree
<1>9. ASSUME b = None, \A n \in before :
               \A d \in field_differences_at_position(n, s[n], r[n]) : ~Matters(d)
      PROVE  compare_strict_mode(s, r) = {}
  <2>1. Len(s) = Len(r) /\ \A n \in 1..Len(s) : DiffFree(n, s[n], r[n])
    BY <1>4, <1>5, <1>9 DEF DiffFree
  <2> QED BY <1>6, <1>7, <2>1
<1> QED BY <1>2, <1>3, <1>8, <1>9

(***************************************************************************)
(* Positions in order.                                                     *)
(***************************************************************************)
LEMMA InOrderFacts ==
  ASSUME NEW n \in Nat, NEW S \in SUBSET (1..n)
  PROVE  /\ Cardinality(S) \in Nat /\ InOrder(S) \in [1..Cardinality(S) -> S]
         /\ IsSeq(InOrder(S)) /\ Len(InOrder(S)) = Cardinality(S)
         /\ DOMAIN InOrder(S) = 1..Cardinality(S)
<1>1. Cardinality(S) \in Nat
  BY FinitePart
<1>2. ASSUME NEW r \in 1..Cardinality(S)
      PROVE  (CHOOSE p \in S : Cardinality({q \in S : q <= p}) = r) \in S
  BY Ranked
<1>3. InOrder(S) \in [1..Cardinality(S) -> S]
  BY <1>2 DEF InOrder
<1> QED BY <1>1, <1>3, SeqMade

LEMMA AtFacts ==
  ASSUME NEW s, IsSeq(s), NEW S \in SUBSET DOMAIN s
  PROVE  /\ IsSeq(At(s, S)) /\ Len(At(s, S)) = Cardinality(S) /\ Cardinality(S) \in Nat
         /\ DOMAIN At(s, S) = 1..Cardinality(S)
         /\ \A k \in 1..Cardinality(S) : \E p \in S : At(s, S)[k] = s[p]
<1>1. Len(s) \in Nat /\ S \in SUBSET (1..Len(s))
  BY SeqFacts
<1> DEFINE f == InOrder(S)
<1>2. /\ Cardinality(S) \in Nat /\ f \in [1..Cardinality(S) -> S]
      /\ DOMAIN f = 1..Cardinality(S)
  BY <1>1, InOrderFacts
<1>3. At(s, S) = [k \in 1..Cardinality(S) |-> s[f[k]]]
  BY <1>2 DEF At
<1> HIDE DEF f
<1>4. At(s, S) \in [1..Cardinality(S) -> {s[p] : p \in S}]
  BY <1>2, <1>3
<1>5. \A k \in 1..Cardinality(S) : At(s, S)[k] = s[f[k]] /\ f[k] \in S
  BY <1>2, <1>3
<1> QED BY <1>2, <1>4, <1>5, SeqMade

(***************************************************************************)
(* What grows.                                                             *)
(***************************************************************************)
KindAt(h, kind) == {n \in DOMAIN h : h[n].kind = kind}
ToolsIn(h) == {h[n].tool : n \in KindAt(h, "ToolCall")}

LEMMA OfKindCounts ==
  ASSUME NEW h, IsSeq(h), NEW kind
  PROVE  Len(OfKind(h, kind)) = Cardinality(KindAt(h, kind))
BY AtFacts DEF OfKind, KindAt

LEMMA CallsOfCounts ==
  ASSUME NEW h, IsSeq(h), NEW t
  PROVE  Len(InOrder(CallsOf(h, t))) = Cardinality(CallsOf(h, t))
<1>1. Len(h) \in Nat /\ CallsOf(h, t) \in SUBSET (1..Len(h))
  BY SeqFacts DEF CallsOf
<1> QED BY <1>1, InOrderFacts

\* u is h with e after it.
Follows(u, h, e) ==
  /\ IsSeq(u) /\ Len(u) = Len(h) + Len(e) /\ Len(h) \in Nat /\ Len(e) \in Nat
  /\ DOMAIN u = 1..Len(u) /\ DOMAIN h = 1..Len(h) /\ DOMAIN e = 1..Len(e)
  /\ \A i \in DOMAIN h : i \in DOMAIN u /\ u[i] = h[i]
  /\ \A i \in DOMAIN e : Len(h) + i \in DOMAIN u /\ u[Len(h) + i] = e[i]
  /\ \A n \in DOMAIN u : n \in DOMAIN h \/ \E k \in DOMAIN e : n = Len(h) + k

LEMMA Joined ==
  ASSUME NEW h, IsSeq(h), NEW e, IsSeq(e)
  PROVE  Follows(h \o e, h, e)
<1> DEFINE u == h \o e
<1>1. /\ IsSeq(u) /\ Len(u) = Len(h) + Len(e)
      /\ \A i \in 1..Len(h) : u[i] = h[i]
      /\ \A i \in 1..Len(e) : u[Len(h) + i] = e[i]
  BY SeqConcat
<1> HIDE DEF u
<1>2. /\ Len(h) \in Nat /\ Len(e) \in Nat
      /\ DOMAIN u = 1..Len(u) /\ DOMAIN h = 1..Len(h) /\ DOMAIN e = 1..Len(e)
  BY <1>1, SeqFacts
<1>3. ASSUME NEW n \in 1..(Len(h) + Len(e)), n \notin 1..Len(h)
      PROVE  n - Len(h) \in 1..Len(e) /\ n = Len(h) + (n - Len(h))
  BY <1>2, <1>3
<1>4. \A n \in DOMAIN u : n \in DOMAIN h \/ \E k \in DOMAIN e : n = Len(h) + k
  BY <1>1, <1>2, <1>3
<1>5. /\ \A i \in 1..Len(h) : i \in 1..(Len(h) + Len(e))
      /\ \A i \in 1..Len(e) : Len(h) + i \in 1..(Len(h) + Len(e))
  BY <1>2
<1>6. Follows(u, h, e)
  BY <1>1, <1>2, <1>4, <1>5 DEF Follows
<1> QED BY <1>6 DEF u

\* The positions of a joined sequence that a set of values picks out.
Selects(C, u, A, h, B, e) ==
  /\ A \in SUBSET DOMAIN h /\ B \in SUBSET DOMAIN e /\ C \in SUBSET DOMAIN u
  /\ \A i \in DOMAIN h : i \in C <=> i \in A
  /\ \A i \in DOMAIN e : Len(h) + i \in C <=> i \in B

LEMMA JoinedCount ==
  ASSUME NEW h, NEW e, NEW u, Follows(u, h, e),
         NEW A, NEW B, NEW C, Selects(C, u, A, h, B, e)
  PROVE  /\ Cardinality(C) = Cardinality(A) + Cardinality(B)
         /\ Cardinality(A) \in Nat /\ Cardinality(B) \in Nat
<1>0. /\ IsSeq(u) /\ Len(u) = Len(h) + Len(e) /\ Len(h) \in Nat /\ Len(e) \in Nat
      /\ DOMAIN u = 1..Len(u) /\ DOMAIN h = 1..Len(h) /\ DOMAIN e = 1..Len(e)
      /\ \A i \in DOMAIN h : i \in DOMAIN u /\ u[i] = h[i]
      /\ \A i \in DOMAIN e : Len(h) + i \in DOMAIN u /\ u[Len(h) + i] = e[i]
      /\ \A n \in DOMAIN u : n \in DOMAIN h \/ \E k \in DOMAIN e : n = Len(h) + k
  BY DEF Follows
<1>1. A \in SUBSET (1..Len(h)) /\ B \in SUBSET (1..Len(e))
  BY <1>0 DEF Selects
<1>2. C = A \cup Shifted(Len(h), B)
  <2>1. ASSUME NEW n \in C PROVE n \in A \cup Shifted(Len(h), B)
    BY <1>0 DEF Selects, Shifted
  <2>2. ASSUME NEW n \in A PROVE n \in C
    BY DEF Selects, Shifted
  <2>3. ASSUME NEW k \in B PROVE Len(h) + k \in C
    BY DEF Selects, Shifted
  <2>4. \A n \in Shifted(Len(h), B) : n \in C
    BY <2>3 DEF Shifted
  <2> QED BY <2>1, <2>2, <2>4
<1>3. Len(h) \in Nat /\ Len(e) \in Nat
  BY <1>0
<1>4. Cardinality(C) = Cardinality(A) + Cardinality(B)
  <2>1. Cardinality(A \cup Shifted(Len(h), B)) = Cardinality(A) + Cardinality(B)
    <3>1. B \in SUBSET (Nat \ {0}) /\ IsFiniteSet(B)
      BY <1>1, <1>3, FinitePart
    <3> QED BY <1>1, <1>3, <3>1, ShiftedCount
  <2> QED BY <1>2, <2>1
<1> QED BY <1>1, <1>3, <1>4, FinitePart

LEMMA KindGrows ==
  ASSUME NEW h, IsSeq(h), NEW e, IsSeq(e), NEW kind
  PROVE  /\ Cardinality(KindAt(h \o e, kind))
              = Cardinality(KindAt(h, kind)) + Cardinality(KindAt(e, kind))
         /\ Cardinality(KindAt(h, kind)) \in Nat /\ Cardinality(KindAt(e, kind)) \in Nat
<1> DEFINE u == h \o e
<1>2. Follows(u, h, e)
  BY Joined
<1> HIDE DEF u
<1>1. /\ IsSeq(u) /\ Len(u) = Len(h) + Len(e) /\ Len(h) \in Nat /\ Len(e) \in Nat
      /\ DOMAIN u = 1..Len(u) /\ DOMAIN h = 1..Len(h) /\ DOMAIN e = 1..Len(e)
      /\ \A i \in DOMAIN h : i \in DOMAIN u /\ u[i] = h[i]
      /\ \A i \in DOMAIN e : Len(h) + i \in DOMAIN u /\ u[Len(h) + i] = e[i]
      /\ \A n \in DOMAIN u : n \in DOMAIN h \/ \E k \in DOMAIN e : n = Len(h) + k
  BY <1>2 DEF Follows
<1>3. Selects(KindAt(u, kind), u, KindAt(h, kind), h, KindAt(e, kind), e)
  BY <1>1 DEF KindAt, Selects
<1>4. /\ Cardinality(KindAt(u, kind)) = Cardinality(KindAt(h, kind)) + Cardinality(KindAt(e, kind))
      /\ Cardinality(KindAt(h, kind)) \in Nat /\ Cardinality(KindAt(e, kind)) \in Nat
  BY <1>2, <1>3, JoinedCount
<1> QED BY <1>4 DEF u

LEMMA CallsGrow ==
  ASSUME NEW h, IsSeq(h), NEW e, IsSeq(e), NEW t
  PROVE  /\ Cardinality(CallsOf(h \o e, t))
              = Cardinality(CallsOf(h, t)) + Cardinality(CallsOf(e, t))
         /\ Cardinality(CallsOf(h, t)) \in Nat /\ Cardinality(CallsOf(e, t)) \in Nat
<1> DEFINE u == h \o e
<1>2. Follows(u, h, e)
  BY Joined
<1> HIDE DEF u
<1>1. /\ IsSeq(u) /\ Len(u) = Len(h) + Len(e) /\ Len(h) \in Nat /\ Len(e) \in Nat
      /\ DOMAIN u = 1..Len(u) /\ DOMAIN h = 1..Len(h) /\ DOMAIN e = 1..Len(e)
      /\ \A i \in DOMAIN h : i \in DOMAIN u /\ u[i] = h[i]
      /\ \A i \in DOMAIN e : Len(h) + i \in DOMAIN u /\ u[Len(h) + i] = e[i]
      /\ \A n \in DOMAIN u : n \in DOMAIN h \/ \E k \in DOMAIN e : n = Len(h) + k
  BY <1>2 DEF Follows
<1>3. Selects(CallsOf(u, t), u, CallsOf(h, t), h, CallsOf(e, t), e)
  BY <1>1 DEF CallsOf, Selects
<1>4. /\ Cardinality(CallsOf(u, t)) = Cardinality(CallsOf(h, t)) + Cardinality(CallsOf(e, t))
      /\ Cardinality(CallsOf(h, t)) \in Nat /\ Cardinality(CallsOf(e, t)) \in Nat
  BY <1>2, <1>3, JoinedCount
<1> QED BY <1>4 DEF u

LEMMA HistoryGrows ==
  ASSUME NEW h, IsHistory(h), NEW e, IsHistory(e)
  PROVE  /\ IsHistory(h \o e)
         /\ AllPlayed(h) /\ AllPlayed(e) => AllPlayed(h \o e)
         /\ NoEnd(h) /\ NoEnd(e) => NoEnd(h \o e)
         /\ e # <<>> \/ h # <<>> => h \o e # <<>>
         /\ ToolsIn(h \o e) = ToolsIn(h) \cup ToolsIn(e)
<1> DEFINE u == h \o e
<1>1. IsSeq(h) /\ IsSeq(e)
  BY DEF IsHistory
<1>u. Follows(u, h, e)
  BY <1>1, Joined
<1> HIDE DEF u
<1>2. /\ IsSeq(u) /\ Len(u) = Len(h) + Len(e) /\ Len(h) \in Nat /\ Len(e) \in Nat
      /\ DOMAIN u = 1..Len(u) /\ DOMAIN h = 1..Len(h) /\ DOMAIN e = 1..Len(e)
      /\ \A i \in DOMAIN h : i \in DOMAIN u /\ u[i] = h[i]
      /\ \A i \in DOMAIN e : Len(h) + i \in DOMAIN u /\ u[Len(h) + i] = e[i]
      /\ \A n \in DOMAIN u : n \in DOMAIN h \/ \E k \in DOMAIN e : n = Len(h) + k
  BY <1>u DEF Follows
<1>3. /\ (h = <<>> <=> Len(h) = 0) /\ (e = <<>> <=> Len(e) = 0) /\ (u = <<>> <=> Len(u) = 0)
  BY <1>1, <1>2, SeqFacts
<1>4. \A n \in DOMAIN u : (\E i \in DOMAIN h : u[n] = h[i]) \/ \E k \in DOMAIN e : u[n] = e[k]
  BY <1>2
<1>5. IsHistory(u)
  BY <1>2, <1>4 DEF IsHistory
<1>6. AllPlayed(h) /\ AllPlayed(e) => AllPlayed(u)
  BY <1>2, <1>4 DEF AllPlayed
<1>7. NoEnd(h) /\ NoEnd(e) => NoEnd(u)
  BY <1>2, <1>4 DEF NoEnd
<1>8. e # <<>> \/ h # <<>> => u # <<>>
  BY <1>2, <1>3
<1>9. ToolsIn(u) = ToolsIn(h) \cup ToolsIn(e)
  <2>1. ASSUME NEW x \in ToolsIn(u) PROVE x \in ToolsIn(h) \cup ToolsIn(e)
    <3>1. PICK n \in DOMAIN u : u[n].kind = "ToolCall" /\ x = u[n].tool
      BY <2>1 DEF ToolsIn, KindAt
    <3> QED BY <1>4, <3>1 DEF ToolsIn, KindAt
  <2>2. ASSUME NEW x \in ToolsIn(h) PROVE x \in ToolsIn(u)
    <3>1. PICK n \in DOMAIN h : h[n].kind = "ToolCall" /\ x = h[n].tool
      BY <2>2 DEF ToolsIn, KindAt
    <3>2. n \in DOMAIN u /\ u[n] = h[n]
      BY <1>2
    <3> QED BY <3>1, <3>2 DEF ToolsIn, KindAt
  <2>3. ASSUME NEW x \in ToolsIn(e) PROVE x \in ToolsIn(u)
    <3>1. PICK n \in DOMAIN e : e[n].kind = "ToolCall" /\ x = e[n].tool
      BY <2>3 DEF ToolsIn, KindAt
    <3>2. Len(h) + n \in DOMAIN u /\ u[Len(h) + n] = e[n]
      BY <1>2
    <3> QED BY <3>1, <3>2 DEF ToolsIn, KindAt
  <2> QED BY <2>1, <2>2, <2>3
<1> QED BY <1>5, <1>6, <1>7, <1>8, <1>9 DEF u

\* One event is a history.
LEMMA OneEvent ==
  ASSUME NEW e, IsEvent(e)
  PROVE  /\ IsHistory(<<e>>) /\ <<e>> # <<>>
         /\ PlaysOnce(e) => AllPlayed(<<e>>)
         /\ e.kind # "SessionEnd" => NoEnd(<<e>>)
         /\ e.kind # "ToolCall" => ToolsIn(<<e>>) = {} /\ \A t : CallsOf(<<e>>, t) = {}
         /\ \A kind : Cardinality(KindAt(<<e>>, kind)) = IF e.kind = kind THEN 1 ELSE 0
<1>1. IsSeq(<<e>>) /\ Len(<<e>>) = 1 /\ <<e>>[1] = e /\ DOMAIN <<e>> = {1} /\ 1..1 = {1}
  BY SeqOne
<1> DEFINE h == <<e>>
<1> HIDE DEF h
<1>1a. IsSeq(h) /\ Len(h) = 1 /\ h[1] = e /\ DOMAIN h = {1} /\ 1..1 = {1}
  BY <1>1 DEF h
<1>2. \A kind : KindAt(h, kind) = IF e.kind = kind THEN {1} ELSE {}
  BY <1>1a DEF KindAt
<1>3. \A kind : Cardinality(KindAt(h, kind)) = IF e.kind = kind THEN 1 ELSE 0
  BY <1>2, FS_EmptySet, FS_Singleton
<1>4. <<e>> # <<>>
  OBVIOUS
<1>5. IsHistory(h) /\ (PlaysOnce(e) => AllPlayed(h)) /\ (e.kind # "SessionEnd" => NoEnd(h))
  BY <1>1a DEF IsHistory, AllPlayed, NoEnd
<1>6. ASSUME e.kind # "ToolCall" PROVE ToolsIn(h) = {} /\ \A t : CallsOf(h, t) = {}
  BY <1>1a, <1>6 DEF ToolsIn, KindAt, CallsOf
<1> QED BY <1>3, <1>4, <1>5, <1>6 DEF h

(***************************************************************************)
(* Playback: the calls of a batch are played one after the other, each by  *)
(* its tool's cursor.                                                      *)
(***************************************************************************)
AllCalls(events) == \A n \in 1..Len(events) : events[n].kind = "ToolCall"

\* A call that found its record advanced the cursor of its tool; one that did
\* not left a divergence.
PlayInv(play) ==
  /\ IsSeq(play.events) /\ AllCalls(play.events)
  /\ play.cursors \in [RecordedTools \cup {"model"} -> Nat]
  /\ play.cursors["model"] = cursors["model"]
  /\ play.divergences = {} =>
       /\ divergences = {}
       /\ \A t \in RecordedTools :
            play.cursors[t] = cursors[t] + Cardinality(CallsOf(play.events, t))

LEMMA AppendedOne ==
  ASSUME NEW s, IsSeq(s), NEW x
  PROVE  Append(s, x) = s \o <<x>>
<1> DEFINE T == {s[i] : i \in DOMAIN s} \cup {x}
<1>1. s \in Seq(T) /\ x \in T
  BY DEF IsSeq
<1> HIDE DEF T
<1> QED BY <1>1

LEMMA OneCall ==
  ASSUME NEW e, e.kind = "ToolCall", NEW t
  PROVE  Cardinality(CallsOf(<<e>>, t)) = IF t = e.tool THEN 1 ELSE 0
<1> DEFINE h == <<e>>
<1>1. h[1] = e /\ DOMAIN h = {1}
  OBVIOUS
<1> HIDE DEF h
<1>2. CallsOf(h, t) = IF t = e.tool THEN {1} ELSE {}
  BY <1>1 DEF CallsOf
<1>3. Cardinality(CallsOf(h, t)) = IF t = e.tool THEN 1 ELSE 0
  BY <1>2, FS_EmptySet, FS_Singleton
<1> QED BY <1>3 DEF h

LEMMA PlayKeeps ==
  ASSUME NEW play, PlayInv(play), NEW call, call.tool \in RecordedTools,
         "model" \notin RecordedTools, cursors \in [RecordedTools \cup {"model"} -> Nat]
  PROVE  PlayInv(Plays(play, call))
<1> DEFINE recorded == RecordedTool(call.tool)
           n == play.cursors[call.tool] + 1
           exhausted == n > Len(recorded)
           mismatch == ~exhausted /\ source[recorded[n]].input # call.input
           output == IF exhausted \/ (mismatch /\ request.mode = "strict") THEN "replay error"
                     ELSE source[recorded[n]].output
           event == ToolCall(call.tool, call.input, output)
           moved == IF exhausted THEN play.cursors ELSE [play.cursors EXCEPT ![call.tool] = n]
           found == play.divergences
                    \cup (IF exhausted THEN {Divergence(None, "ToolCallUnexpected")} ELSE {})
                    \cup (IF mismatch
                          THEN {Divergence(Some(recorded[n]), "ToolInputMismatch")} ELSE {})
<1>1. Plays(play, call) = [events |-> Append(play.events, event), cursors |-> moved,
                           divergences |-> found]
  BY Zenon DEF Plays
<1>2. found = {} => play.divergences = {} /\ ~exhausted
  OBVIOUS
<1>3. n \in Nat /\ play.cursors \in [RecordedTools \cup {"model"} -> Nat]
  BY DEF PlayInv
<1>4. /\ moved \in [RecordedTools \cup {"model"} -> Nat] /\ moved["model"] = play.cursors["model"]
      /\ ~exhausted => \A t \in RecordedTools :
           moved[t] = IF t = call.tool THEN play.cursors[t] + 1 ELSE play.cursors[t]
  <2> HIDE DEF exhausted
  <2>1. CASE exhausted
    BY <1>3, <2>1
  <2>2. CASE ~exhausted
    BY <1>3, <2>2
  <2> QED BY <2>1, <2>2
<1>5. IsSeq(play.events) /\ AllCalls(play.events)
  BY DEF PlayInv
<1>6. event.kind = "ToolCall" /\ event.tool = call.tool
  BY DEF ToolCall
<1> HIDE DEF event, moved, found, exhausted, n
<1>7. \A t : Cardinality(CallsOf(<<event>>, t)) = IF t = call.tool THEN 1 ELSE 0
  BY <1>6, OneCall
<1>8. IsSeq(Append(play.events, event)) /\ AllCalls(Append(play.events, event))
  <2>1. /\ IsSeq(Append(play.events, event))
        /\ Len(Append(play.events, event)) = Len(play.events) + 1
        /\ \A i \in 1..Len(play.events) : Append(play.events, event)[i] = play.events[i]
        /\ Append(play.events, event)[Len(play.events) + 1] = event
        /\ Len(play.events) \in Nat
    BY <1>5, SeqAppend, SeqFacts
  <2>2. \A i \in 1..(Len(play.events) + 1) : i \in 1..Len(play.events) \/ i = Len(play.events) + 1
    BY <2>1
  <2> QED BY <2>1, <2>2, <1>5, <1>6 DEF AllCalls
<1>9. \A t : /\ Cardinality(CallsOf(Append(play.events, event), t))
                 = Cardinality(CallsOf(play.events, t)) + (IF t = call.tool THEN 1 ELSE 0)
             /\ Cardinality(CallsOf(play.events, t)) \in Nat
  <2>1. Append(play.events, event) = play.events \o <<event>>
    BY <1>5, AppendedOne
  <2>2. IsSeq(<<event>>)
    BY SeqOne
  <2> QED BY <1>5, <1>7, <2>1, <2>2, CallsGrow
<1>10. ASSUME found = {}, NEW t \in RecordedTools
       PROVE  moved[t] = cursors[t] + Cardinality(CallsOf(Append(play.events, event), t))
  <2>1. play.cursors[t] = cursors[t] + Cardinality(CallsOf(play.events, t))
    BY <1>2, <1>10 DEF PlayInv
  <2>2. cursors[t] \in Nat
    OBVIOUS
  <2> QED BY <1>2, <1>4, <1>9, <1>10, <2>1, <2>2
<1>11. play.cursors["model"] = cursors["model"] /\ (found = {} => divergences = {})
  BY <1>2 DEF PlayInv
<1> DEFINE next == Append(play.events, event)
<1> HIDE DEF next
<1>12. IsSeq(next) /\ AllCalls(next)
       /\ (found = {} => \A t \in RecordedTools :
                          moved[t] = cursors[t] + Cardinality(CallsOf(next, t)))
  BY <1>8, <1>10 DEF next
<1>13. Plays(play, call) = [events |-> next, cursors |-> moved, divergences |-> found]
  BY <1>1 DEF next
<1> QED BY <1>4, <1>11, <1>12, <1>13 DEF PlayInv

\* The function that plays the calls one by one exists.
PlayedTo(m, approved, f) ==
  f = [n \in 0..m |->
         IF n = 0 THEN [events |-> <<>>, cursors |-> cursors, divergences |-> divergences]
         ELSE Plays(f[n - 1], approved[n])]

LEMMA PlayedExists ==
  ASSUME NEW approved, NEW m \in Nat
  PROVE  \E f : PlayedTo(m, approved, f)
<1> DEFINE T == {k \in Nat : ~\E f : PlayedTo(k, approved, f)}
<1>1. SUFFICES ASSUME T # {} PROVE FALSE
  OBVIOUS
<1>2. PICK k \in T : \A j \in T : k <= j
  BY <1>1, LeastNumber
<1>3. k # 0
  <2> DEFINE f == [n \in 0..0 |->
                     [events |-> <<>>, cursors |-> cursors, divergences |-> divergences]]
  <2>1. PlayedTo(0, approved, f)
    BY DEF PlayedTo
  <2> QED BY <2>1
<1>4. k - 1 \in Nat /\ k - 1 \notin T /\ k \in Nat /\ k >= 1
  BY <1>2, <1>3
<1>5. PICK g : PlayedTo(k - 1, approved, g)
  BY <1>4
<1> DEFINE f == [n \in 0..k |-> IF n = k THEN Plays(g[k - 1], approved[k]) ELSE g[n]]
<1>6. /\ \A n \in 0..(k - 1) :
           g[n] = IF n = 0
                  THEN [events |-> <<>>, cursors |-> cursors, divergences |-> divergences]
                  ELSE Plays(g[n - 1], approved[n])
  BY <1>5 DEF PlayedTo
<1>7. ASSUME NEW n \in 0..k
      PROVE  f[n] = IF n = 0
                    THEN [events |-> <<>>, cursors |-> cursors, divergences |-> divergences]
                    ELSE Plays(f[n - 1], approved[n])
  <2>1. CASE n = k
    <3>1. n # 0 /\ n - 1 \in 0..k /\ n - 1 # k /\ n - 1 = k - 1
      BY <1>4, <2>1
    <3>2. f[n - 1] = g[k - 1] /\ f[n] = Plays(g[k - 1], approved[k])
      BY <2>1, <3>1
    <3> QED BY <2>1, <3>1, <3>2
  <2>2. CASE n # k
    <3>1. n \in 0..(k - 1) /\ f[n] = g[n]
      BY <1>4, <2>2
    <3>2. CASE n = 0
      BY <1>6, <3>1, <3>2
    <3>3. CASE n # 0
      <4>1. n - 1 \in 0..k /\ n - 1 # k
        BY <1>4, <2>2, <3>3
      <4>2. f[n - 1] = g[n - 1]
        BY <4>1
      <4> QED BY <1>6, <3>1, <3>3, <4>2
    <3> QED BY <3>2, <3>3
  <2> QED BY <2>1, <2>2
<1>8. f = [n \in 0..k |-> f[n]]
  OBVIOUS
<1> HIDE DEF f
<1>9. PlayedTo(k, approved, f)
  BY <1>7, <1>8 DEF PlayedTo
<1> QED BY <1>2, <1>9

LEMMA BatchPlayed ==
  ASSUME NEW approved, IsSeq(approved),
         \A n \in 1..Len(approved) : approved[n].tool \in RecordedTools,
         "model" \notin RecordedTools, cursors \in [RecordedTools \cup {"model"} -> Nat]
  PROVE  PlayInv(PlayedInOrder(approved))
<1> DEFINE L == Len(approved)
           f == CHOOSE g : PlayedTo(L, approved, g)
<1>1. L \in Nat
  BY SeqFacts
<1>2. PlayedTo(L, approved, f)
  BY <1>1, PlayedExists, Zenon
<1>3. PlayedInOrder(approved) = f[L]
  BY Zenon DEF PlayedInOrder, PlayedTo
<1> HIDE DEF f
<1>4. PlayInv(f[0])
  <2> DEFINE start == [events |-> <<>>, cursors |-> cursors, divergences |-> divergences]
  <2>1. f[0] = start
    BY <1>1, <1>2 DEF PlayedTo
  <2>2. AllCalls(<<>>) /\ \A t : CallsOf(<<>>, t) = {}
    BY SeqNone DEF AllCalls, CallsOf
  <2>3. \A t : Cardinality(CallsOf(<<>>, t)) = 0
    BY <2>2, FS_EmptySet
  <2>4. PlayInv(start)
    BY <2>2, <2>3, SeqNone DEF PlayInv
  <2> QED BY <2>1, <2>4
<1>5. ASSUME NEW n \in 1..L, PlayInv(f[n - 1]) PROVE PlayInv(f[n])
  <2>1. f[n] = Plays(f[n - 1], approved[n])
    BY <1>1, <1>2 DEF PlayedTo
  <2> QED BY <1>5, <2>1, PlayKeeps
<1> DEFINE T == {k \in Nat : k <= L /\ ~PlayInv(f[k])}
<1>6. T = {}
  <2>1. SUFFICES ASSUME T # {} PROVE FALSE
    OBVIOUS
  <2>2. PICK k \in T : \A j \in T : k <= j
    BY <2>1, LeastNumber
  <2>3. k # 0
    BY <1>4, <2>2
  <2>4. k - 1 \in Nat /\ k - 1 <= L /\ k - 1 \notin T /\ k \in 1..L
    BY <1>1, <2>2, <2>3
  <2> QED BY <1>5, <2>2, <2>4
<1>7. L <= L
  BY <1>1
<1> HIDE DEF L
<1> QED BY <1>1, <1>3, <1>6, <1>7

(***************************************************************************)
(* The inductive invariant.                                                *)
(***************************************************************************)
IsSession(s) ==
  s = [side |-> s.side, phase |-> s.phase, iteration |-> s.iteration,
       continuation |-> s.continuation, answer |-> s.answer]

\* A session the agent itself recorded: its tools are registered ones.
OwnHistory(h) == IsHistory(h) /\ h # <<>> /\ ToolsIn(h) \subseteq DOMAIN PermissionsOf

Shape ==
  /\ histories = [source |-> source, replay |-> replay]
  /\ IsSession(session) /\ session.side \in {"source", "replay"}
  /\ session.phase = "answered" => IsSeq(Answer.calls)

\* Before the command there is no replay; only an import is not the agent's own.
SourceSide ==
  /\ replay = <<>> /\ report = Pending /\ divergences = {}
  /\ OwnHistory(source) \/ (session.phase = "ended" /\ source[1].config = OtelConfig)

\* The cursors c count what r, a replay of s, played as long as nothing diverged.
Synced(s, r, c, d) ==
  /\ c \in [ToolsIn(s) \cup {"model"} -> Nat]
  /\ c["model"] <= Cardinality(KindAt(s, "ProviderCall"))
  /\ d = {} => /\ c["model"] = Cardinality(KindAt(r, "ProviderCall"))
               /\ \A t \in ToolsIn(s) : c[t] = Cardinality(CallsOf(r, t))

Refused == session.phase = "over" /\ replay = <<>> /\ report.result \in {"usage", "failed"}

Running ==
  /\ session.phase \in {"idle", "calling", "answered"} /\ report = Pending
  /\ AllPlayed(replay) /\ NoEnd(replay)

BrokenOff == session.phase = "over" /\ report.result = "failed" /\ NoEnd(replay)

\* A replay that came to its end was compared with the record.
Compared ==
  /\ session.phase = "over" /\ report.result \in {"passed", "diverged"} /\ AllPlayed(replay)
  /\ report.result = "passed" => divergences = {} /\ compare(request.mode, source, replay) = {}

ReplaySide ==
  \/ Refused
  \/ /\ IsHistory(replay) /\ replay # <<>> /\ OwnHistory(source)
     /\ Synced(source, replay, cursors, divergences)
     /\ Running \/ BrokenOff \/ Compared

\* The inductive invariant: before the command a recording without a replay, after
\* it a replay whose cursors are where its history says, until the comparison.
ReplayInv ==
  /\ Shape
  /\ session.side = "source" => SourceSide
  /\ session.side = "replay" => ReplaySide

(***************************************************************************)
(* Kinds of steps.                                                         *)
(***************************************************************************)
LEMMA Journaled ==
  ASSUME Shape, NEW side \in {"source", "replay"}, NEW events, Journal(side, events)
  PROVE  /\ histories' = [source |-> source', replay |-> replay']
         /\ side = "source" => source' = source \o events /\ replay' = replay
         /\ side = "replay" => source' = source /\ replay' = replay \o events
<1>1. histories' = [histories EXCEPT ![side] = histories[side] \o events]
  BY DEF Journal
<1>2. histories = [source |-> histories["source"], replay |-> histories["replay"]]
  BY DEF Shape, source, replay
<1> QED BY <1>1, <1>2 DEF source, replay

LEMMA Kept ==
  ASSUME Shape, histories' = histories
  PROVE  histories' = [source |-> source', replay |-> replay'] /\ source' = source
         /\ replay' = replay
BY DEF Shape, source, replay

LEMMA ToSource ==
  ASSUME histories' = [source |-> source', replay |-> replay'],
         IsSession(session'), session'.side = "source",
         session'.phase = "answered" => IsSeq(session'.answer[1].calls),
         replay' = <<>>, report' = Pending, divergences' = {}, OwnHistory(source')
  PROVE  ReplayInv'
<1>1. Shape'
  BY DEF Shape, Answer
<1>2. SourceSide'
  BY DEF SourceSide
<1> QED BY <1>1, <1>2 DEF ReplayInv

LEMMA ToRunning ==
  ASSUME histories' = [source |-> source', replay |-> replay'],
         IsSession(session'), session'.side = "replay",
         session'.phase \in {"idle", "calling", "answered"},
         session'.phase = "answered" => IsSeq(session'.answer[1].calls),
         IsHistory(replay'), replay' # <<>>, OwnHistory(source'),
         Synced(source', replay', cursors', divergences'),
         AllPlayed(replay'), NoEnd(replay'), report' = Pending
  PROVE  ReplayInv'
<1>1. Shape'
  BY DEF Shape, Answer
<1>2. Running'
  BY DEF Running
<1>3. ReplaySide'
  BY <1>2 DEF ReplaySide
<1> QED BY <1>1, <1>3 DEF ReplayInv

LEMMA ToBrokenOff ==
  ASSUME histories' = [source |-> source', replay |-> replay'],
         IsSession(session'), session'.side = "replay", session'.phase = "over",
         IsHistory(replay'), replay' # <<>>, OwnHistory(source'),
         Synced(source', replay', cursors', divergences'),
         NoEnd(replay'), report'.result = "failed"
  PROVE  ReplayInv'
<1>1. Shape'
  BY DEF Shape, Answer
<1>2. BrokenOff'
  BY DEF BrokenOff
<1>3. ReplaySide'
  BY <1>2 DEF ReplaySide
<1> QED BY <1>1, <1>3 DEF ReplayInv

\* A replay that is not over is running.
LEMMA NotOver ==
  ASSUME ReplayInv, session.side = "replay", session.phase # "over"
  PROVE  /\ Running /\ IsHistory(replay) /\ replay # <<>> /\ OwnHistory(source)
         /\ Synced(source, replay, cursors, divergences)
BY DEF ReplayInv, ReplaySide, Refused, BrokenOff, Compared

\* A recording that goes on is the agent's own.
LEMMA NotEnded ==
  ASSUME ReplayInv, session.side = "source",
         session.phase # "ended" \/ source[1].config # OtelConfig
  PROVE  OwnHistory(source) /\ replay = <<>> /\ report = Pending /\ divergences = {}
BY DEF ReplayInv, SourceSide

LEMMA OwnGrows ==
  ASSUME NEW h, OwnHistory(h), NEW e, IsHistory(e), ToolsIn(e) \subseteq DOMAIN PermissionsOf
  PROVE  OwnHistory(h \o e)
BY HistoryGrows DEF OwnHistory

\* Playing e moves the cursors by what e holds.
LEMMA SyncedGrows ==
  ASSUME NEW s, NEW r, IsSeq(r), NEW e, IsSeq(e), NEW c, NEW d, Synced(s, r, c, d),
         NEW c2, NEW d2, c2 \in [ToolsIn(s) \cup {"model"} -> Nat],
         c2["model"] <= Cardinality(KindAt(s, "ProviderCall")),
         d2 = {} => /\ d = {}
                    /\ c2["model"] = c["model"] + Cardinality(KindAt(e, "ProviderCall"))
                    /\ \A t \in ToolsIn(s) : c2[t] = c[t] + Cardinality(CallsOf(e, t))
  PROVE  Synced(s, r \o e, c2, d2)
<1>1. Cardinality(KindAt(r \o e, "ProviderCall"))
        = Cardinality(KindAt(r, "ProviderCall")) + Cardinality(KindAt(e, "ProviderCall"))
  BY KindGrows
<1>2. \A t : Cardinality(CallsOf(r \o e, t))
               = Cardinality(CallsOf(r, t)) + Cardinality(CallsOf(e, t))
  BY CallsGrow
<1>3. d2 = {} => /\ c["model"] = Cardinality(KindAt(r, "ProviderCall"))
                 /\ \A t \in ToolsIn(s) : c[t] = Cardinality(CallsOf(r, t))
  BY DEF Synced
<1> QED BY <1>1, <1>2, <1>3 DEF Synced

\* An event that is no call leaves the cursors where they are.
LEMMA SyncedStays ==
  ASSUME NEW s, NEW r, IsSeq(r), NEW e, IsEvent(e), e.kind \notin {"ToolCall", "ProviderCall"},
         NEW c, NEW d, Synced(s, r, c, d)
  PROVE  Synced(s, r \o <<e>>, c, d)
<1>1. IsSeq(<<e>>)
  BY SeqOne
<1>2. Cardinality(KindAt(<<e>>, "ProviderCall")) = 0
  BY OneEvent
<1>3. \A t : Cardinality(CallsOf(<<e>>, t)) = 0
  BY OneEvent, FS_EmptySet
<1>4. c \in [ToolsIn(s) \cup {"model"} -> Nat]
      /\ c["model"] <= Cardinality(KindAt(s, "ProviderCall"))
  BY DEF Synced
<1>5. c["model"] = c["model"] + 0 /\ \A t \in ToolsIn(s) : c[t] = c[t] + 0
  BY <1>4
<1> QED BY <1>1, <1>2, <1>3, <1>4, <1>5, SyncedGrows

LEMMA IdleSession ==
  ASSUME NEW side
  PROVE  IsSession(Idle(side)) /\ Idle(side).side = side /\ Idle(side).phase = "idle"
BY DEF IsSession, Idle

LEMMA NextPhase ==
  ASSUME NEW s, IsSession(s), NEW p
  PROVE  LET t == [s EXCEPT !.phase = p]
         IN IsSession(t) /\ t.side = s.side /\ t.phase = p /\ t.answer = s.answer
BY DEF IsSession

LEMMA NamesOfRecord == RecordedTools = ToolsIn(source)
BY DEF RecordedTools, ToolsIn, KindAt

\* The start.
LEMMA ReplayInvInit == Init => ReplayInv
<1> SUFFICES ASSUME Init PROVE ReplayInv
  OBVIOUS
<1>1. replay = <<>> /\ report = Pending /\ divergences = {}
  BY DEF Init, replay
<1>2. histories = [source |-> source, replay |-> replay]
  BY DEF Init, source, replay
<1>3. CASE /\ histories = [source |-> <<SessionStart(SourceDir, Config("source"))>>,
                           replay |-> <<>>]
           /\ session = Idle("source")
  <2> DEFINE e == SessionStart(SourceDir, Config("source"))
  <2>1. IsEvent(e) /\ e.kind # "ToolCall"
    BY DEF IsEvent, SessionStart, Kinds
  <2>2. source = <<e>>
    BY <1>3 DEF source
  <2> HIDE DEF e
  <2>3. OwnHistory(source)
    BY <2>1, <2>2, OneEvent DEF OwnHistory
  <2>4. Shape
    BY <1>2, <1>3, IdleSession DEF Shape
  <2>5. session.side = "source"
    BY <1>3, IdleSession
  <2> QED BY <1>1, <2>3, <2>4, <2>5 DEF ReplayInv, SourceSide
<1>4. CASE /\ \E imported \in Imports : histories = [source |-> imported, replay |-> <<>>]
           /\ session = [Idle("source") EXCEPT !.phase = "ended"]
  <2>1. source \in Imports
    BY <1>4 DEF source
  <2>2. source[1].config = OtelConfig
    BY <2>1, ReplayInputs DEF OtelConfig
  <2>3. IsSession(session) /\ session.side = "source" /\ session.phase = "ended"
    BY <1>4, IdleSession, NextPhase
  <2>4. Shape
    BY <1>2, <2>3 DEF Shape
  <2> QED BY <1>1, <2>2, <2>3, <2>4 DEF ReplayInv, SourceSide
<1> QED BY <1>3, <1>4 DEF Init

(***************************************************************************)
(* The agent loop of either session.                                       *)
(***************************************************************************)
\* A session that goes on and journals one event which is no call.
LEMMA OneMore ==
  ASSUME ReplayInv, session.phase \notin {"over", "ended"},
         NEW e, IsEvent(e), e.kind \notin {"ToolCall", "ProviderCall", "SessionEnd"},
         Journal(session.side, <<e>>), IsSession(session'), session'.side = session.side,
         session'.phase \in {"idle", "calling"},
         cursors' = cursors, divergences' = divergences, report' = report
  PROVE  ReplayInv'
<1>1. Shape
  BY DEF ReplayInv
<1>2. session.side \in {"source", "replay"} /\ session'.phase # "answered"
  BY <1>1 DEF Shape
<1>3. /\ IsHistory(<<e>>) /\ <<e>> # <<>> /\ AllPlayed(<<e>>) /\ NoEnd(<<e>>)
      /\ ToolsIn(<<e>>) = {}
  BY OneEvent DEF PlaysOnce
<1>4. CASE session.side = "source"
  <2>1. OwnHistory(source) /\ replay = <<>> /\ report = Pending /\ divergences = {}
    BY <1>4, NotEnded
  <2>2. /\ histories' = [source |-> source', replay |-> replay']
        /\ source' = source \o <<e>> /\ replay' = replay
    BY <1>1, <1>4, Journaled
  <2>3. OwnHistory(source')
    BY <1>3, <2>1, <2>2, OwnGrows
  <2> QED BY <1>2, <1>4, <2>1, <2>2, <2>3, ToSource
<1>5. CASE session.side = "replay"
  <2>1. /\ Running /\ IsHistory(replay) /\ replay # <<>> /\ OwnHistory(source)
        /\ Synced(source, replay, cursors, divergences)
    BY <1>5, NotOver
  <2>2. /\ histories' = [source |-> source', replay |-> replay']
        /\ source' = source /\ replay' = replay \o <<e>>
    BY <1>1, <1>5, Journaled
  <2>3. IsHistory(replay') /\ replay' # <<>> /\ AllPlayed(replay') /\ NoEnd(replay')
    BY <1>3, <2>1, <2>2, HistoryGrows DEF Running
  <2>4. Synced(source', replay', cursors', divergences')
    BY <2>1, <2>2, SyncedStays DEF IsHistory
  <2>5. report' = Pending
    BY <2>1 DEF Running
  <2>6. OwnHistory(source')
    BY <2>1, <2>2
  <2>7. session'.side = "replay" /\ session'.phase \in {"idle", "calling", "answered"}
    BY <1>5
  <2> QED BY <1>2, <2>2, <2>3, <2>4, <2>5, <2>6, <2>7, ToRunning
<1> QED BY <1>2, <1>4, <1>5

\* A run that fails between two events.
LEMMA FailsBetween ==
  ASSUME ReplayInv, session.phase \notin {"over", "ended"}, RunFails,
         histories' = histories, cursors' = cursors, divergences' = divergences
  PROVE  ReplayInv'
<1>1. Shape
  BY DEF ReplayInv
<1>2. /\ histories' = [source |-> source', replay |-> replay']
      /\ source' = source /\ replay' = replay
  BY <1>1, Kept
<1>3. CASE session.side = "source"
  <2>1. OwnHistory(source) /\ replay = <<>> /\ report = Pending /\ divergences = {}
    BY <1>3, NotEnded
  <2>2. session' = [session EXCEPT !.phase = "failed"] /\ report' = report
    BY <1>3 DEF RunFails
  <2>3. IsSession(session') /\ session'.side = "source" /\ session'.phase = "failed"
    BY <1>1, <1>3, <2>2, NextPhase DEF Shape
  <2>4. OwnHistory(source') /\ replay' = <<>> /\ report' = Pending /\ divergences' = {}
    BY <1>2, <2>1, <2>2
  <2>5. session'.phase # "answered"
    BY <2>3
  <2> QED BY <1>2, <2>3, <2>4, <2>5, ToSource
<1>4. CASE session.side = "replay"
  <2>1. /\ Running /\ IsHistory(replay) /\ replay # <<>> /\ OwnHistory(source)
        /\ Synced(source, replay, cursors, divergences)
    BY <1>4, NotOver
  <2>2. session' = [session EXCEPT !.phase = "over"] /\ report'.result = "failed"
    BY <1>4 DEF RunFails
  <2>3. IsSession(session') /\ session'.side = "replay" /\ session'.phase = "over"
    BY <1>1, <1>4, <2>2, NextPhase DEF Shape
  <2>4. IsHistory(replay') /\ replay' # <<>> /\ NoEnd(replay') /\ OwnHistory(source')
    BY <1>2, <2>1 DEF Running
  <2>5. Synced(source', replay', cursors', divergences')
    BY <1>2, <2>1
  <2> QED BY <1>2, <2>2, <2>3, <2>4, <2>5, ToBrokenOff
<1> QED BY <1>1, <1>3, <1>4 DEF Shape

LEMMA LimitKeeps == ASSUME ReplayInv, IterationLimit PROVE ReplayInv'
BY FailsBetween DEF IterationLimit

LEMMA UnanswerableKeeps == ASSUME ReplayInv, Unanswerable PROVE ReplayInv'
BY FailsBetween DEF Unanswerable, PlainAnswer

LEMMA TurnOfAssistant ==
  ASSUME NEW m, NEW calls
  PROVE  IsEvent(AssistantTurn(m, calls)) /\ AssistantTurn(m, calls).kind = "AssistantTurn"
BY DEF IsEvent, AssistantTurn, Kinds

LEMMA TurnEndsKeeps == ASSUME ReplayInv, TurnEnds PROVE ReplayInv'
<1> DEFINE e == AssistantTurn(Answer.text, None)
<1>1. IsEvent(e) /\ e.kind \notin {"ToolCall", "ProviderCall", "SessionEnd"}
  BY TurnOfAssistant
<1>2. Journal(session.side, <<e>>) /\ session.phase = "answered" /\ session' = Idle(session.side)
  BY DEF TurnEnds, PlainAnswer
<1>3. cursors' = cursors /\ divergences' = divergences /\ report' = report
  BY DEF TurnEnds, loopUnchanged
<1> HIDE DEF e
<1> QED BY <1>1, <1>2, <1>3, IdleSession, OneMore

LEMMA ContinuesKeeps == ASSUME ReplayInv, Continues PROVE ReplayInv'
<1> DEFINE e == AssistantTurn(Answer.text, None)
<1>1. IsEvent(e) /\ e.kind \notin {"ToolCall", "ProviderCall", "SessionEnd"}
  BY TurnOfAssistant
<1>2. Journal(session.side, <<e>>) /\ session.phase = "answered"
  BY DEF Continues, PlainAnswer
<1>3. cursors' = cursors /\ divergences' = divergences /\ report' = report
  BY DEF Continues, loopUnchanged
<1>4. IsSession(session') /\ session'.side = session.side /\ session'.phase = "calling"
  BY DEF Continues, ReplayInv, Shape, IsSession
<1> HIDE DEF e
<1> QED BY <1>1, <1>2, <1>3, <1>4, OneMore

LEMMA PromptKeeps ==
  ASSUME ReplayInv, session.phase = "idle", NEW p, Prompted(p),
         cursors' = cursors, divergences' = divergences, report' = report
  PROVE  ReplayInv'
<1> DEFINE e == UserTurn(p)
<1>1. IsEvent(e) /\ e.kind \notin {"ToolCall", "ProviderCall", "SessionEnd"}
  BY DEF IsEvent, UserTurn, Kinds
<1>2. Journal(session.side, <<e>>)
  BY DEF Prompted
<1>3. IsSession(session') /\ session'.side = session.side /\ session'.phase = "calling"
  BY IdleSession, NextPhase DEF Prompted
<1> HIDE DEF e
<1> QED BY <1>1, <1>2, <1>3, OneMore

LEMMA SourcePromptKeeps == ASSUME ReplayInv, SourcePrompt PROVE ReplayInv'
BY PromptKeeps DEF SourcePrompt, Step, loopUnchanged

LEMMA ReplayPromptKeeps == ASSUME ReplayInv, ReplayPrompt PROVE ReplayInv'
BY PromptKeeps DEF ReplayPrompt, Step, loopUnchanged

(***************************************************************************)
(* The recorded session.                                                   *)
(***************************************************************************)
LEMMA SourceGoesOn ==
  ASSUME ReplayInv, session.side = "source", session.phase # "ended",
         NEW events, IsHistory(events), ToolsIn(events) \subseteq DOMAIN PermissionsOf,
         Journal("source", events), IsSession(session'), session'.side = "source",
         session'.phase = "answered" => IsSeq(session'.answer[1].calls),
         divergences' = divergences, report' = report
  PROVE  ReplayInv'
<1>1. Shape
  BY DEF ReplayInv
<1>2. OwnHistory(source) /\ replay = <<>> /\ report = Pending /\ divergences = {}
  BY NotEnded
<1>3. /\ histories' = [source |-> source', replay |-> replay']
      /\ source' = source \o events /\ replay' = replay
  BY <1>1, Journaled
<1>4. OwnHistory(source')
  BY <1>2, <1>3, OwnGrows
<1> QED BY <1>2, <1>3, <1>4, ToSource

LEMMA SourceStands ==
  ASSUME ReplayInv, session.side = "source", OwnHistory(source),
         replay = <<>>, report = Pending, divergences = {}, histories' = histories,
         IsSession(session'), session'.side = "source", session'.phase # "answered",
         divergences' = divergences, report' = report
  PROVE  ReplayInv'
<1>1. /\ histories' = [source |-> source', replay |-> replay'] /\ source' = source
      /\ replay' = replay
  BY Kept DEF ReplayInv
<1>2. OwnHistory(source') /\ replay' = <<>> /\ report' = Pending /\ divergences' = {}
  BY <1>1
<1> QED BY <1>1, <1>2, ToSource

LEMMA RecordedIsCall ==
  ASSUME NEW run \in ModelRuns, NEW response \in Responses
  PROVE  IsEvent(Recorded(run, response)) /\ Recorded(run, response).kind = "ProviderCall"
<1> DEFINE ok == Attempt("Success", "request", Some(response), None)
           failed == Attempt("ServerError", "request", None, Some("unavailable"))
           id == canonical_provider_id(provider)
<1>1. IsAttempt(ok)
  <2>1. response.calls \in Seq({response.calls[k] : k \in DOMAIN response.calls})
    BY ReplayInputs
  <2>2. ok.response[1] = response /\ ok.stream = ok.response /\ ok.error = None
    BY DEF Attempt, Some
  <2> QED BY <2>1, <2>2 DEF IsAttempt, IsSeq
<1>2. IsAttempt(failed)
  BY DEF IsAttempt, Attempt
<1> HIDE DEF ok, failed, id
<1>3. IsSeq(<<ok>>) /\ IsSeq(<<failed, ok>>) /\ IsSeq(<<failed>>)
      /\ Len(<<ok>>) = 1 /\ Len(<<failed, ok>>) = 2 /\ Len(<<failed>>) = 1
  <2>1. <<failed, ok>> \in [1..2 -> {failed, ok}]
    OBVIOUS
  <2> QED BY <2>1, SeqOne, SeqMade
<1>4. \/ Recorded(run, response) = ProviderCall(id, <<ok>>, Some(response))
      \/ Recorded(run, response) = ProviderCall(id, <<failed, ok>>, Some(response))
      \/ Recorded(run, response) = ProviderCall(id, <<failed>>, None)
  <2>1. run \in {"once", "retried", "late", "failed"}
    BY ReplayInputs
  <2> QED BY <2>1 DEF Recorded, ok, failed, id
<1>5. ASSUME NEW attempts \in {<<ok>>, <<failed, ok>>, <<failed>>}, NEW stream
      PROVE  /\ IsEvent(ProviderCall(id, attempts, stream))
             /\ ProviderCall(id, attempts, stream).kind = "ProviderCall"
  <2>1. IsSeq(attempts) /\ Len(attempts) \in 1..2
        /\ \A i \in 1..Len(attempts) : attempts[i] \in {ok, failed}
    BY <1>3
  <2>2. \A i \in 1..Len(attempts) : IsAttempt(attempts[i])
    BY <1>1, <1>2, <2>1
  <2> DEFINE e == ProviderCall(id, attempts, stream)
  <2>3. e.attempts = attempts /\ e.kind = "ProviderCall"
    BY DEF ProviderCall
  <2> HIDE DEF e
  <2>4. IsEvent(e)
    BY <2>1, <2>2, <2>3 DEF IsEvent, IsCall, Kinds
  <2> QED BY <2>3, <2>4 DEF e
<1> QED BY <1>4, <1>5

LEMMA SourceModelCallKeeps == ASSUME ReplayInv, SourceModelCall PROVE ReplayInv'
<1>1. PICK response \in Responses, run \in ModelRuns :
        /\ Journal("source", <<Recorded(run, response)>>)
        /\ IF run = "failed" THEN RunFails
           ELSE /\ Answered(response) /\ Deviates({run} \ {"once"}) /\ UNCHANGED report
  BY DEF SourceModelCall
<1> DEFINE e == Recorded(run, response)
<1>2. IsEvent(e) /\ e.kind = "ProviderCall"
  BY RecordedIsCall
<1>3. Journal("source", <<e>>)
  BY <1>1
<1> HIDE DEF e
<1>4. IsHistory(<<e>>) /\ ToolsIn(<<e>>) = {}
  BY <1>2, OneEvent
<1>5. session.side = "source" /\ session.phase = "calling" /\ divergences' = divergences
  BY DEF SourceModelCall, Step
<1>6. IsSession(session) /\ IsSeq(response.calls)
  BY ReplayInputs DEF ReplayInv, Shape, IsSeq
<1>7. CASE run = "failed"
  <2>1. session' = [session EXCEPT !.phase = "failed"] /\ report' = report
    BY <1>1, <1>5, <1>7 DEF RunFails
  <2>2. IsSession(session') /\ session'.side = "source" /\ session'.phase = "failed"
    BY <1>5, <1>6, <2>1, NextPhase
  <2> QED BY <1>3, <1>4, <1>5, <2>1, <2>2, SourceGoesOn
<1>8. CASE run # "failed"
  <2>1. session' = [session EXCEPT !.phase = "answered", !.answer = Some(response)]
        /\ report' = report
    BY <1>1, <1>8 DEF Answered
  <2>2. IsSession(session') /\ session'.side = "source" /\ session'.answer = Some(response)
    BY <1>5, <1>6, <2>1 DEF IsSession
  <2>3. IsSeq(session'.answer[1].calls)
    BY <1>6, <2>2 DEF Some
  <2> QED BY <1>3, <1>4, <1>5, <2>1, <2>2, <2>3, SourceGoesOn
<1> QED BY <1>7, <1>8

\* The events of a batch: gates, and calls of certain tools.
LEMMA GatesAreEvents ==
  ASSUME NEW events, IsSeq(events),
         \A n \in 1..Len(events) : events[n].kind = "PermissionGate"
  PROVE  /\ IsHistory(events) /\ AllPlayed(events) /\ NoEnd(events) /\ ToolsIn(events) = {}
         /\ Cardinality(KindAt(events, "ProviderCall")) = 0
         /\ \A t : Cardinality(CallsOf(events, t)) = 0
<1>1. DOMAIN events = 1..Len(events)
  BY SeqFacts
<1>2. IsHistory(events) /\ AllPlayed(events) /\ NoEnd(events)
  BY DEF IsHistory, IsEvent, Kinds, AllPlayed, PlaysOnce, NoEnd
<1>3. ToolsIn(events) = {} /\ KindAt(events, "ProviderCall") = {}
      /\ \A t : CallsOf(events, t) = {}
  BY <1>1 DEF ToolsIn, KindAt, CallsOf
<1> QED BY <1>2, <1>3, FS_EmptySet

LEMMA CallsAreEvents ==
  ASSUME NEW events, IsSeq(events), AllCalls(events)
  PROVE  /\ IsHistory(events) /\ AllPlayed(events) /\ NoEnd(events)
         /\ ToolsIn(events) = {events[n].tool : n \in 1..Len(events)}
         /\ Cardinality(KindAt(events, "ProviderCall")) = 0
<1>1. DOMAIN events = 1..Len(events)
  BY SeqFacts
<1>2. IsHistory(events) /\ AllPlayed(events) /\ NoEnd(events)
  BY DEF IsHistory, IsEvent, Kinds, AllPlayed, PlaysOnce, NoEnd, AllCalls
<1>3. KindAt(events, "ProviderCall") = {} /\ KindAt(events, "ToolCall") = 1..Len(events)
  BY <1>1 DEF KindAt, AllCalls
<1>4. ToolsIn(events) = {events[n].tool : n \in 1..Len(events)}
  BY <1>3 DEF ToolsIn
<1> QED BY <1>2, <1>3, <1>4, FS_EmptySet

LEMMA GatesMade ==
  ASSUME NEW k \in Nat, NEW f, f = [n \in 1..k |-> f[n]],
         \A n \in 1..k : f[n].kind = "PermissionGate"
  PROVE  IsSeq(f) /\ \A n \in 1..Len(f) : f[n].kind = "PermissionGate"
<1>1. f \in [1..k -> {f[n] : n \in 1..k}]
  OBVIOUS
<1>2. IsSeq(f) /\ Len(f) = k
  BY <1>1, SeqMade
<1> QED BY <1>2

LEMMA CallsMade ==
  ASSUME NEW k \in Nat, NEW f, f = [n \in 1..k |-> f[n]], \A n \in 1..k : f[n].kind = "ToolCall"
  PROVE  IsSeq(f) /\ AllCalls(f) /\ Len(f) = k
<1>1. f \in [1..k -> {f[n] : n \in 1..k}]
  OBVIOUS
<1>2. IsSeq(f) /\ Len(f) = k
  BY <1>1, SeqMade
<1> QED BY <1>2 DEF AllCalls

\* After a batch the session is idle or calls the model.
LEMMA AfterBatch ==
  ASSUME IsSession(session), NEW events, NEW interrupted, BatchDone(events, interrupted)
  PROVE  /\ Journal(session.side, events \o <<AssistantTurn(Answer.text, Some(Answer.calls))>>)
         /\ IsSession(session') /\ session'.side = session.side
         /\ session'.phase \in {"idle", "calling"}
<1>1. CASE interrupted
  BY <1>1, IdleSession DEF BatchDone
<1>2. CASE ~interrupted
  BY <1>2 DEF BatchDone, IsSession
<1> QED BY <1>1, <1>2 DEF BatchDone

LEMMA SourceBatchKeeps == ASSUME ReplayInv, SourceBatch PROVE ReplayInv'
<1> DEFINE calls == Answer.calls
           gated == {i \in DOMAIN calls : Gated(calls[i])}
           asked == InOrder(gated)
           approvedBy(gates) == {i \in DOMAIN calls : Known(calls[i])
                                   /\ (Gated(calls[i]) => gates[i].decision = "allowed")}
           gateEvents(gates) ==
             [n \in DOMAIN asked |-> GateEvent(calls[asked[n]], gates[asked[n]])]
           callEvents(finished, output) ==
             [n \in DOMAIN finished |-> ToolCall(calls[finished[n]].tool,
                                                 calls[finished[n]].input, output[finished[n]])]
<1>1. PICK gates, interrupted :
        \E finished \in Orders(approvedBy(gates)) : \E output :
          BatchDone(gateEvents(gates) \o callEvents(finished, output), interrupted)
  BY Zenon DEF SourceBatch
<1>2. PICK finished \in Orders(approvedBy(gates)) : \E output :
        BatchDone(gateEvents(gates) \o callEvents(finished, output), interrupted)
  BY <1>1
<1>3. PICK output : BatchDone(gateEvents(gates) \o callEvents(finished, output), interrupted)
  BY <1>2
<1>4. /\ session.side = "source" /\ session.phase = "answered"
      /\ divergences' = divergences /\ report' = report
  BY DEF SourceBatch, Step
<1>5. IsSession(session) /\ IsSeq(calls)
  BY <1>4 DEF ReplayInv, Shape
<1>6. Len(calls) \in Nat /\ DOMAIN calls = 1..Len(calls)
  BY <1>5, SeqFacts
<1> DEFINE G == gateEvents(gates)
           C == callEvents(finished, output)
           turn == AssistantTurn(Answer.text, Some(Answer.calls))
           approved == approvedBy(gates)
<1>7. IsSeq(G) /\ \A n \in 1..Len(G) : G[n].kind = "PermissionGate"
  <2>1. gated \in SUBSET (1..Len(calls))
    BY <1>6
  <2> HIDE DEF gated
  <2>2. Cardinality(gated) \in Nat /\ DOMAIN asked = 1..Cardinality(gated)
    BY <1>6, <2>1, InOrderFacts
  <2>3. G = [n \in 1..Cardinality(gated) |-> G[n]]
    BY <2>2
  <2>4. \A n \in 1..Cardinality(gated) : G[n] = GateEvent(calls[asked[n]], gates[asked[n]])
    BY <2>2
  <2>5. \A c, g : GateEvent(c, g).kind = "PermissionGate"
    BY DEF GateEvent, PermissionGate
  <2> HIDE DEF G
  <2> QED BY <2>2, <2>3, <2>4, <2>5, GatesMade
<1>8. IsSeq(C) /\ AllCalls(C) /\ \A n \in 1..Len(C) : C[n].tool \in DOMAIN PermissionsOf
  <2>1. approved \in SUBSET (1..Len(calls)) /\ \A i \in approved : Known(calls[i])
    BY <1>6
  <2>2. Cardinality(approved) \in Nat
    BY <1>6, <2>1, FinitePart
  <2>3. DOMAIN finished = 1..Cardinality(approved)
        /\ \A n \in 1..Cardinality(approved) : finished[n] \in approved
    <3> HIDE DEF approved
    <3>1. finished \in [1..Cardinality(approved) -> approved]
      BY DEF Orders, approved
    <3> QED BY <3>1
  <2>4. C = [n \in 1..Cardinality(approved) |-> C[n]]
    BY <2>3
  <2>5. \A n \in 1..Cardinality(approved) :
          C[n].kind = "ToolCall" /\ C[n].tool = calls[finished[n]].tool
    BY <2>3 DEF ToolCall
  <2> HIDE DEF C, approved
  <2>6. IsSeq(C) /\ AllCalls(C) /\ Len(C) = Cardinality(approved)
    BY <2>2, <2>4, <2>5, CallsMade
  <2>7. \A n \in 1..Cardinality(approved) : Known(calls[finished[n]])
    BY <2>1, <2>3
  <2> QED BY <2>5, <2>6, <2>7 DEF Known
<1>9. BatchDone(G \o C, interrupted)
  BY <1>3
<1> HIDE DEF G, C
<1>10. IsHistory(G) /\ ToolsIn(G) = {}
  BY <1>7, GatesAreEvents
<1>11. IsHistory(C) /\ ToolsIn(C) \subseteq DOMAIN PermissionsOf
  BY <1>8, CallsAreEvents
<1>12. IsEvent(turn) /\ turn.kind = "AssistantTurn"
  BY TurnOfAssistant
<1>13. /\ Journal(session.side, (G \o C) \o <<turn>>)
       /\ IsSession(session') /\ session'.side = session.side
       /\ session'.phase \in {"idle", "calling"}
  BY <1>5, <1>9, AfterBatch
<1> HIDE DEF turn
<1>14. IsHistory(<<turn>>) /\ ToolsIn(<<turn>>) = {}
  BY <1>12, OneEvent
<1>15. IsHistory(G \o C) /\ ToolsIn(G \o C) \subseteq DOMAIN PermissionsOf
  BY <1>10, <1>11, HistoryGrows
<1>16. IsHistory((G \o C) \o <<turn>>)
       /\ ToolsIn((G \o C) \o <<turn>>) \subseteq DOMAIN PermissionsOf
  BY <1>14, <1>15, HistoryGrows
<1>17. Journal("source", (G \o C) \o <<turn>>) /\ session'.side = "source"
       /\ session'.phase # "answered"
  BY <1>4, <1>13
<1> QED BY <1>4, <1>13, <1>16, <1>17, SourceGoesOn

LEMMA SourceEndsKeeps == ASSUME ReplayInv, SourceEnds PROVE ReplayInv'
<1>1. IsEvent(SessionEnd) /\ SessionEnd.kind = "SessionEnd"
  BY DEF IsEvent, SessionEnd, Kinds
<1>2. IsHistory(<<SessionEnd>>) /\ ToolsIn(<<SessionEnd>>) = {}
  BY <1>1, OneEvent
<1>3. /\ session.side = "source" /\ session.phase # "ended" /\ Journal("source", <<SessionEnd>>)
      /\ session' = [session EXCEPT !.phase = "ended"]
      /\ divergences' = divergences /\ report' = report
  BY DEF SourceEnds, loopUnchanged
<1>4. IsSession(session') /\ session'.side = "source" /\ session'.phase = "ended"
  BY <1>3, NextPhase DEF ReplayInv, Shape
<1> QED BY <1>2, <1>3, <1>4, SourceGoesOn

LEMMA SourceCrashKeeps == ASSUME ReplayInv, SourceCrash PROVE ReplayInv'
<1>1. /\ session.side = "source" /\ session.phase # "ended" /\ histories' = histories
      /\ session' = [session EXCEPT !.phase = "crashed"]
      /\ divergences' = divergences /\ report' = report
  BY DEF SourceCrash
<1>2. IsSession(session') /\ session'.side = "source" /\ session'.phase = "crashed"
  BY <1>1, NextPhase DEF ReplayInv, Shape
<1>3. OwnHistory(source) /\ replay = <<>> /\ report = Pending /\ divergences = {}
  BY <1>1, NotEnded
<1> QED BY <1>1, <1>2, <1>3, SourceStands

LEMMA SourceResumesKeeps == ASSUME ReplayInv, SourceResumes PROVE ReplayInv'
<1>1. /\ session.side = "source" /\ source[1].config # OtelConfig /\ histories' = histories
      /\ session' = Idle("source") /\ divergences' = divergences /\ report' = report
  BY DEF SourceResumes
<1>2. IsSession(session') /\ session'.side = "source" /\ session'.phase = "idle"
  BY <1>1, IdleSession
<1>3. OwnHistory(source) /\ replay = <<>> /\ report = Pending /\ divergences = {}
  BY <1>1, NotEnded
<1> QED BY <1>1, <1>2, <1>3, SourceStands

(***************************************************************************)
(* The replay command.                                                     *)
(***************************************************************************)
LEMMA ReplayGoesOn ==
  ASSUME ReplayInv, session.side = "replay", session.phase # "over",
         NEW events, IsHistory(events), AllPlayed(events), NoEnd(events),
         Journal("replay", events), IsSession(session'), session'.side = "replay",
         session'.phase \in {"idle", "calling", "answered"},
         session'.phase = "answered" => IsSeq(session'.answer[1].calls),
         report' = report, Synced(source, replay \o events, cursors', divergences')
  PROVE  ReplayInv'
<1>1. Shape
  BY DEF ReplayInv
<1>2. Running /\ IsHistory(replay) /\ replay # <<>> /\ OwnHistory(source)
  BY NotOver
<1>3. /\ histories' = [source |-> source', replay |-> replay']
      /\ source' = source /\ replay' = replay \o events
  BY <1>1, Journaled
<1>4. IsHistory(replay') /\ replay' # <<>> /\ AllPlayed(replay') /\ NoEnd(replay')
  BY <1>2, <1>3, HistoryGrows DEF Running
<1>5. OwnHistory(source') /\ Synced(source', replay', cursors', divergences')
  BY <1>2, <1>3
<1>6. report' = Pending
  BY <1>2 DEF Running
<1> QED BY <1>3, <1>4, <1>5, <1>6, ToRunning

LEMMA ReplayBreaks ==
  ASSUME ReplayInv, session.side = "replay", session.phase # "over",
         NEW events, IsHistory(events), NoEnd(events), Journal("replay", events), RunFails,
         Synced(source, replay \o events, cursors', divergences')
  PROVE  ReplayInv'
<1>1. Shape
  BY DEF ReplayInv
<1>2. Running /\ IsHistory(replay) /\ replay # <<>> /\ OwnHistory(source)
  BY NotOver
<1>3. /\ histories' = [source |-> source', replay |-> replay']
      /\ source' = source /\ replay' = replay \o events
  BY <1>1, Journaled
<1>4. IsHistory(replay') /\ replay' # <<>> /\ NoEnd(replay')
  BY <1>2, <1>3, HistoryGrows DEF Running
<1>5. OwnHistory(source') /\ Synced(source', replay', cursors', divergences')
  BY <1>2, <1>3
<1>6. session' = [session EXCEPT !.phase = "over"] /\ report'.result = "failed"
  BY DEF RunFails
<1>7. IsSession(session') /\ session'.side = "replay" /\ session'.phase = "over"
  BY <1>1, <1>6, NextPhase DEF Shape
<1> QED BY <1>3, <1>4, <1>5, <1>6, <1>7, ToBrokenOff

LEMMA ReplayCommandKeeps == ASSUME ReplayInv, ReplayCommand PROVE ReplayInv'
<1>1. Shape /\ session.side = "source"
  BY DEF ReplayInv, ReplayCommand
<1>2. SourceSide
  BY <1>1 DEF ReplayInv
<1>3. CASE RefusesUsage(request') \/ ~Playable
  <2>1. /\ report'.result \in {"usage", "failed"} /\ histories' = histories
        /\ session' = [session EXCEPT !.side = "replay", !.phase = "over"]
    BY <1>3 DEF ReplayCommand
  <2>2. IsSession(session') /\ session'.side = "replay" /\ session'.phase = "over"
    BY <1>1, <2>1 DEF Shape, IsSession
  <2>3. histories' = [source |-> source', replay |-> replay'] /\ replay' = replay
    BY <1>1, <2>1, Kept
  <2>4. replay' = <<>>
    BY <1>2, <2>3 DEF SourceSide
  <2>5. Shape'
    BY <2>2, <2>3 DEF Shape
  <2>6. ReplaySide'
    BY <2>1, <2>2, <2>4 DEF ReplaySide, Refused
  <2> QED BY <2>2, <2>5, <2>6 DEF ReplayInv
<1>4. CASE ~(RefusesUsage(request') \/ ~Playable)
  <2> DEFINE e == SessionStart(request'.dir, Config("replay"))
  <2>1. /\ session' = Idle("replay") /\ Journal("replay", <<e>>) /\ report' = report
        /\ cursors' = [t \in RecordedTools \cup {"model"} |-> 0] /\ divergences' = divergences
    BY <1>4 DEF ReplayCommand
  <2>2. IsEvent(e) /\ e.kind = "SessionStart"
    BY DEF IsEvent, SessionStart, Kinds
  <2> HIDE DEF e
  <2>3. source[1].config # OtelConfig
    BY <1>4 DEF RefusesUsage
  <2>4. OwnHistory(source) /\ replay = <<>> /\ report = Pending /\ divergences = {}
    BY <1>2, <2>3 DEF SourceSide
  <2>5. /\ histories' = [source |-> source', replay |-> replay']
        /\ source' = source /\ replay' = replay \o <<e>>
    BY <1>1, <2>1, Journaled
  <2>6. replay' = <<e>>
    <3>1. <<>> \o <<e>> = <<e>>
      OBVIOUS
    <3> QED BY <2>4, <2>5, <3>1
  <2>7. IsHistory(replay') /\ replay' # <<>> /\ AllPlayed(replay') /\ NoEnd(replay')
    BY <2>2, <2>6, OneEvent DEF PlaysOnce
  <2>8. cursors' \in [ToolsIn(source) \cup {"model"} -> Nat] /\ cursors'["model"] = 0
        /\ \A t \in ToolsIn(source) : cursors'[t] = 0
    BY <2>1, NamesOfRecord
  <2>9. Cardinality(KindAt(source, "ProviderCall")) \in Nat
    BY <2>4, KindGrows DEF OwnHistory, IsHistory
  <2>10. /\ Cardinality(KindAt(<<e>>, "ProviderCall")) = 0
         /\ \A t : Cardinality(CallsOf(<<e>>, t)) = 0
    BY <2>2, OneEvent, FS_EmptySet
  <2>11. Synced(source, <<e>>, cursors', divergences')
    BY <2>8, <2>9, <2>10 DEF Synced
  <2>12. Synced(source', replay', cursors', divergences') /\ OwnHistory(source')
    BY <2>4, <2>5, <2>6, <2>11
  <2>13. IsSession(session') /\ session'.side = "replay" /\ session'.phase = "idle"
         /\ report' = Pending
    BY <2>1, <2>4, IdleSession
  <2> QED BY <2>5, <2>7, <2>12, <2>13, ToRunning
<1> QED BY <1>3, <1>4

\* The model calls on record, and their attempts.
LEMMA RecordedCall ==
  ASSUME IsHistory(source), NEW n \in 1..Cardinality(KindAt(source, "ProviderCall"))
  PROVE  IsCall(RecordedCalls[n])
<1>1. IsSeq(source)
  BY DEF IsHistory
<1>2. Len(source) \in Nat /\ DOMAIN source = 1..Len(source)
  BY <1>1, SeqFacts
<1> DEFINE P == KindAt(source, "ProviderCall")
<1>3. P \in SUBSET DOMAIN source /\ \A p \in P : source[p].kind = "ProviderCall"
  BY DEF KindAt
<1>4. RecordedCalls = At(source, P)
  BY DEF RecordedCalls, OfKind, KindAt
<1> HIDE DEF P
<1>5. \A k \in 1..Cardinality(P) : \E p \in P : At(source, P)[k] = source[p]
  BY <1>1, <1>3, AtFacts
<1>6. PICK p \in P : RecordedCalls[n] = source[p]
  BY <1>4, <1>5 DEF P
<1> QED BY <1>2, <1>3, <1>6 DEF IsHistory, IsEvent

\* A model call of the replay: one attempt.
LEMMA PlayedIsCall ==
  ASSUME NEW tried, IsAttempt(tried), NEW stream
  PROVE  LET e == ReplayedCall(tried, stream)
         IN /\ IsEvent(e) /\ e.kind = "ProviderCall"
            /\ tried.status = "Success" => PlaysOnce(e)
<1> DEFINE e == ReplayedCall(tried, stream)
<1>1. e.kind = "ProviderCall" /\ e.attempts = <<tried>>
  BY DEF ReplayedCall, ProviderCall
<1> HIDE DEF e
<1>2. IsSeq(<<tried>>) /\ Len(<<tried>>) = 1 /\ <<tried>>[1] = tried
  BY SeqOne
<1>3. IsEvent(e)
  BY <1>1, <1>2 DEF IsEvent, IsCall, Kinds
<1>4. tried.status = "Success" => PlaysOnce(e)
  BY <1>1, <1>2 DEF PlaysOnce
<1> QED BY <1>1, <1>3, <1>4 DEF e

\* A model call of the replay, with its cursor moved or the divergence noted.
LEMMA CallSynced ==
  ASSUME ReplayInv, session.side = "replay", session.phase # "over",
         NEW e, IsEvent(e), e.kind = "ProviderCall",
         \/ cursors' = cursors /\ divergences' # {}
         \/ /\ Advance("model")
            /\ divergences' = divergences \/ divergences' # {}
            /\ cursors["model"] # Cardinality(KindAt(source, "ProviderCall"))
  PROVE  Synced(source, replay \o <<e>>, cursors', divergences')
<1>1. IsHistory(replay) /\ OwnHistory(source) /\ Synced(source, replay, cursors, divergences)
  BY NotOver
<1>2. IsSeq(replay) /\ IsSeq(source)
  BY <1>1 DEF IsHistory, OwnHistory
<1>3. Cardinality(KindAt(source, "ProviderCall")) \in Nat
  BY <1>2, KindGrows
<1>4. cursors \in [ToolsIn(source) \cup {"model"} -> Nat]
      /\ cursors["model"] <= Cardinality(KindAt(source, "ProviderCall"))
  BY <1>1 DEF Synced
<1>5. "model" \notin ToolsIn(source)
  BY <1>1, ReplayInputs DEF OwnHistory
<1>6. Cardinality(KindAt(<<e>>, "ProviderCall")) = 1
  BY OneEvent
<1>7. \A t : Cardinality(CallsOf(<<e>>, t)) = 0
  BY OneEvent, FS_EmptySet
<1>8. IsSeq(<<e>>)
  BY SeqOne
<1>9. CASE cursors' = cursors /\ divergences' # {}
  BY <1>1, <1>2, <1>4, <1>8, <1>9, SyncedGrows
<1>10. CASE /\ Advance("model")
            /\ divergences' = divergences \/ divergences' # {}
            /\ cursors["model"] # Cardinality(KindAt(source, "ProviderCall"))
  <2>1. cursors' = [cursors EXCEPT !["model"] = cursors["model"] + 1]
    BY <1>10 DEF Advance
  <2>2. /\ cursors' \in [ToolsIn(source) \cup {"model"} -> Nat]
        /\ cursors'["model"] = cursors["model"] + 1
        /\ \A t \in ToolsIn(source) : cursors'[t] = cursors[t] /\ cursors[t] \in Nat
    BY <1>4, <1>5, <2>1
  <2>3. cursors["model"] \in Nat
        /\ cursors'["model"] <= Cardinality(KindAt(source, "ProviderCall"))
    BY <1>3, <1>4, <1>10, <2>2
  <2>4. \A t \in ToolsIn(source) : cursors'[t] = cursors[t] + Cardinality(CallsOf(<<e>>, t))
    BY <1>7, <2>2
  <2>5. cursors'["model"] = cursors["model"] + Cardinality(KindAt(<<e>>, "ProviderCall"))
    BY <1>6, <2>2
  <2>6. divergences' = {} => divergences = {}
    BY <1>10
  <2> QED BY <1>1, <1>2, <1>8, <2>2, <2>3, <2>4, <2>5, <2>6, SyncedGrows
<1> QED BY <1>9, <1>10

LEMMA PlayedKeeps ==
  ASSUME ReplayInv, session.side = "replay", session.phase # "over",
         NEW response, IsSeq(response.calls), Played(response),
         \/ cursors' = cursors /\ divergences' # {}
         \/ /\ Advance("model") /\ divergences' = divergences
            /\ cursors["model"] # Cardinality(KindAt(source, "ProviderCall"))
  PROVE  ReplayInv'
<1> DEFINE tried == Attempt("Success", "replay request", Some(response), None)
           e == ReplayedCall(tried, Some(response))
<1>1. IsAttempt(tried) /\ tried.status = "Success"
  BY DEF IsAttempt, Attempt, Some
<1>2. Journal("replay", <<e>>) /\ report' = report
      /\ session' = [session EXCEPT !.phase = "answered", !.answer = Some(response)]
  BY Zenon DEF Played, Answered
<1> HIDE DEF tried
<1>3. IsEvent(e) /\ e.kind = "ProviderCall" /\ PlaysOnce(e)
  BY <1>1, PlayedIsCall
<1> HIDE DEF e
<1>4. IsHistory(<<e>>) /\ AllPlayed(<<e>>) /\ NoEnd(<<e>>)
  BY <1>3, OneEvent
<1>5. Synced(source, replay \o <<e>>, cursors', divergences')
  BY <1>3, CallSynced
<1>6. /\ IsSession(session') /\ session'.side = "replay" /\ session'.phase = "answered"
      /\ session'.answer = Some(response)
  BY <1>2 DEF ReplayInv, Shape, IsSession
<1>7. IsSeq(session'.answer[1].calls)
  BY <1>6 DEF Some
<1> QED BY <1>2, <1>4, <1>5, <1>6, <1>7, ReplayGoesOn

LEMMA ReplayModelCallKeeps == ASSUME ReplayInv, ReplayModelCall PROVE ReplayInv'
<1>1. session.side = "replay" /\ session.phase = "calling"
  BY Zenon DEF ReplayModelCall, Step
<1>2. IsHistory(source) /\ IsSeq(source)
  BY <1>1, NotOver DEF OwnHistory, IsHistory
<1>3. Len(RecordedCalls) = Cardinality(KindAt(source, "ProviderCall"))
  BY <1>2, OfKindCounts DEF RecordedCalls
<1>4. CASE cursors["model"] = Len(RecordedCalls)
  <2>1. Played(Exhausted) /\ cursors' = cursors /\ divergences' # {}
    BY <1>4 DEF ReplayModelCall
  <2>2. IsSeq(Exhausted.calls)
    BY SeqNone DEF Exhausted
  <2> QED BY <1>1, <2>1, <2>2, PlayedKeeps
<1>5. CASE cursors["model"] # Len(RecordedCalls)
  <2> DEFINE attempts == RecordedCalls[cursors["model"] + 1].attempts
             S == {n \in DOMAIN attempts : attempts[n].status = "Success"}
             succeeded == At(attempts, S)
  <2>1. /\ Advance("model")
        /\ IF succeeded # <<>>
           THEN Played(succeeded[1].response[1]) /\ divergences' = divergences
           ELSE /\ Journal("replay",
                     <<ReplayedCall(Attempt("ServerError", "replay request", None,
                                            Some("no success")), None)>>)
                /\ divergences' # {} /\ RunFails
    BY <1>5, Zenon DEF ReplayModelCall
  <2>2. Synced(source, replay, cursors, divergences)
    BY <1>1, NotOver
  <2>3. cursors["model"] + 1 \in 1..Cardinality(KindAt(source, "ProviderCall"))
    <3>1. cursors["model"] \in Nat
          /\ cursors["model"] <= Cardinality(KindAt(source, "ProviderCall"))
      BY <2>2 DEF Synced
    <3>2. Cardinality(KindAt(source, "ProviderCall")) \in Nat
      BY <1>2, KindGrows
    <3> QED BY <1>3, <1>5, <3>1, <3>2
  <2>4. IsSeq(attempts) /\ \A i \in 1..Len(attempts) : IsAttempt(attempts[i])
    BY <1>2, <2>3, RecordedCall DEF IsCall
  <2>5. Advance("model") /\ cursors["model"] # Cardinality(KindAt(source, "ProviderCall"))
    <3>1. Advance("model")
      BY <2>1, Zenon
    <3> QED BY <1>3, <1>5, <3>1
  <2> HIDE DEF attempts
  <2>6. CASE succeeded # <<>>
    <3>1. S \in SUBSET DOMAIN attempts /\ DOMAIN attempts = 1..Len(attempts)
          /\ \A p \in S : attempts[p].status = "Success"
      BY <2>4, SeqFacts
    <3> HIDE DEF S
    <3>2. IsSeq(succeeded) /\ Len(succeeded) = Cardinality(S) /\ Cardinality(S) \in Nat
          /\ \A k \in 1..Cardinality(S) : \E p \in S : succeeded[k] = attempts[p]
      BY <2>4, <3>1, AtFacts
    <3>3. Len(succeeded) # 0
      BY <2>6, <3>2, SeqFacts
    <3>4. 1 \in 1..Cardinality(S)
      BY <3>2, <3>3
    <3>5. PICK p \in S : succeeded[1] = attempts[p]
      BY <3>2, <3>4
    <3>6. IsSeq(succeeded[1].response[1].calls)
      BY <2>4, <3>1, <3>5 DEF IsAttempt
    <3>7. Played(succeeded[1].response[1]) /\ divergences' = divergences
      BY <2>1, <2>6
    <3> DEFINE response == succeeded[1].response[1]
    <3>8. IsSeq(response.calls) /\ Played(response)
      BY <3>6, <3>7
    <3> HIDE DEF succeeded, response
    <3> QED BY <1>1, <2>5, <3>7, <3>8, PlayedKeeps
  <2>7. CASE succeeded = <<>>
    <3> DEFINE tried == Attempt("ServerError", "replay request", None, Some("no success"))
               e == ReplayedCall(tried, None)
    <3>1. IsAttempt(tried)
      BY DEF IsAttempt, Attempt
    <3>2. Journal("replay", <<e>>) /\ divergences' # {} /\ RunFails
      BY <2>1, <2>7, Zenon
    <3> HIDE DEF tried
    <3>3. IsEvent(e) /\ e.kind = "ProviderCall"
      BY <3>1, PlayedIsCall
    <3> HIDE DEF e
    <3>4. IsHistory(<<e>>) /\ NoEnd(<<e>>)
      BY <3>3, OneEvent
    <3>5. Synced(source, replay \o <<e>>, cursors', divergences')
      BY <1>1, <2>5, <3>2, <3>3, CallSynced
    <3> QED BY <1>1, <3>2, <3>4, <3>5, ReplayBreaks
  <2> QED BY <2>6, <2>7
<1> QED BY <1>4, <1>5

LEMMA ReplayBatchKeeps == ASSUME ReplayInv, ReplayBatch PROVE ReplayInv'
<1> DEFINE calls == Answer.calls
           known == {n \in DOMAIN calls : calls[n].tool \in RecordedTools}
           named == {n \in known : PermissionsOf[calls[n].tool] = "named"}
           denied == At(calls, named)
           unnamed == known \ named
           approved == At(calls, unnamed)
           played == PlayedInOrder(approved)
           G == [i \in DOMAIN denied |-> GateEvent(denied[i], DenyAllGate)]
           turn == AssistantTurn(Answer.text, Some(Answer.calls))
<1>1. /\ BatchDone(G \o played.events, FALSE)
      /\ cursors' = played.cursors /\ divergences' = played.divergences
      /\ report' = report
  BY Zenon DEF ReplayBatch
<1>2. session.side = "replay" /\ session.phase = "answered"
  BY DEF ReplayBatch, Step
<1>3. IsSession(session) /\ IsSeq(calls)
  BY <1>2 DEF ReplayInv, Shape
<1>4. /\ IsHistory(replay) /\ OwnHistory(source)
      /\ Synced(source, replay, cursors, divergences)
  BY <1>2, NotOver
<1>5. "model" \notin RecordedTools /\ cursors \in [RecordedTools \cup {"model"} -> Nat]
  BY <1>4, NamesOfRecord, ReplayInputs DEF OwnHistory, Synced
<1>6. named \in SUBSET DOMAIN calls /\ unnamed \in SUBSET DOMAIN calls
      /\ \A p \in unnamed : calls[p].tool \in RecordedTools
  OBVIOUS
<1> HIDE DEF known, named, unnamed, calls
<1>7. IsSeq(denied) /\ DOMAIN denied = 1..Len(denied) /\ Len(denied) \in Nat
  BY <1>3, <1>6, AtFacts, SeqFacts
<1>8. IsSeq(G) /\ \A n \in 1..Len(G) : G[n].kind = "PermissionGate"
  <2>1. G = [n \in 1..Len(denied) |-> G[n]]
        /\ \A n \in 1..Len(denied) : G[n] = GateEvent(denied[n], DenyAllGate)
    BY <1>7
  <2>2. \A c, g : GateEvent(c, g).kind = "PermissionGate"
    BY DEF GateEvent, PermissionGate
  <2> HIDE DEF G
  <2> QED BY <1>7, <2>1, <2>2, GatesMade
<1>9. IsSeq(approved) /\ \A n \in 1..Len(approved) : approved[n].tool \in RecordedTools
  <2>1. IsSeq(approved) /\ Len(approved) = Cardinality(unnamed)
        /\ \A k \in 1..Cardinality(unnamed) : \E p \in unnamed : approved[k] = calls[p]
    BY <1>3, <1>6, AtFacts
  <2> HIDE DEF approved
  <2> QED BY <1>6, <2>1
<1> HIDE DEF approved, denied
<1>10. PlayInv(played)
  BY <1>5, <1>9, BatchPlayed
<1> HIDE DEF played, G
<1> DEFINE E == played.events
<1>11. IsSeq(E) /\ AllCalls(E)
  BY <1>10 DEF PlayInv
<1>12. IsEvent(turn) /\ turn.kind = "AssistantTurn"
  BY TurnOfAssistant
<1>13. /\ Journal(session.side, (G \o E) \o <<turn>>)
       /\ IsSession(session') /\ session'.side = session.side
       /\ session'.phase \in {"idle", "calling"}
  BY <1>1, <1>3, AfterBatch DEF calls
<1> HIDE DEF turn
<1>14. /\ IsHistory(<<turn>>) /\ AllPlayed(<<turn>>) /\ NoEnd(<<turn>>) /\ IsSeq(<<turn>>)
       /\ Cardinality(KindAt(<<turn>>, "ProviderCall")) = 0
       /\ \A t : Cardinality(CallsOf(<<turn>>, t)) = 0
  BY <1>12, OneEvent, SeqOne, FS_EmptySet DEF PlaysOnce
<1>15. /\ IsHistory(G) /\ AllPlayed(G) /\ NoEnd(G)
       /\ Cardinality(KindAt(G, "ProviderCall")) = 0
       /\ \A t : Cardinality(CallsOf(G, t)) = 0
  BY <1>8, GatesAreEvents
<1>16. /\ IsHistory(E) /\ AllPlayed(E) /\ NoEnd(E)
       /\ Cardinality(KindAt(E, "ProviderCall")) = 0
  BY <1>11, CallsAreEvents
<1> HIDE DEF E
<1> DEFINE GE == G \o E
<1>17. IsHistory(GE) /\ AllPlayed(GE) /\ NoEnd(GE)
  BY <1>15, <1>16, HistoryGrows
<1>18. Cardinality(KindAt(GE, "ProviderCall")) = 0
       /\ \A t : Cardinality(CallsOf(GE, t)) = Cardinality(CallsOf(E, t))
                 /\ Cardinality(CallsOf(E, t)) \in Nat
  <2>1. Cardinality(KindAt(GE, "ProviderCall")) = 0 + 0
    BY <1>8, <1>11, <1>15, <1>16, KindGrows DEF E
  <2>2. \A t : Cardinality(CallsOf(GE, t)) = 0 + Cardinality(CallsOf(E, t))
               /\ Cardinality(CallsOf(E, t)) \in Nat
    BY <1>8, <1>11, <1>15, CallsGrow DEF E
  <2> QED BY <2>1, <2>2
<1> DEFINE events == GE \o <<turn>>
<1> HIDE DEF GE
<1>19. IsSeq(GE)
  BY <1>17 DEF IsHistory
<1>20. IsHistory(events) /\ AllPlayed(events) /\ NoEnd(events) /\ IsSeq(events)
  <2>1. IsHistory(events) /\ AllPlayed(events) /\ NoEnd(events)
    BY <1>14, <1>17, HistoryGrows
  <2> QED BY <2>1 DEF IsHistory
<1>21. Cardinality(KindAt(events, "ProviderCall")) = 0
       /\ \A t : Cardinality(CallsOf(events, t)) = Cardinality(CallsOf(E, t))
  <2>1. Cardinality(KindAt(events, "ProviderCall")) = 0 + 0
    BY <1>14, <1>18, <1>19, KindGrows
  <2>2. \A t : Cardinality(CallsOf(events, t)) = Cardinality(CallsOf(E, t)) + 0
    BY <1>14, <1>18, <1>19, CallsGrow
  <2> QED BY <1>18, <2>1, <2>2
<1>22. Journal("replay", events) /\ session'.side = "replay"
  BY <1>2, <1>13 DEF GE
<1> HIDE DEF events
<1>23. /\ cursors' \in [ToolsIn(source) \cup {"model"} -> Nat]
       /\ cursors'["model"] = cursors["model"]
       /\ divergences' = {} =>
            /\ divergences = {}
            /\ \A t \in ToolsIn(source) : cursors'[t] = cursors[t] + Cardinality(CallsOf(E, t))
  BY <1>1, <1>10, NamesOfRecord DEF PlayInv, E
<1>24. Synced(source, replay \o events, cursors', divergences')
  <2>1. cursors["model"] \in Nat
        /\ cursors["model"] <= Cardinality(KindAt(source, "ProviderCall"))
    BY <1>4 DEF Synced
  <2>2. divergences' = {} =>
          /\ divergences = {}
          /\ cursors'["model"] = cursors["model"] + Cardinality(KindAt(events, "ProviderCall"))
          /\ \A t \in ToolsIn(source) :
               cursors'[t] = cursors[t] + Cardinality(CallsOf(events, t))
    BY <1>21, <1>23, <2>1
  <2>3. IsSeq(replay)
    BY <1>4 DEF IsHistory
  <2> QED BY <1>4, <1>20, <1>23, <2>1, <2>2, <2>3, SyncedGrows
<1>25. session'.phase # "answered" /\ session'.phase \in {"idle", "calling", "answered"}
       /\ IsSession(session')
  BY <1>13
<1> QED BY <1>1, <1>2, <1>20, <1>22, <1>24, <1>25, ReplayGoesOn

LEMMA ReplayEndsKeeps == ASSUME ReplayInv, ReplayEnds PROVE ReplayInv'
<1> DEFINE found == divergences \cup compare(request.mode, source, Append(replay, SessionEnd))
<1>1. /\ session.side = "replay" /\ session.phase = "idle"
      /\ Journal("replay", <<SessionEnd>>) /\ session' = [session EXCEPT !.phase = "over"]
      /\ request' = request /\ cursors' = cursors /\ divergences' = divergences
  BY DEF ReplayEnds, Step
<1>2. report' = [result |-> IF found = {} THEN "passed" ELSE "diverged", divergences |-> found]
  BY Zenon DEF ReplayEnds
<1>3. Shape
  BY DEF ReplayInv
<1>4. /\ Running /\ IsHistory(replay) /\ replay # <<>> /\ OwnHistory(source)
      /\ Synced(source, replay, cursors, divergences)
  BY <1>1, NotOver
<1>5. /\ histories' = [source |-> source', replay |-> replay']
      /\ source' = source /\ replay' = replay \o <<SessionEnd>>
  BY <1>1, <1>3, Journaled
<1>6. IsEvent(SessionEnd) /\ SessionEnd.kind = "SessionEnd"
  BY DEF IsEvent, SessionEnd, Kinds
<1>7. IsHistory(<<SessionEnd>>) /\ AllPlayed(<<SessionEnd>>)
  BY <1>6, OneEvent DEF PlaysOnce
<1>8. IsHistory(replay') /\ replay' # <<>> /\ AllPlayed(replay')
  BY <1>4, <1>5, <1>7, HistoryGrows DEF Running
<1>9. Synced(source', replay', cursors', divergences')
  BY <1>1, <1>4, <1>5, <1>6, SyncedStays DEF IsHistory
<1>10. IsSession(session') /\ session'.side = "replay" /\ session'.phase = "over"
  BY <1>1, <1>3, NextPhase DEF Shape
<1>11. Append(replay, SessionEnd) = replay'
  BY <1>4, <1>5, AppendedOne DEF IsHistory
<1>12. found = divergences' \cup compare(request'.mode, source', replay')
  BY <1>1, <1>5, <1>11
<1>13. /\ report'.result \in {"passed", "diverged"}
       /\ report'.result = "passed" =>
            divergences' = {} /\ compare(request'.mode, source', replay') = {}
  <2> HIDE DEF found
  <2>1. report'.result = IF found = {} THEN "passed" ELSE "diverged"
    BY <1>2
  <2>2. found = {} => divergences' = {} /\ compare(request'.mode, source', replay') = {}
    BY <1>12
  <2> QED BY <2>1, <2>2
<1>14. Shape'
  BY <1>5, <1>10 DEF Shape
<1>15. Compared'
  BY <1>8, <1>10, <1>13 DEF Compared
<1>16. OwnHistory(source')
  BY <1>4, <1>5
<1>17. ReplaySide'
  BY <1>8, <1>9, <1>15, <1>16 DEF ReplaySide
<1> QED BY <1>10, <1>14, <1>17 DEF ReplayInv

LEMMA ReplayStutters == ASSUME ReplayInv, UNCHANGED replayVars PROVE ReplayInv'
BY DEF ReplayInv, replayVars, Shape, SourceSide, ReplaySide, Refused, Running, BrokenOff,
       Compared, source, replay, Answer

\* In every state a recording goes on alone or is left alone, and a running replay
\* has played exactly what its cursors say.
THEOREM ReplayInductive == Spec => []ReplayInv
<1>1. ReplayInv /\ [Next]_replayVars => ReplayInv'
  <2> SUFFICES ASSUME ReplayInv, [Next]_replayVars PROVE ReplayInv'
    OBVIOUS
  <2>1. CASE Next
    BY <2>1, SourcePromptKeeps, SourceModelCallKeeps, SourceBatchKeeps, SourceEndsKeeps,
       SourceCrashKeeps, SourceResumesKeeps, LimitKeeps, TurnEndsKeeps, ContinuesKeeps,
       UnanswerableKeeps, ReplayCommandKeeps, ReplayPromptKeeps, ReplayModelCallKeeps,
       ReplayBatchKeeps, ReplayEndsKeeps DEF Next
  <2>2. CASE UNCHANGED replayVars
    BY <2>2, ReplayStutters
  <2> QED BY <2>1, <2>2
<1> QED BY <1>1, ReplayInvInit, PTL DEF Spec

\* A replay that passed did all the recorded session did, in the same order, with
\* every recorded model and tool call played; and strict replay and diff agree.
THEOREM VerdictsAlwaysRight == Spec => []VerdictsAreRight
<1>1. ReplayInv => VerdictsAreRight
  <2> SUFFICES ASSUME ReplayInv PROVE VerdictsAreRight
    OBVIOUS
  <2>1. ASSUME Passed
        PROVE  /\ Conduct(replay) = Conduct(source)
               /\ cursors["model"] = ModelCalls(source)
               /\ \A t \in RecordedTools : cursors[t] = Len(RecordedTool(t))
    <3>1. session.side = "replay"
      BY <2>1 DEF ReplayInv, Shape, SourceSide, Passed, Pending
    <3>2. /\ IsHistory(replay) /\ OwnHistory(source)
          /\ Synced(source, replay, cursors, divergences) /\ Compared
      BY <2>1, <3>1 DEF ReplayInv, ReplaySide, Refused, Running, BrokenOff, Passed, Pending
    <3>3. divergences = {} /\ compare(request.mode, source, replay) = {}
      BY <2>1, <3>2 DEF Compared, Passed
    <3>4. IsHistory(source) /\ IsSeq(source) /\ IsSeq(replay)
      BY <3>2 DEF OwnHistory, IsHistory
    <3>5. /\ Conduct(replay) = Conduct(source) /\ Len(source) = Len(replay)
          /\ \A n \in 1..Len(source) :
               source[n].kind = replay[n].kind
               /\ (source[n].kind = "ToolCall" => source[n].tool = replay[n].tool)
      BY <3>2, <3>3, <3>4, NothingFound
    <3>6. DOMAIN source = 1..Len(source) /\ DOMAIN replay = 1..Len(source)
      BY <3>4, <3>5, SeqFacts
    <3>7. KindAt(source, "ProviderCall") = KindAt(replay, "ProviderCall")
      BY <3>5, <3>6 DEF KindAt
    <3>8. \A t : CallsOf(source, t) = CallsOf(replay, t)
      BY <3>5, <3>6 DEF CallsOf
    <3>9. cursors["model"] = ModelCalls(source)
      BY <3>2, <3>3, <3>4, <3>7, OfKindCounts DEF Synced, ModelCalls
    <3>10. \A t \in RecordedTools : cursors[t] = Len(RecordedTool(t))
      BY <3>2, <3>3, <3>4, <3>8, CallsOfCounts, NamesOfRecord DEF Synced, RecordedTool
    <3> QED BY <3>5, <3>9, <3>10
  <2>2. ASSUME Finished, replay # <<>>, LastOf(replay).kind = "SessionEnd"
        PROVE  compare_strict_mode(source, replay) = {} <=>
                 /\ run_inner(source, replay).structural_break = None
                 /\ \A d \in run_inner(source, replay).differences :
                      is_informational(d) \/ d.field = "config"
    <3>1. session.side = "replay"
      BY <2>2 DEF ReplayInv, Shape, SourceSide
    <3>2. /\ IsHistory(replay) /\ OwnHistory(source)
          /\ Running \/ BrokenOff \/ Compared
      BY <2>2, <3>1 DEF ReplayInv, ReplaySide, Refused
    <3>3. IsSeq(replay) /\ IsHistory(source)
      BY <3>2 DEF IsHistory, OwnHistory
    <3>4. Len(replay) \in 1..Len(replay) /\ replay[Len(replay)].kind = "SessionEnd"
      BY <2>2, <3>3, SeqFacts DEF LastOf
    <3>5. ~NoEnd(replay)
      BY <3>4 DEF NoEnd
    <3>6. AllPlayed(replay)
      BY <3>2, <3>5 DEF Running, BrokenOff, Compared
    <3> QED BY <3>2, <3>3, <3>6, ComparisonsAgree
  <2> QED BY <2>1, <2>2, Zenon DEF VerdictsAreRight
<1> QED BY <1>1, ReplayInductive, PTL

\* The number of an element that is not past p is its place.
LEMMA Placed ==
  ASSUME NEW n \in Nat, NEW S \in SUBSET (1..n), NEW p \in S,
         NEW r, Cardinality({q \in S : q <= p}) = r
  PROVE  r \in 1..Cardinality(S) /\ InOrder(S)[r] = p
<1> DEFINE Below(x) == {q \in S : q <= x}
<1>1. \A x \in S : Below(x) \in SUBSET S /\ Below(x) \in SUBSET (1..n)
                   /\ IsFiniteSet(Below(x)) /\ Cardinality(Below(x)) \in Nat
  BY FinitePart
<1>2. IsFiniteSet(S) /\ Cardinality(S) \in Nat
  BY FinitePart
<1>3. ASSUME NEW x \in S, NEW y \in S, x < y
      PROVE  Cardinality(Below(x)) # Cardinality(Below(y))
  <2>0. x \in Int /\ y \in Int /\ \A q \in S : q \in Int
    OBVIOUS
  <2>1. Below(x) \in SUBSET Below(y) /\ y \in Below(y) /\ y \notin Below(x)
    <3>1. ASSUME NEW q \in S, q <= x PROVE q <= y
      BY <2>0, <1>3, <3>1
    <3>2. y \in Below(y) /\ y \notin Below(x)
      BY <2>0, <1>3
    <3> QED BY <3>1, <3>2
  <2>2. IsFiniteSet(Below(y)) /\ Below(x) # Below(y)
    BY <1>1, <2>1
  <2> HIDE DEF Below
  <2> QED BY <2>1, <2>2, FS_Subset
<1>4. \A x \in S : Cardinality(Below(x)) = r => x = p
  <2> HIDE DEF Below
  <2>1. Cardinality(Below(p)) = r
    BY DEF Below
  <2>2. SUFFICES ASSUME NEW x \in S, Cardinality(Below(x)) = r, x # p PROVE FALSE
    OBVIOUS
  <2>3. x \in Nat /\ p \in Nat
    OBVIOUS
  <2>4. CASE x < p
    BY <2>1, <2>2, <2>4, <1>3
  <2>5. CASE p < x
    BY <2>1, <2>2, <2>5, <1>3
  <2> QED BY <2>2, <2>3, <2>4, <2>5
<1>5. r \in 1..Cardinality(S)
  <2>1. p \in Below(p) /\ Cardinality(Below(p)) = r
    OBVIOUS
  <2> HIDE DEF Below
  <2>2. Cardinality(Below(p)) # 0
    BY <1>1, <2>1, FS_EmptySet
  <2>3. Cardinality(Below(p)) <= Cardinality(S)
    BY <1>1, <1>2, FS_Subset
  <2> QED BY <1>1, <1>2, <2>1, <2>2, <2>3
<1>6. (CHOOSE x \in S : Cardinality({q \in S : q <= x}) = r) = p
  BY <1>4
<1> QED BY <1>5, <1>6 DEF InOrder

\* And each place is somebody's.
LEMMA Place ==
  ASSUME NEW n \in Nat, NEW S \in SUBSET (1..n), NEW r \in 1..Cardinality(S)
  PROVE  /\ InOrder(S)[r] \in S
         /\ Cardinality({q \in S : q <= InOrder(S)[r]}) = r
<1>1. PICK p \in S : Cardinality({q \in S : q <= p}) = r
  BY Ranked
<1>2. InOrder(S)[r] = p
  BY <1>1, Placed
<1> QED BY <1>1, <1>2

LEMMA OrderOfInterval ==
  ASSUME NEW n \in Nat
  PROVE  Cardinality(1..n) = n /\ InOrder(1..n) = [i \in 1..n |-> i]
<1>1. Cardinality(1..n) = n
  BY FS_Interval
<1>2. ASSUME NEW i \in 1..n PROVE InOrder(1..n)[i] = i
  <2>1. {q \in 1..n : q <= i} = 1..i
    OBVIOUS
  <2>2. Cardinality(1..i) = i
    BY FS_Interval
  <2> QED BY <2>1, <2>2, Placed
<1>3. InOrder(1..n) \in [1..n -> 1..n]
  BY <1>1, InOrderFacts
<1> QED BY <1>1, <1>2, <1>3

LEMMA AllOfThem ==
  ASSUME NEW s, IsSeq(s) PROVE At(s, DOMAIN s) = s
<1>1. Len(s) \in Nat /\ DOMAIN s = 1..Len(s) /\ s = [i \in 1..Len(s) |-> s[i]]
  BY SeqFacts
<1>2. InOrder(1..Len(s)) = [i \in 1..Len(s) |-> i]
  BY <1>1, OrderOfInterval
<1>3. At(s, DOMAIN s) = [i \in 1..Len(s) |-> s[i]]
  BY <1>1, <1>2 DEF At
<1> QED BY <1>1, <1>3

LEMMA NoneOfThem == ASSUME NEW s PROVE At(s, {}) = <<>>
<1>1. InOrder({}) = <<>>
  BY FS_EmptySet DEF InOrder
<1> QED BY <1>1 DEF At

\* The elements up to m come first.
LEMMA OrderBegins ==
  ASSUME NEW n \in Nat, NEW S \in SUBSET (1..n), NEW m \in Nat
  PROVE  LET R == {k \in S : k <= m}
         IN  /\ Cardinality(R) <= Cardinality(S)
             /\ InOrder(R) = SubSeq(InOrder(S), 1, Len(InOrder(R)))
<1> DEFINE R == {k \in S : k <= m}
           c == Cardinality(R)
<1>1. R \in SUBSET S /\ R \in SUBSET (1..n) /\ IsFiniteSet(S)
  BY FinitePart
<1>2. c \in Nat /\ c <= Cardinality(S) /\ Cardinality(S) \in Nat
  BY <1>1, FS_Subset, FinitePart
<1>3. InOrder(R) \in [1..c -> R] /\ Len(InOrder(R)) = c /\ InOrder(S) \in [1..Cardinality(S) -> S]
  BY <1>1, InOrderFacts
<1>4. ASSUME NEW r \in 1..c PROVE InOrder(S)[r] = InOrder(R)[r]
  <2> DEFINE p == InOrder(R)[r]
  <2>1. p \in R /\ Cardinality({q \in R : q <= p}) = r
    BY <1>1, Place
  <2>2. {q \in R : q <= p} = {q \in S : q <= p}
    <3> HIDE DEF p
    <3>1. p \in Int /\ p <= m /\ \A q \in S : q \in Int
      BY <2>1
    <3>2. ASSUME NEW q \in S, q <= p PROVE q <= m
      BY <3>1, <3>2
    <3> QED BY <3>2
  <2> HIDE DEF R, p
  <2>3. p \in S /\ Cardinality({q \in S : q <= p}) = r
    BY <2>1, <2>2, <1>1
  <2>4. InOrder(S)[r] = p
    BY <2>3, Placed
  <2> QED BY <2>4 DEF p
<1> HIDE DEF R
<1>5. InOrder(R) = [r \in 1..c |-> InOrder(S)[r]]
  BY <1>2, <1>3, <1>4
<1>6. SubSeq(InOrder(S), 1, c) = [r \in 1..c |-> InOrder(S)[r]]
  BY <1>2, <1>3
<1> QED BY <1>2, <1>3, <1>5, <1>6 DEF R
LEMMA MadeEqual ==
  ASSUME NEW s, IsSeq(s), NEW t, IsSeq(t), Len(s) = Len(t), \A k \in 1..Len(s) : s[k] = t[k]
  PROVE  s = t
<1>1. s = [k \in 1..Len(s) |-> s[k]] /\ t = [k \in 1..Len(t) |-> t[k]]
  BY SeqFacts
<1> QED BY <1>1

LEMMA PositionsFacts ==
  ASSUME NEW s, IsSeq(s)
  PROVE  /\ IsSeq(Positions(s)) /\ Len(Positions(s)) = Len(s)
         /\ \A k \in 1..Len(s) : Positions(s)[k] = s[k].at
<1>1. Len(s) \in Nat /\ DOMAIN s = 1..Len(s)
  BY SeqFacts
<1>2. Positions(s) = [k \in 1..Len(s) |-> s[k].at]
  BY <1>1 DEF Positions
<1> DEFINE f == [k \in 1..Len(s) |-> s[k].at]
<1>3. f \in [1..Len(s) -> {s[k].at : k \in 1..Len(s)}]
  OBVIOUS
<1>4. \A k \in 1..Len(s) : f[k] = s[k].at
  OBVIOUS
<1> HIDE DEF f
<1>5. IsSeq(f) /\ Len(f) = Len(s)
  BY <1>1, <1>3, SeqMade
<1> QED BY <1>2, <1>4, <1>5 DEF f

LEMMA PositionsConcat ==
  ASSUME NEW s, IsSeq(s), NEW t, IsSeq(t)
  PROVE  Positions(s \o t) = Positions(s) \o Positions(t)
<1> DEFINE u == s \o t
           p == Positions(s)
           q == Positions(t)
           r == Positions(u)
<1>1. /\ IsSeq(u) /\ Len(u) = Len(s) + Len(t) /\ Len(s) \in Nat /\ Len(t) \in Nat
      /\ (\A i \in 1..Len(s) : u[i] = s[i]) /\ (\A i \in 1..Len(t) : u[Len(s) + i] = t[i])
  <2>1. /\ IsSeq(u) /\ Len(u) = Len(s) + Len(t)
        /\ (\A i \in 1..Len(s) : u[i] = s[i]) /\ (\A i \in 1..Len(t) : u[Len(s) + i] = t[i])
    BY SeqConcat
  <2>2. Len(s) \in Nat /\ Len(t) \in Nat
    BY SeqFacts
  <2> QED BY <2>1, <2>2
<1> HIDE DEF u
<1>2. /\ IsSeq(p) /\ Len(p) = Len(s) /\ IsSeq(q) /\ Len(q) = Len(t) /\ IsSeq(r) /\ Len(r) = Len(u)
      /\ (\A k \in 1..Len(s) : p[k] = s[k].at) /\ (\A k \in 1..Len(t) : q[k] = t[k].at)
      /\ (\A k \in 1..Len(u) : r[k] = u[k].at)
  BY <1>1, PositionsFacts
<1> HIDE DEF p, q, r
<1>3. /\ IsSeq(p \o q) /\ Len(p \o q) = Len(s) + Len(t)
      /\ (\A i \in 1..Len(s) : (p \o q)[i] = p[i])
      /\ (\A i \in 1..Len(t) : (p \o q)[Len(s) + i] = q[i])
  <2>1. /\ IsSeq(p \o q) /\ Len(p \o q) = Len(p) + Len(q)
        /\ (\A i \in 1..Len(p) : (p \o q)[i] = p[i])
        /\ (\A i \in 1..Len(q) : (p \o q)[Len(p) + i] = q[i])
    <3>1. IsSeq(p) /\ IsSeq(q)
      BY <1>2
    <3> QED BY <3>1, SeqConcat
  <2> QED BY <1>2, <2>1
<1>4. ASSUME NEW k \in 1..Len(u) PROVE r[k] = (p \o q)[k]
  <2>1. CASE k <= Len(s)
    <3>1. k \in 1..Len(s)
      BY <1>1, <2>1
    <3> QED BY <3>1, <1>1, <1>2, <1>3
  <2>2. CASE ~(k <= Len(s))
    <3>1. k - Len(s) \in 1..Len(t) /\ Len(s) + (k - Len(s)) = k
      BY <1>1, <2>2
    <3>2. PICK j \in 1..Len(t) : k = Len(s) + j
      BY <3>1
    <3>3. u[k] = t[j] /\ (p \o q)[k] = q[j]
      BY <3>2, <1>1, <1>3
    <3> QED BY <3>3, <1>2
  <2> QED BY <2>1, <2>2
<1>5. r = p \o q
  BY <1>1, <1>2, <1>3, <1>4, MadeEqual
<1> QED BY <1>5 DEF p, q, r, u

\* Positions in the first, then in the second, of two sequences put together.
Within(S, s) == S \in SUBSET DOMAIN s
InBoth(n, S, R) == S \cup Shifted(n, R)

LEMMA AtConcat ==
  ASSUME NEW s, IsSeq(s), NEW t, IsSeq(t), NEW S, Within(S, s), NEW R, Within(R, t)
  PROVE  At(s \o t, InBoth(Len(s), S, R)) = At(s, S) \o At(t, R)
<1> DEFINE n == Len(s)
           m == Len(t)
           u == s \o t
           U == S \cup Shifted(n, R)
           c == Cardinality(S)
           d == Cardinality(R)
<1>1. /\ n \in Nat /\ DOMAIN s = 1..n /\ m \in Nat /\ DOMAIN t = 1..m
      /\ IsSeq(u) /\ Len(u) = n + m /\ DOMAIN u = 1..(n + m)
      /\ (\A i \in 1..n : u[i] = s[i]) /\ (\A i \in 1..m : u[n + i] = t[i])
  <2>1. IsSeq(u) /\ Len(u) = Len(s) + Len(t)
        /\ (\A i \in 1..Len(s) : u[i] = s[i]) /\ (\A i \in 1..Len(t) : u[Len(s) + i] = t[i])
    BY SeqConcat
  <2> HIDE DEF u
  <2> QED BY <2>1, SeqFacts
<1> HIDE DEF n, m, u
<1>2. /\ S \in SUBSET (1..n) /\ R \in SUBSET (1..m) /\ IsFiniteSet(R)
      /\ c \in Nat /\ d \in Nat
  <2>1. S \in SUBSET (1..n) /\ R \in SUBSET (1..m)
    BY <1>1 DEF Within
  <2> QED BY <1>1, <2>1, FinitePart
<1>3. n + m \in Nat /\ U \in SUBSET (1..(n + m))
  <2>1. ASSUME NEW k \in R PROVE n + k \in 1..(n + m)
    BY <1>1, <1>2
  <2>2. \A k \in S : k \in 1..(n + m)
    BY <1>1, <1>2
  <2> QED BY <1>1, <2>1, <2>2 DEF Shifted
<1>4. Cardinality(U) = c + d
  <2>1. R \in SUBSET (Nat \ {0})
    BY <1>2
  <2> QED BY <1>1, <1>2, <2>1, ShiftedCount
<1>5. ASSUME NEW r \in 1..c PROVE InOrder(U)[r] = InOrder(S)[r] /\ InOrder(S)[r] \in 1..n
  <2> DEFINE p == InOrder(S)[r]
  <2>1. p \in S /\ Cardinality({q \in S : q <= p}) = r
    BY <1>1, <1>2, Place
  <2> HIDE DEF p, c
  <2>2. p \in 1..n
    BY <1>2, <2>1
  <2>3. \A q \in Shifted(n, R) : ~(q <= p)
    <3>1. ASSUME NEW q \in R PROVE ~(n + q <= p)
      BY <1>1, <1>2, <2>2
    <3> QED BY <3>1 DEF Shifted
  <2>4. {q \in U : q <= p} = {q \in S : q <= p}
    BY <2>3
  <2>5. p \in U /\ Cardinality({q \in U : q <= p}) = r
    BY <2>1, <2>4
  <2> HIDE DEF U
  <2>6. InOrder(U)[r] = p
    BY <1>3, <2>5, Placed
  <2> QED BY <2>2, <2>6 DEF p
<1>6. ASSUME NEW r \in 1..d
      PROVE  InOrder(U)[c + r] = n + InOrder(R)[r] /\ InOrder(R)[r] \in 1..m
  <2> DEFINE p == InOrder(R)[r]
             B == {q \in R : q <= p}
  <2>1. p \in R /\ Cardinality(B) = r
    BY <1>1, <1>2, Place
  <2> HIDE DEF p, c, d
  <2>2. p \in 1..m /\ B \in SUBSET R
    BY <1>2, <2>1
  <2>3. \A q \in S : q <= n + p
    BY <1>1, <1>2, <2>2
  <2>4. \A q \in R : n + q <= n + p <=> q <= p
    BY <1>1, <1>2, <2>2
  <2>5. {q \in U : q <= n + p} = S \cup Shifted(n, B)
    BY <2>3, <2>4 DEF Shifted
  <2>6. n + p \in U
    BY <2>1 DEF Shifted
  <2>7. IsFiniteSet(B) /\ B \in SUBSET (Nat \ {0})
    <3>1. \A k \in R : k \in Nat \ {0}
      BY <1>2
    <3> HIDE DEF B
    <3> QED BY <1>2, <2>2, <3>1, FS_Subset
  <2> HIDE DEF B, U
  <2>8. Cardinality(S \cup Shifted(n, B)) = c + r
    BY <1>1, <1>2, <2>1, <2>7, ShiftedCount DEF c
  <2>9. InOrder(U)[c + r] = n + p
    <3>1. Cardinality({q \in U : q <= n + p}) = c + r
      BY <2>5, <2>8
    <3> QED BY <1>3, <2>6, <3>1, Placed, ZenonT(60)
  <2> QED BY <2>2, <2>9 DEF p
<1> DEFINE f == InOrder(U)
           g == InOrder(S)
           h == InOrder(R)
<1>7. DOMAIN f = 1..(c + d) /\ DOMAIN g = 1..c /\ DOMAIN h = 1..d
  <2>1. DOMAIN g = 1..c /\ DOMAIN h = 1..d
    BY <1>1, <1>2, InOrderFacts
  <2>2. DOMAIN f = 1..Cardinality(U)
    <3> HIDE DEF U
    <3> QED BY <1>3, InOrderFacts
  <2> QED BY <2>1, <2>2, <1>4
<1>8. At(u, U) = [r \in 1..(c + d) |-> u[f[r]]]
      /\ At(s, S) = [r \in 1..c |-> s[g[r]]] /\ At(t, R) = [r \in 1..d |-> t[h[r]]]
  BY <1>7 DEF At
<1>9. \A r \in 1..c : u[f[r]] = s[g[r]]
  BY <1>1, <1>5
<1>10. \A r \in 1..d : u[f[c + r]] = t[h[r]]
  BY <1>1, <1>6
<1> HIDE DEF f, g, h, U, c, d
<1> DEFINE a == At(s, S)
           b == At(t, R)
<1>11. IsSeq(a) /\ Len(a) = c /\ IsSeq(b) /\ Len(b) = d
       /\ (\A r \in 1..c : a[r] = s[g[r]]) /\ (\A r \in 1..d : b[r] = t[h[r]])
  <2>1. IsSeq(a) /\ Len(a) = c /\ IsSeq(b) /\ Len(b) = d
    BY AtFacts DEF c, d, Within
  <2> QED BY <1>8, <2>1
<1> HIDE DEF a, b
<1>12. IsSeq(a \o b) /\ Len(a \o b) = c + d
       /\ (\A r \in 1..c : (a \o b)[r] = a[r]) /\ (\A r \in 1..d : (a \o b)[c + r] = b[r])
  <2>1. IsSeq(a \o b) /\ Len(a \o b) = Len(a) + Len(b)
        /\ (\A r \in 1..Len(a) : (a \o b)[r] = a[r])
        /\ (\A r \in 1..Len(b) : (a \o b)[Len(a) + r] = b[r])
    <3>1. IsSeq(a) /\ IsSeq(b)
      BY <1>11
    <3> QED BY <3>1, SeqConcat
  <2> QED BY <1>11, <2>1
<1>13. a \o b = [r \in 1..(c + d) |-> (a \o b)[r]]
  BY <1>12, SeqFacts
<1>14. ASSUME NEW r \in 1..(c + d) PROVE (a \o b)[r] = u[f[r]]
  <2>1. CASE r <= c
    BY <1>2, <1>9, <1>11, <1>12, <2>1
  <2>2. CASE ~(r <= c)
    <3>1. r - c \in 1..d /\ c + (r - c) = r
      BY <1>2, <2>2
    <3> QED BY <3>1, <1>10, <1>11, <1>12
  <2> QED BY <2>1, <2>2
<1>15. a \o b = At(u, U)
  BY <1>8, <1>13, <1>14
<1> QED BY <1>15 DEF a, b, u, U, n, InBoth

(***************************************************************************)
(* The items of a stream, and of them the texts.                           *)
(***************************************************************************)
Are(items, kind) == {k \in DOMAIN items : items[k].item = kind}

LEMMA TextsOfConcat ==
  ASSUME NEW s, IsSeq(s), NEW t, IsSeq(t)
  PROVE  TextsOf(s \o t) = TextsOf(s) \o TextsOf(t)
<1> DEFINE u == s \o t
           S == Are(s, "text")
           R == Are(t, "text")
<1>1. /\ Len(s) \in Nat /\ DOMAIN s = 1..Len(s) /\ Len(t) \in Nat /\ DOMAIN t = 1..Len(t)
      /\ IsSeq(u) /\ Len(u) = Len(s) + Len(t) /\ DOMAIN u = 1..(Len(s) + Len(t))
      /\ (\A i \in 1..Len(s) : u[i] = s[i]) /\ (\A i \in 1..Len(t) : u[Len(s) + i] = t[i])
  <2>1. IsSeq(u) /\ Len(u) = Len(s) + Len(t)
        /\ (\A i \in 1..Len(s) : u[i] = s[i]) /\ (\A i \in 1..Len(t) : u[Len(s) + i] = t[i])
    BY SeqConcat
  <2> HIDE DEF u
  <2> QED BY <2>1, SeqFacts
<1> HIDE DEF u
<1>2. Are(u, "text") = S \cup Shifted(Len(s), R)
  <2>1. ASSUME NEW k \in 1..(Len(s) + Len(t)), ~(k <= Len(s))
        PROVE  k - Len(s) \in 1..Len(t) /\ Len(s) + (k - Len(s)) = k
    BY <1>1, <2>1
  <2>2. ASSUME NEW k \in Are(u, "text") PROVE k \in S \cup Shifted(Len(s), R)
    <3>1. k \in 1..(Len(s) + Len(t)) /\ u[k].item = "text"
      BY <1>1 DEF Are
    <3>2. CASE k <= Len(s)
      <4>1. k \in 1..Len(s)
        BY <1>1, <3>1, <3>2
      <4> QED BY <4>1, <1>1, <3>1 DEF Are
    <3>3. CASE ~(k <= Len(s))
      <4>1. k - Len(s) \in 1..Len(t) /\ Len(s) + (k - Len(s)) = k
        BY <2>1, <3>1, <3>3
      <4>2. t[k - Len(s)].item = "text"
        BY <1>1, <3>1, <4>1
      <4>3. k - Len(s) \in R
        BY <4>1, <4>2, <1>1 DEF Are
      <4> QED BY <4>1, <4>3 DEF Shifted
    <3> QED BY <3>2, <3>3
  <2>3. ASSUME NEW k \in S PROVE k \in Are(u, "text")
    BY <1>1 DEF Are
  <2>4. ASSUME NEW j \in R PROVE Len(s) + j \in Are(u, "text")
    BY <1>1 DEF Are
  <2> HIDE DEF S, R
  <2>5. ASSUME NEW k \in Shifted(Len(s), R) PROVE k \in Are(u, "text")
    BY <2>4 DEF Shifted
  <2> QED BY <2>2, <2>3, <2>5
<1>3. At(u, Are(u, "text")) = At(s, S) \o At(t, R)
  <2>1. Within(S, s) /\ Within(R, t)
    BY DEF Are, Within
  <2> HIDE DEF S, R
  <2>2. At(s \o t, InBoth(Len(s), S, R)) = At(s, S) \o At(t, R)
    BY <2>1, AtConcat
  <2> QED BY <1>2, <2>2 DEF u, InBoth
<1> DEFINE a == At(s, S)
           b == At(t, R)
<1>4. IsSeq(a) /\ IsSeq(b)
  <2>1. S \in SUBSET DOMAIN s /\ R \in SUBSET DOMAIN t
    BY DEF Are
  <2> QED BY <2>1, AtFacts
<1> HIDE DEF a, b
<1>5. Positions(a \o b) = Positions(a) \o Positions(b)
  BY <1>4, PositionsConcat
<1> QED BY <1>3, <1>5 DEF TextsOf, Are, a, b, u

TextsOnly(items) == IsSeq(items) /\ \A k \in 1..Len(items) : items[k].item = "text"
NoText(items) == IsSeq(items) /\ \A k \in 1..Len(items) : items[k].item # "text"
NoError(items) == IsSeq(items) /\ \A k \in 1..Len(items) : items[k].item # "err"

LEMMA TextsAll == ASSUME NEW s, TextsOnly(s) PROVE TextsOf(s) = Positions(s)
<1>1. DOMAIN s = 1..Len(s)
  BY SeqFacts DEF TextsOnly
<1>2. {k \in DOMAIN s : s[k].item = "text"} = DOMAIN s
  BY <1>1 DEF TextsOnly
<1> QED BY <1>2, AllOfThem DEF TextsOnly, TextsOf

LEMMA TextsNone == ASSUME NEW s, NoText(s) PROVE TextsOf(s) = <<>>
<1>1. DOMAIN s = 1..Len(s)
  BY SeqFacts DEF NoText
<1>2. {k \in DOMAIN s : s[k].item = "text"} = {}
  BY <1>1 DEF NoText
<1>3. TextsOf(s) = Positions(<<>>)
  BY <1>2, NoneOfThem DEF TextsOf
<1> QED BY <1>3 DEF Positions

LEMMA TextsButError ==
  ASSUME NEW s, TextsOnly(s), NEW e, e.item = "err"
  PROVE  At(s \o <<e>>, Are(s \o <<e>>, "text")) = s
<1> DEFINE u == s \o <<e>>
           S == 1..Len(s)
           E == {}
<1>1. IsSeq(s) /\ Len(s) \in Nat /\ DOMAIN s = 1..Len(s)
  BY SeqFacts DEF TextsOnly
<1>2. IsSeq(<<e>>) /\ Len(<<e>>) = 1 /\ <<e>>[1] = e
  BY SeqOne
<1>3. IsSeq(u) /\ Len(u) = Len(s) + 1 /\ (\A k \in 1..Len(s) : u[k] = s[k]) /\ u[Len(s) + 1] = e
  BY <1>1, <1>2, SeqConcat
<1> HIDE DEF u
<1>4. DOMAIN u = 1..(Len(s) + 1)
  BY <1>3, SeqFacts
<1>5. Are(u, "text") = S
  <2>1. \A k \in S : k \in Are(u, "text")
    BY <1>1, <1>3, <1>4 DEF TextsOnly, Are
  <2>2. ASSUME NEW k \in Are(u, "text") PROVE k \in S
    BY <1>1, <1>3, <1>4 DEF Are
  <2> QED BY <2>1, <2>2
<1>6. Are(u, "text") = InBoth(Len(s), S, E)
  BY <1>5 DEF InBoth, Shifted
<1>7. Within(S, s) /\ Within(E, <<e>>)
  BY <1>1 DEF Within
<1>8. At(s \o <<e>>, InBoth(Len(s), S, E)) = At(s, S) \o At(<<e>>, E)
  <2> DEFINE w == <<e>>
  <2>1. IsSeq(s) /\ IsSeq(w) /\ Within(S, s) /\ Within(E, w)
    BY <1>1, <1>2, <1>7
  <2> HIDE DEF S, E, w
  <2>2. At(s \o w, InBoth(Len(s), S, E)) = At(s, S) \o At(w, E)
    BY <2>1, AtConcat
  <2> QED BY <2>2 DEF w
<1>9. At(s, S) = s /\ At(<<e>>, E) = <<>>
  BY <1>1, AllOfThem, NoneOfThem
<1>10. s \o <<>> = s
  <2>1. IsSeq(s \o <<>>) /\ Len(s \o <<>>) = Len(s) + 0
        /\ \A k \in 1..Len(s) : (s \o <<>>)[k] = s[k]
    BY <1>1, SeqNone, SeqConcat
  <2> QED BY <1>1, <2>1, MadeEqual
<1> QED BY <1>6, <1>8, <1>9, <1>10 DEF u

(***************************************************************************)
(* The items of one frame: its text, then what a stop gives.               *)
(***************************************************************************)
TextPart(b) == IF said[b.at].text THEN <<Text(b)>> ELSE <<>>

StopCalls(b, a) ==
  CASE Anthropic -> FinishedCalls(a.finished)
    [] backend = "openai" -> IF said[b.at].stop = "calls" THEN OpenAiCalls(a) ELSE <<>>
    [] backend = "ollama" -> a.pending
    [] OTHER -> LineCalls(said[b.at])

LastPart(usage, b, calls) ==
  IF said[b.at].stop = "no" THEN <<>>
  ELSE StopItems(usage,
                 IF Lines THEN finalize_stop_reason(said[b.at], calls) ELSE said[b.at].stop,
                 calls)

UsageOf(a) == IF Lines THEN "none" ELSE a.usage

IsBackend(b) == b \in Streaming \cup {"buffered"}

LEMMA NoneBefore == ASSUME NEW x PROVE <<>> \o <<x>> = <<x>>
OBVIOUS

LEMMA StopItemsFacts ==
  ASSUME NEW u, NEW stop, NEW calls
  PROVE  LET t == StopItems(u, stop, calls)
         IN  /\ NoText(t) /\ NoError(t) /\ Len(t) \in Nat \ {0}
             /\ t[Len(t)] = DoneItem(stop, calls)
             /\ \A k \in 1..Len(t) : t[k].item = "done" <=> k = Len(t)
<1> DEFINE x == DoneItem(stop, calls)
           v == [Item("usage") EXCEPT !.stop = u]
           t == StopItems(u, stop, calls)
<1>1. x.item = "done" /\ v.item = "usage"
  BY DEF DoneItem, Item
<1>2. t = <<x>> \/ t = <<v>> \o <<x>>
  <2>1. UsageItems(u) = <<>> \/ UsageItems(u) = <<v>>
    BY DEF UsageItems
  <2>2. t = UsageItems(u) \o <<x>>
    BY DEF StopItems
  <2> HIDE DEF x, v, t
  <2> QED BY <2>1, <2>2, NoneBefore
<1> HIDE DEF x, v, t
<1>3. CASE t = <<x>>
  <2>1. IsSeq(t) /\ Len(t) = 1 /\ t[1] = x
    BY <1>3, SeqOne
  <2> QED BY <2>1, <1>1 DEF NoText, NoError, x, t
<1>4. CASE t = <<v>> \o <<x>>
  <2>1. /\ IsSeq(<<v>>) /\ Len(<<v>>) = 1 /\ <<v>>[1] = v
        /\ IsSeq(<<x>>) /\ Len(<<x>>) = 1 /\ <<x>>[1] = x
    BY SeqOne
  <2>2. IsSeq(t) /\ Len(t) = 2 /\ t[1] = v /\ t[2] = x
    <3> DEFINE p == <<v>>
               q == <<x>>
    <3>1. IsSeq(p) /\ Len(p) = 1 /\ p[1] = v /\ IsSeq(q) /\ Len(q) = 1 /\ q[1] = x /\ t = p \o q
      BY <1>4, <2>1
    <3> HIDE DEF p, q
    <3>2. /\ IsSeq(p \o q) /\ Len(p \o q) = Len(p) + Len(q)
          /\ (\A i \in 1..Len(p) : (p \o q)[i] = p[i])
          /\ (\A i \in 1..Len(q) : (p \o q)[Len(p) + i] = q[i])
      <4>1. IsSeq(p) /\ IsSeq(q)
        BY <3>1
      <4> QED BY <4>1, SeqConcat
    <3>3. (p \o q)[1] = p[1] /\ (p \o q)[1 + 1] = q[1]
      BY <3>1, <3>2
    <3> QED BY <3>1, <3>2, <3>3
  <2> QED BY <2>2, <1>1 DEF NoText, NoError, x, t
<1> QED BY <1>2, <1>3, <1>4

LEMMA LastPartFacts ==
  ASSUME NEW u, NEW b, NEW calls
  PROVE  LET t == LastPart(u, b, calls)
         IN  /\ NoText(t) /\ NoError(t) /\ Len(t) \in Nat
             /\ said[b.at].stop = "no" => t = <<>>
             /\ said[b.at].stop # "no" =>
                  /\ Len(t) # 0
                  /\ t[Len(t)] = DoneItem(IF Lines THEN finalize_stop_reason(said[b.at], calls)
                                          ELSE said[b.at].stop, calls)
                  /\ \A k \in 1..Len(t) : t[k].item = "done" <=> k = Len(t)
<1>1. CASE said[b.at].stop = "no"
  BY <1>1, SeqNone DEF LastPart, NoText, NoError
<1>2. CASE said[b.at].stop # "no"
  BY <1>2, StopItemsFacts DEF LastPart
<1> QED BY <1>1, <1>2

LEMMA ItemsSplit ==
  ASSUME IsBackend(backend), NEW b, NEW a
  PROVE  /\ Items(b, a) = TextPart(b) \o LastPart(UsageOf(a), b, StopCalls(b, a))
         /\ KeptItems(b, a) = TextPart(b) \o
              LastPart(UsageOf(a), b, IF backend = "ollama" THEN LineCalls(said[b.at])
                                      ELSE StopCalls(b, a))
<1>1. ASSUME NEW calls, Lines
      PROVE  LineItems(b, calls) = TextPart(b) \o LastPart(UsageOf(a), b, calls)
  BY <1>1, NoneBefore DEF LineItems, TextPart, LastPart, UsageOf, StopItems, UsageItems
<1>2. CASE Anthropic
  BY <1>2 DEF Anthropic, Lines, Items, KeptItems, SseItems, TextPart, LastPart, UsageOf, StopCalls
<1>3. CASE backend = "openai"
  BY <1>3 DEF Anthropic, Lines, Items, KeptItems, SseItems, TextPart, LastPart, UsageOf, StopCalls
<1>4. CASE backend = "ollama"
  <2>1. ~Anthropic /\ Lines
    BY <1>4 DEF Anthropic, Lines
  <2>2. StopCalls(b, a) = a.pending /\ Items(b, a) = LineItems(b, a.pending)
    BY <1>4, <2>1 DEF StopCalls, Items
  <2>3. KeptItems(b, a) = LineItems(b, LineCalls(said[b.at]))
    BY <1>4 DEF KeptItems
  <2> QED BY <1>1, <1>4, <2>1, <2>2, <2>3
<1>5. CASE backend = "buffered"
  BY <1>1, <1>5 DEF Anthropic, Lines, Items, KeptItems, StopCalls
<1> QED BY <1>2, <1>3, <1>4, <1>5 DEF IsBackend, Streaming, Anthropic

LEMMA ConcatFacts ==
  ASSUME NEW s, IsSeq(s), NEW t, IsSeq(t)
  PROVE  /\ IsSeq(s \o t) /\ Len(s \o t) = Len(s) + Len(t)
         /\ Len(s) \in Nat /\ Len(t) \in Nat
         /\ \A k \in 1..Len(s \o t) :
              \/ k \in 1..Len(s) /\ (s \o t)[k] = s[k]
              \/ k - Len(s) \in 1..Len(t) /\ (s \o t)[k] = t[k - Len(s)]
         /\ Len(t) # 0 => (s \o t)[Len(s \o t)] = t[Len(t)]
<1>1. /\ IsSeq(s \o t) /\ Len(s \o t) = Len(s) + Len(t)
      /\ (\A i \in 1..Len(s) : (s \o t)[i] = s[i])
      /\ (\A i \in 1..Len(t) : (s \o t)[Len(s) + i] = t[i])
  BY SeqConcat
<1>2. Len(s) \in Nat /\ Len(t) \in Nat
  BY SeqFacts
<1> DEFINE u == s \o t
<1> HIDE DEF u
<1>3. ASSUME NEW k \in 1..Len(u)
      PROVE  \/ k \in 1..Len(s) /\ u[k] = s[k]
             \/ k - Len(s) \in 1..Len(t) /\ u[k] = t[k - Len(s)]
  <2>1. CASE k <= Len(s)
    <3>1. k \in 1..Len(s)
      BY <1>2, <2>1
    <3> QED BY <1>1, <3>1 DEF u
  <2>2. CASE ~(k <= Len(s))
    <3>1. k - Len(s) \in 1..Len(t) /\ Len(s) + (k - Len(s)) = k
      BY <1>1, <1>2, <2>2 DEF u
    <3> QED BY <1>1, <3>1 DEF u
  <2> QED BY <2>1, <2>2
<1>4. Len(t) # 0 => u[Len(u)] = t[Len(t)]
  BY <1>1, <1>2 DEF u
<1> QED BY <1>1, <1>2, <1>3, <1>4 DEF u

LEMMA TextsJoin ==
  ASSUME NEW s, TextsOnly(s), NEW t, TextsOnly(t) PROVE TextsOnly(s \o t)
<1>1. IsSeq(s) /\ IsSeq(t)
  BY DEF TextsOnly
<1>2. /\ IsSeq(s \o t)
      /\ \A k \in 1..Len(s \o t) :
           \/ k \in 1..Len(s) /\ (s \o t)[k] = s[k]
           \/ k - Len(s) \in 1..Len(t) /\ (s \o t)[k] = t[k - Len(s)]
  BY <1>1, ConcatFacts
<1> QED BY <1>2 DEF TextsOnly

LEMMA NoErrorJoins ==
  ASSUME NEW s, NoError(s), NEW t, NoError(t) PROVE NoError(s \o t)
<1>1. IsSeq(s) /\ IsSeq(t)
  BY DEF NoError
<1>2. /\ IsSeq(s \o t)
      /\ \A k \in 1..Len(s \o t) :
           \/ k \in 1..Len(s) /\ (s \o t)[k] = s[k]
           \/ k - Len(s) \in 1..Len(t) /\ (s \o t)[k] = t[k - Len(s)]
  BY <1>1, ConcatFacts
<1> QED BY <1>2 DEF NoError

LEMMA TextsAreNoErrors == ASSUME NEW s, TextsOnly(s) PROVE NoError(s)
BY DEF TextsOnly, NoError

LEMMA NothingAdded == ASSUME NEW s, IsSeq(s) PROVE s \o <<>> = s /\ <<>> \o s = s
<1> DEFINE e == <<>>
<1>1. IsSeq(e) /\ Len(e) = 0
  BY SeqNone
<1> HIDE DEF e
<1>2. /\ IsSeq(s \o e) /\ Len(s \o e) = Len(s) + Len(e)
      /\ \A i \in 1..Len(s) : (s \o e)[i] = s[i]
  BY <1>1, SeqConcat
<1>3. /\ IsSeq(e \o s) /\ Len(e \o s) = Len(e) + Len(s)
      /\ \A i \in 1..Len(s) : (e \o s)[Len(e) + i] = s[i]
  BY <1>1, SeqConcat
<1>4. Len(s) \in Nat
  BY SeqFacts
<1>5. Len(s \o e) = Len(s) /\ \A i \in 1..Len(s \o e) : (s \o e)[i] = s[i]
  BY <1>1, <1>2, <1>4
<1>6. Len(e \o s) = Len(s) /\ \A i \in 1..Len(e \o s) : (e \o s)[i] = s[i]
  BY <1>1, <1>3, <1>4
<1>7. s \o e = s
  BY <1>2, <1>5, MadeEqual
<1>8. e \o s = s
  BY <1>3, <1>6, MadeEqual
<1> QED BY <1>7, <1>8 DEF e

LEMMA TextPartFacts ==
  ASSUME NEW b
  PROVE  /\ TextsOnly(TextPart(b)) /\ NoError(TextPart(b)) /\ IsSeq(TextPart(b))
         /\ Len(TextPart(b)) \in {0, 1}
         /\ said[b.at].text => TextPart(b) = <<Text(b)>> /\ Positions(TextPart(b)) = <<b.at>>
         /\ ~said[b.at].text => TextPart(b) = <<>> /\ Positions(TextPart(b)) = <<>>
<1>1. CASE said[b.at].text
  <2>1. Text(b).item = "text" /\ Text(b).at = b.at
    BY DEF Text
  <2>2. TextPart(b) = <<Text(b)>>
    BY <1>1 DEF TextPart
  <2>3. IsSeq(<<Text(b)>>) /\ Len(<<Text(b)>>) = 1 /\ <<Text(b)>>[1] = Text(b)
    BY SeqOne
  <2>4. Positions(<<Text(b)>>) = <<b.at>>
    BY <2>1 DEF Positions
  <2> QED BY <1>1, <2>1, <2>2, <2>3, <2>4 DEF TextsOnly, NoError
<1>2. CASE ~said[b.at].text
  <2>1. TextPart(b) = <<>>
    BY <1>2 DEF TextPart
  <2>2. Positions(<<>>) = <<>>
    BY DEF Positions
  <2> QED BY <1>2, <2>1, <2>2, SeqNone DEF TextsOnly, NoError
<1> QED BY <1>1, <1>2

\* A frame's items: its text; a stop's items begin with that and end with done.
FrameItems(items, b, stop, calls) ==
  /\ IsSeq(items) /\ NoError(items) /\ Len(items) \in Nat
  /\ TextsOf(items) = Positions(TextPart(b))
  /\ said[b.at].stop = "no" => items = TextPart(b) /\ ~Over(items)
  /\ said[b.at].stop # "no" =>
       /\ Over(items) /\ Len(items) # 0
       /\ items[Len(items)] = DoneItem(stop, calls)
       /\ \A k \in 1..Len(items) : items[k].item = "done" <=> k = Len(items)

StopReason(b, calls) ==
  IF Lines THEN finalize_stop_reason(said[b.at], calls) ELSE said[b.at].stop

LEMMA PartsMakeItems ==
  ASSUME NEW b, NEW u, NEW calls, NEW items, items = TextPart(b) \o LastPart(u, b, calls)
  PROVE  FrameItems(items, b, StopReason(b, calls), calls)
<1> DEFINE t == LastPart(u, b, calls)
           p == TextPart(b)
<1>1. /\ TextsOnly(p) /\ NoError(p) /\ IsSeq(p)
  BY TextPartFacts
<1>2. /\ NoText(t) /\ NoError(t) /\ IsSeq(t) /\ Len(t) \in Nat
      /\ said[b.at].stop = "no" => t = <<>>
      /\ said[b.at].stop # "no" =>
           /\ Len(t) # 0 /\ t[Len(t)] = DoneItem(StopReason(b, calls), calls)
           /\ \A k \in 1..Len(t) : t[k].item = "done" <=> k = Len(t)
  BY LastPartFacts DEF StopReason, NoText
<1>3. items = p \o t
  OBVIOUS
<1> HIDE DEF t, p
<1>4. /\ IsSeq(p \o t) /\ Len(p \o t) = Len(p) + Len(t)
      /\ Len(p) \in Nat /\ Len(t) \in Nat
      /\ \A k \in 1..Len(p \o t) :
           \/ k \in 1..Len(p) /\ (p \o t)[k] = p[k]
           \/ k - Len(p) \in 1..Len(t) /\ (p \o t)[k] = t[k - Len(p)]
      /\ Len(t) # 0 => (p \o t)[Len(p \o t)] = t[Len(t)]
  BY <1>1, <1>2, ConcatFacts
<1>5. NoError(items)
  BY <1>1, <1>2, <1>3, NoErrorJoins
<1>6. TextsOf(items) = Positions(p)
  <2>1. TextsOf(p \o t) = TextsOf(p) \o TextsOf(t)
    BY <1>1, <1>2, TextsOfConcat
  <2>2. TextsOf(p) = Positions(p) /\ TextsOf(t) = <<>> /\ IsSeq(Positions(p))
    BY <1>1, <1>2, TextsAll, TextsNone, PositionsFacts
  <2> QED BY <1>3, <2>1, <2>2, NothingAdded
<1>7. DOMAIN items = 1..Len(items)
  BY <1>3, <1>4, SeqFacts
<1>8. CASE said[b.at].stop = "no"
  <2>1. items = p
    BY <1>1, <1>2, <1>3, <1>8, NothingAdded
  <2>2. ~Over(items)
    BY <1>1, <1>7, <2>1 DEF Over, TextsOnly
  <2> QED BY <1>3, <1>4, <1>5, <1>6, <1>8, <2>1, <2>2 DEF FrameItems, p
<1>9. CASE said[b.at].stop # "no"
  <2>1. Len(items) # 0 /\ items[Len(items)] = DoneItem(StopReason(b, calls), calls)
    BY <1>2, <1>3, <1>4, <1>9
  <2>2. ASSUME NEW k \in 1..Len(items) PROVE items[k].item = "done" <=> k = Len(items)
    <3>1. CASE k \in 1..Len(p) /\ items[k] = p[k]
      BY <1>1, <1>2, <1>3, <1>4, <1>9, <3>1 DEF TextsOnly
    <3>2. CASE k - Len(p) \in 1..Len(t) /\ items[k] = t[k - Len(p)]
      <4>1. PICK j \in 1..Len(t) : j = k - Len(p) /\ items[k] = t[j]
        BY <3>2
      <4>2. t[j].item = "done" <=> j = Len(t)
        BY <1>2, <1>9
      <4>3. j = Len(t) <=> k = Len(items)
        BY <1>3, <1>4, <4>1
      <4> QED BY <4>1, <4>2, <4>3
    <3> QED BY <1>3, <1>4, <3>1, <3>2
  <2>3. Over(items)
    <3>1. Len(items) \in 1..Len(items)
      BY <1>3, <1>4, <2>1
    <3> QED BY <1>7, <2>2, <3>1 DEF Over
  <2> QED BY <1>3, <1>4, <1>5, <1>6, <1>9, <2>1, <2>2, <2>3 DEF FrameItems, p
<1> QED BY <1>8, <1>9

LEMMA ItemsOfFrame ==
  ASSUME IsBackend(backend), NEW b, NEW a
  PROVE  /\ FrameItems(Items(b, a), b, StopReason(b, StopCalls(b, a)), StopCalls(b, a))
         /\ backend # "ollama" \/ said[b.at].stop = "no" => KeptItems(b, a) = Items(b, a)
<1> DEFINE c == StopCalls(b, a)
           d == IF backend = "ollama" THEN LineCalls(said[b.at]) ELSE StopCalls(b, a)
<1>1. /\ Items(b, a) = TextPart(b) \o LastPart(UsageOf(a), b, c)
      /\ KeptItems(b, a) = TextPart(b) \o LastPart(UsageOf(a), b, d)
  BY ItemsSplit
<1>2. backend # "ollama" => KeptItems(b, a) = Items(b, a)
  BY DEF KeptItems
<1> HIDE DEF c, d
<1>3. said[b.at].stop = "no" => LastPart(UsageOf(a), b, c) = LastPart(UsageOf(a), b, d)
  BY DEF LastPart
<1>4. FrameItems(Items(b, a), b, StopReason(b, c), c)
  BY <1>1, PartsMakeItems
<1> QED BY <1>1, <1>2, <1>3, <1>4 DEF c

(***************************************************************************)
(* Until the task is over it has delivered texts only, and the same has    *)
(* been kept for the record.                                               *)
(***************************************************************************)
Collecting ==
  /\ attempt = <<>> /\ TextsOnly(out) /\ TextsOnly(kept)
  /\ reader => kept = out

RecordInv ==
  /\ IsBackend(backend) /\ pc \in {"first", "reading", "over"} /\ reader \in BOOLEAN
  /\ pc # "over" => Collecting

LEMMA TextsCollected == ASSUME RecordInv, TakeFrame PROVE RecordInv'
<1> DEFINE b == NextFrame
           a == NextAcc(b)
           items == Items(b, a)
           more == KeptItems(b, a)
           calls == StopCalls(b, a)
<1>1. /\ pc # "over" /\ backend' = backend /\ reader' = reader
      /\ kept' = kept \o more
      /\ IF Over(items) THEN pc' = "over"
         ELSE pc' = "reading" /\ Receives(items) /\ attempt' = attempt
  BY DEF TakeFrame, CanTake, Keeps
<1>2. Collecting /\ IsBackend(backend)
  BY <1>1 DEF RecordInv
<1>3. FrameItems(items, b, StopReason(b, calls), calls)
      /\ (backend # "ollama" \/ said[b.at].stop = "no" => more = items)
  BY <1>2, ItemsOfFrame
<1> HIDE DEF b, a, items, more, calls
<1>4. CASE ~Over(items)
  <2>1. more = items /\ TextsOnly(items)
    BY <1>3, <1>4, TextPartFacts DEF FrameItems
  <2>2. TextsOnly(kept \o items) /\ TextsOnly(out \o items)
    BY <1>2, <2>1, TextsJoin DEF Collecting
  <2>3. Collecting'
    BY <1>1, <1>2, <1>4, <2>1, <2>2 DEF Collecting, Receives
  <2> QED BY <1>1, <1>4, <2>3 DEF RecordInv, IsBackend
<1>5. CASE Over(items)
  BY <1>1, <1>5 DEF RecordInv, IsBackend
<1> QED BY <1>4, <1>5

LEMMA RecordStep == ASSUME RecordInv, [StreamNext]_streamVars PROVE RecordInv'
<1>1. ASSUME UNCHANGED <<backend, pc, out, kept, attempt>>, reader' = reader \/ reader' = FALSE
      PROVE  RecordInv'
  <2>1. Collecting => Collecting'
    <3>1. out' = out /\ kept' = kept /\ attempt' = attempt
      BY <1>1
    <3>2. TextsOnly(out') = TextsOnly(out) /\ TextsOnly(kept') = TextsOnly(kept)
      BY <3>1
    <3> QED BY <1>1, <3>1, <3>2 DEF Collecting
  <2>2. reader' \in BOOLEAN
    BY <1>1 DEF RecordInv
  <2> QED BY <1>1, <2>1, <2>2 DEF RecordInv, IsBackend
<1>2. ASSUME pc' = "over", backend' = backend, reader' = reader \/ reader' = FALSE
      PROVE  RecordInv'
  <2>1. reader' \in BOOLEAN
    BY <1>2 DEF RecordInv
  <2> QED BY <1>2, <2>1 DEF RecordInv, IsBackend
<1>3. CASE FrameArrives
  BY <1>1, <1>3 DEF FrameArrives
<1>4. CASE RestArrives
  BY <1>1, <1>4 DEF RestArrives
<1>5. CASE BodyEnds
  BY <1>1, <1>5 DEF BodyEnds
<1>6. CASE ServerCloses
  BY <1>1, <1>6 DEF ServerCloses
<1>7. CASE ReaderLeaves
  <2>1. UNCHANGED <<backend, pc, out, kept, attempt>>
    BY <1>7 DEF ReaderLeaves
  <2>2. reader' = FALSE
    BY <1>7 DEF ReaderLeaves
  <2> QED BY <1>1, <2>1, <2>2, Zenon
<1>8. CASE TakeFrame
  BY <1>8, TextsCollected
<1>9. CASE TakeError \/ TakeComment \/ EndOfBody
  <2>1. pc' = "over" /\ backend' = backend /\ reader' = reader
    BY <1>9 DEF TakeError, TakeComment, EndOfBody, EndsWithoutStop
  <2> QED BY <1>2, <2>1, Zenon
<1>10. CASE SendFails
  <2>1. pc' = "over" /\ backend' = backend
    BY <1>10 DEF SendFails
  <2>2. reader' = FALSE
    BY <1>10 DEF SendFails
  <2> QED BY <1>2, <2>1, <2>2, Zenon
<1>11. CASE HalfBody \/ BodyBreaks \/ TimesOut
  <2>1. pc' = "over" /\ backend' = backend /\ reader' = reader
    BY <1>11 DEF HalfBody, BodyBreaks, TimesOut, Fail
  <2> QED BY <1>2, <2>1, Zenon
<1>12. CASE UNCHANGED streamVars
  BY <1>1, <1>12 DEF streamVars
<1> QED BY <1>3, <1>4, <1>5, <1>6, <1>7, <1>8, <1>9, <1>10, <1>11, <1>12 DEF StreamNext

(***************************************************************************)
(* DeliveredAsSaid and RecordedIsDelivered.  What a server has said keeps  *)
(* to the protocol of the loop that reads it: Served.  A task that is not  *)
(* over has taken the frames before the ones in buf: it has told their     *)
(* texts, and holds of each call the pieces among them: Tasked.            *)
(***************************************************************************)
LineLoop(loop) == loop \in {"ollama", "buffered"}
ClaudeLoop(loop) == loop \in {"anthropic", "bedrock"}
LossyLoop(loop) == loop \in {"anthropic", "openai", "ollama"}

IsPart(f, kind, i) == f.kind = kind /\ f.id = i
Parts(s, kind, i, n) == {k \in 1..n : IsPart(s[k], kind, i)}
PieceCount(s, i, n) == Cardinality(Parts(s, "piece", i, n))

SseKinds == {"start", "delta", "open", "piece", "close", "stop", "ping", "comment", "error"}

WellSaid(loop, f) ==
  /\ f.text \in BOOLEAN
  /\ f.kind \in IF LineLoop(loop) THEN {"line", "ping", "error"} ELSE SseKinds
  /\ f.stop \in {"no", "length", "end", "calls"}
  /\ f.stop = "no" \/ f.kind \in {"stop", "line"}
  /\ f.kind = "stop" => ~f.text
  /\ f.kind \in {"open", "piece", "close"} => f.id \in CallIds
  /\ f.kind = "open" => f = OpenFrame(f.id)
  /\ f.kind = "close" => ClaudeLoop(loop)
  /\ f.kind # "line" => f.calls = <<>>

\* Lines stop at their end or length; a buffered answer is one line.
LinesServed(loop, s) ==
  /\ \A k \in 1..Len(s) : s[k].stop # "calls"
  /\ loop = "buffered" => Len(s) <= 1

\* Events: a call is opened once; then come its two pieces, then its end.
CallServed(s, i) ==
  /\ \A j, k \in Parts(s, "open", i, Len(s)) : j = k
  /\ \A k \in Parts(s, "piece", i, Len(s)) \cup Parts(s, "close", i, Len(s)) :
       \E j \in 1..(k - 1) : IsPart(s[j], "open", i)
  /\ \A j \in Parts(s, "close", i, Len(s)) : \A k \in (j + 1)..Len(s) :
       ~IsPart(s[k], "piece", i) /\ ~IsPart(s[k], "close", i)
  /\ \A k \in Parts(s, "piece", i, Len(s)) : s[k].piece = PieceCount(s, i, k)
  /\ PieceCount(s, i, Len(s)) <= 2

OpenedIn(s) == {i \in CallIds : Parts(s, "open", i, Len(s)) # {}}

\* An end comes without calls, a stop for calls when none is half said; Anthropic
\* has closed every call.
StopServed(loop, s, f) ==
  /\ f.stop = "end" => OpenedIn(s) = {}
  /\ f.stop = "calls" =>
       OpenedIn(s) # {} /\ \A i \in OpenedIn(s) : PieceCount(s, i, Len(s)) # 1
  /\ f.stop # "no" /\ ClaudeLoop(loop) =>
       \A i \in OpenedIn(s) : Parts(s, "close", i, Len(s)) # {}

EventsServed(loop, s) ==
  /\ \A i \in CallIds : CallServed(s, i)
  /\ \E c \in 0..MaxToolCalls : OpenedIn(s) = 1..c
  /\ \A k \in 1..Len(s) : StopServed(loop, s, s[k])

Served(loop, s) ==
  /\ IsSeq(s) /\ \A k \in 1..Len(s) : WellSaid(loop, s[k])
  /\ \A k \in 1..Len(s) : s[k].stop # "no" => k = Len(s)
  /\ IF LineLoop(loop) THEN LinesServed(loop, s) ELSE EventsServed(loop, s)

\* The frames in buf are the ones after the first n, in order.
Queue(loop, q, n) ==
  /\ IsSeq(q)
  /\ \A k \in 1..Len(q) :
       q[k].at = n + k /\ q[k].cut \in BOOLEAN /\ (q[k].cut => LossyLoop(loop))

Piece == [id : CallIds, piece : 1..2, cut : BOOLEAN]
Builds == [CallIds -> [open : BOOLEAN, pieces : Seq(Piece)]]
Outcomes == {"no", "empty", "replaced", "full"}
Accs(P) ==
  [builds : Builds, finished : [CallIds -> Outcomes], pending : P,
   usage : {"none", "start", "final"}]

\* The pieces of call i among the first n frames.
Holds(loop, pieces, s, i, n) ==
  /\ Len(pieces) = PieceCount(s, i, n)
  /\ \A k \in 1..Len(pieces) :
       pieces[k].id = i /\ pieces[k].piece = k /\ (pieces[k].cut => LossyLoop(loop))

\* What the task knows of call i after n frames.
Knows(loop, build, finished, s, i, n) ==
  /\ Holds(loop, build.pieces, s, i, n)
  /\ build.open <=> /\ Parts(s, "open", i, n) # {}
                    /\ ClaudeLoop(loop) => Parts(s, "close", i, n) = {}
  /\ ClaudeLoop(loop) =>
       finished = IF Parts(s, "close", i, n) = {} THEN "no" ELSE Parsed(i, build.pieces)

\* Of the first n lines, the last with calls is k.
LastCalls(s, k, n) == s[k].calls # <<>> /\ \A j \in (k + 1)..n : s[j].calls = <<>>

Accumulated(loop, a, s, n) ==
  /\ a \in Accs({a.pending})
  /\ ~LineLoop(loop) => \A i \in CallIds : Knows(loop, a.builds[i], a.finished[i], s, i, n)
  /\ loop = "ollama" =>
       \/ a.pending = <<>> /\ \A k \in 1..n : s[k].calls = <<>>
       \/ \E k \in 1..n : LastCalls(s, k, n) /\ a.pending = LineCalls(s[k])

\* The texts among the first n frames.
Told(s, n) == InOrder({k \in 1..n : s[k].text})

\* How many frames the task has taken.
Behind == Len(said) - Len(buf) - IF arriving = "none" THEN 0 ELSE 1

Tasked ==
  /\ Behind \in Nat /\ arriving \in {"none", "tail", "delimiter"}
  /\ Queue(backend, buf, Behind) /\ cut \in BOOLEAN /\ (cut => LossyLoop(backend))
  /\ \A k \in 1..Behind : said[k].stop = "no"
  /\ Accumulated(backend, acc, said, Behind)
  /\ \E n \in 0..Behind : Positions(out) = Told(said, n)
  /\ reader => Positions(out) = Told(said, Behind)

DeliverInv ==
  /\ RecordInv
  /\ IF pc = "over" THEN DeliveredAsSaid /\ RecordedIsDelivered
     ELSE Served(backend, said) /\ Tasked


(***************************************************************************)
(* Counting the parts of a call.                                           *)
(***************************************************************************)
LEMMA PartsFinite ==
  ASSUME NEW s, NEW kind, NEW i, NEW n \in Nat
  PROVE  /\ Parts(s, kind, i, n) \in SUBSET (1..n) /\ IsFiniteSet(Parts(s, kind, i, n))
         /\ Cardinality(Parts(s, kind, i, n)) \in Nat
         /\ Cardinality(Parts(s, kind, i, n)) = 0 <=> Parts(s, kind, i, n) = {}
<1>1. Parts(s, kind, i, n) \in SUBSET (1..n)
  BY DEF Parts
<1> DEFINE P == Parts(s, kind, i, n)
<1> HIDE DEF P
<1>2. P \in SUBSET (1..n)
  BY <1>1 DEF P
<1>3. IsFiniteSet(P) /\ Cardinality(P) \in Nat
  BY <1>2, FinitePart
<1>4. Cardinality(P) = 0 <=> P = {}
  BY <1>3, FS_EmptySet
<1> QED BY <1>2, <1>3, <1>4 DEF P

LEMMA PartsNext ==
  ASSUME NEW s, NEW kind, NEW i, NEW n \in Nat, NEW m, m = n + 1
  PROVE  /\ IsPart(s[m], kind, i) =>
              /\ Parts(s, kind, i, m) = Parts(s, kind, i, n) \cup {m}
              /\ Cardinality(Parts(s, kind, i, m)) = Cardinality(Parts(s, kind, i, n)) + 1
         /\ ~IsPart(s[m], kind, i) => Parts(s, kind, i, m) = Parts(s, kind, i, n)
<1> DEFINE P == Parts(s, kind, i, n)
           Q == Parts(s, kind, i, m)
<1>1. \A k : k \in 1..m <=> k \in 1..n \/ k = m
  OBVIOUS
<1>2. IsPart(s[m], kind, i) => Q = P \cup {m}
  BY <1>1 DEF Parts
<1>3. ~IsPart(s[m], kind, i) => Q = P
  BY <1>1 DEF Parts
<1>4. IsFiniteSet(P) /\ m \notin P /\ Cardinality(P) \in Nat
  BY PartsFinite
<1> HIDE DEF P, Q
<1>5. Cardinality(P \cup {m}) = Cardinality(P) + 1
  BY <1>4, FS_AddElement
<1> QED BY <1>2, <1>3, <1>5 DEF P, Q

LEMMA PartsSame ==
  ASSUME NEW s, NEW t, NEW kind, NEW i, NEW n \in Nat, \A k \in 1..n : s[k] = t[k]
  PROVE  Parts(s, kind, i, n) = Parts(t, kind, i, n)
BY DEF Parts

LEMMA PartsLater ==
  ASSUME NEW s, NEW kind, NEW i, NEW n \in Nat, NEW m \in Nat, m <= n
  PROVE  /\ Parts(s, kind, i, m) \in SUBSET Parts(s, kind, i, n)
         /\ \A k \in Parts(s, kind, i, n) : k <= m => k \in Parts(s, kind, i, m)
  <1>1. \A k : k \in 1..m => k \in 1..n
    OBVIOUS
  <1>2. \A k \in 1..n : k <= m => k \in 1..m
    OBVIOUS
  <1> QED BY <1>1, <1>2 DEF Parts

LEMMA CountLater ==
  ASSUME NEW s, NEW i, NEW n \in Nat, NEW m \in Nat, m <= n
  PROVE  PieceCount(s, i, m) <= PieceCount(s, i, n)
         /\ PieceCount(s, i, m) \in Nat /\ PieceCount(s, i, n) \in Nat
<1> DEFINE P == Parts(s, "piece", i, m)
           Q == Parts(s, "piece", i, n)
<1>1. P \in SUBSET Q /\ IsFiniteSet(Q) /\ Cardinality(P) \in Nat /\ Cardinality(Q) \in Nat
  BY PartsLater, PartsFinite
<1> HIDE DEF P, Q
<1>2. Cardinality(P) <= Cardinality(Q)
  BY <1>1, FS_Subset
<1> QED BY <1>1, <1>2 DEF PieceCount, P, Q

(***************************************************************************)
(* The server keeps to the protocol of one call.                           *)
(***************************************************************************)
NextPart(s, i, f) ==
  /\ IsPart(f, "open", i) => Parts(s, "open", i, Len(s)) = {}
  /\ IsPart(f, "piece", i) =>
       /\ Parts(s, "open", i, Len(s)) # {} /\ Parts(s, "close", i, Len(s)) = {}
       /\ PieceCount(s, i, Len(s)) < 2 /\ f.piece = PieceCount(s, i, Len(s)) + 1
  /\ IsPart(f, "close", i) =>
       Parts(s, "open", i, Len(s)) # {} /\ Parts(s, "close", i, Len(s)) = {}

LEMMA AppendSame ==
  ASSUME NEW s, IsSeq(s), NEW f
  PROVE  LET t == Append(s, f)
         IN  /\ IsSeq(t) /\ Len(t) = Len(s) + 1 /\ Len(s) \in Nat
             /\ \A k \in 1..Len(s) : t[k] = s[k]
             /\ t[Len(s) + 1] = f
             /\ \A kind, i : \A n \in 0..Len(s) : Parts(t, kind, i, n) = Parts(s, kind, i, n)
<1> DEFINE t == Append(s, f)
<1>1. IsSeq(t) /\ Len(t) = Len(s) + 1 /\ (\A k \in 1..Len(s) : t[k] = s[k]) /\ t[Len(s) + 1] = f
  BY SeqAppend
<1>2. Len(s) \in Nat
  BY SeqFacts
<1> HIDE DEF t
<1>3. ASSUME NEW kind, NEW i, NEW n \in 0..Len(s) PROVE Parts(t, kind, i, n) = Parts(s, kind, i, n)
  <2>1. n \in Nat /\ \A k \in 1..n : t[k] = s[k]
    BY <1>1, <1>2
  <2> QED BY <2>1, PartsSame
<1> QED BY <1>1, <1>2, <1>3 DEF t

LEMMA CallGrows ==
  ASSUME NEW s, IsSeq(s), NEW i, CallServed(s, i), NEW f, NextPart(s, i, f)
  PROVE  CallServed(Append(s, f), i)
<1> DEFINE t == Append(s, f)
           N == Len(s)
<1>1. /\ IsSeq(t) /\ Len(t) = N + 1 /\ N \in Nat /\ t[N + 1] = f
      /\ \A k \in 1..N : t[k] = s[k]
      /\ \A kind : \A n \in 0..N : Parts(t, kind, i, n) = Parts(s, kind, i, n)
  BY AppendSame
<1> HIDE DEF t, N
<1> DEFINE O == Parts(s, "open", i, N)
           P == Parts(s, "piece", i, N)
           C == Parts(s, "close", i, N)
           O1 == Parts(t, "open", i, N + 1)
           P1 == Parts(t, "piece", i, N + 1)
           C1 == Parts(t, "close", i, N + 1)
<1>2. /\ O1 = IF IsPart(f, "open", i) THEN O \cup {N + 1} ELSE O
      /\ P1 = IF IsPart(f, "piece", i) THEN P \cup {N + 1} ELSE P
      /\ C1 = IF IsPart(f, "close", i) THEN C \cup {N + 1} ELSE C
      /\ Cardinality(P1) = Cardinality(P) + IF IsPart(f, "piece", i) THEN 1 ELSE 0
  <2>1. \A kind : Parts(t, kind, i, N) = Parts(s, kind, i, N)
    BY <1>1
  <2>2. Cardinality(P) \in Nat
    BY <1>1, PartsFinite
  <2>3. ASSUME NEW kind
        PROVE  /\ IsPart(f, kind, i) =>
                    /\ Parts(t, kind, i, N + 1) = Parts(s, kind, i, N) \cup {N + 1}
                    /\ Cardinality(Parts(t, kind, i, N + 1))
                         = Cardinality(Parts(s, kind, i, N)) + 1
               /\ ~IsPart(f, kind, i) => Parts(t, kind, i, N + 1) = Parts(s, kind, i, N)
    <3> DEFINE M == N + 1
    <3>0. N \in Nat /\ M = N + 1
      BY <1>1
    <3> HIDE DEF M
    <3>1. /\ IsPart(t[M], kind, i) =>
               /\ Parts(t, kind, i, M) = Parts(t, kind, i, N) \cup {M}
               /\ Cardinality(Parts(t, kind, i, M)) = Cardinality(Parts(t, kind, i, N)) + 1
          /\ ~IsPart(t[M], kind, i) => Parts(t, kind, i, M) = Parts(t, kind, i, N)
      BY <3>0, PartsNext
    <3>2. t[N + 1] = f /\ Parts(t, kind, i, N) = Parts(s, kind, i, N)
      BY <1>1, <2>1
    <3> QED BY <3>0, <3>1, <3>2
  <2>4. O1 = IF IsPart(f, "open", i) THEN O \cup {N + 1} ELSE O
    BY <2>3
  <2>5. C1 = IF IsPart(f, "close", i) THEN C \cup {N + 1} ELSE C
    BY <2>3
  <2>6. /\ P1 = IF IsPart(f, "piece", i) THEN P \cup {N + 1} ELSE P
        /\ Cardinality(P1) = Cardinality(P) + IF IsPart(f, "piece", i) THEN 1 ELSE 0
    <3>1. /\ IsPart(f, "piece", i) =>
               P1 = P \cup {N + 1} /\ Cardinality(P1) = Cardinality(P) + 1
          /\ ~IsPart(f, "piece", i) => P1 = P
      BY <2>3
    <3> HIDE DEF P, P1
    <3> QED BY <2>2, <3>1
  <2> QED BY <2>4, <2>5, <2>6
<1>3. O \in SUBSET (1..N) /\ P \in SUBSET (1..N) /\ C \in SUBSET (1..N) /\ Cardinality(P) \in Nat
  BY <1>1, PartsFinite
<1>4. /\ \A j, k \in O : j = k
      /\ \A k \in P \cup C : \E j \in 1..(k - 1) : IsPart(s[j], "open", i)
      /\ \A j \in C : \A k \in (j + 1)..N : ~IsPart(s[k], "piece", i) /\ ~IsPart(s[k], "close", i)
      /\ \A k \in P : s[k].piece = PieceCount(s, i, k)
      /\ Cardinality(P) <= 2
  BY DEF CallServed, PieceCount, N
<1>5. /\ IsPart(f, "open", i) => O = {}
      /\ IsPart(f, "piece", i) => O # {} /\ C = {} /\ Cardinality(P) < 2 /\ f.piece = Cardinality(P) + 1
      /\ IsPart(f, "close", i) => O # {} /\ C = {}
  BY DEF NextPart, PieceCount, N
<1>6. \A j \in O : IsPart(s[j], "open", i)
  BY DEF Parts
<1> HIDE DEF O, P, C, O1, P1, C1
<1>7. \A j, k \in O1 : j = k
  BY <1>2, <1>4, <1>5
<1>8. ASSUME NEW k \in P1 \cup C1 PROVE \E j \in 1..(k - 1) : IsPart(t[j], "open", i)
  <2>1. CASE k \in P \cup C
    <3>1. PICK j \in 1..(k - 1) : IsPart(s[j], "open", i)
      BY <2>1, <1>4
    <3>2. j \in 1..N
      BY <1>1, <1>3, <2>1, <3>1
    <3> QED BY <1>1, <3>1, <3>2
  <2>2. CASE k \notin P \cup C
    <3>1. k = N + 1 /\ O # {}
      BY <1>2, <1>5, <2>2
    <3>2. PICK j \in O : IsPart(s[j], "open", i)
      BY <1>6, <3>1
    <3>3. j \in 1..N /\ j \in 1..(k - 1)
      BY <1>1, <1>3, <3>1
    <3> QED BY <1>1, <3>2, <3>3
  <2> QED BY <2>1, <2>2
<1>9. ASSUME NEW j \in C1, NEW k \in (j + 1)..(N + 1)
      PROVE  ~IsPart(t[k], "piece", i) /\ ~IsPart(t[k], "close", i)
  <2>1. CASE j \in C
    <3>1. ~IsPart(f, "piece", i) /\ ~IsPart(f, "close", i) /\ j \in 1..N
      BY <1>3, <1>5, <2>1
    <3>2. CASE k = N + 1
      BY <1>1, <3>1, <3>2
    <3>3. CASE k # N + 1
      <4>1. k \in (j + 1)..N /\ k \in 1..N
        BY <1>1, <3>1, <3>3
      <4> QED BY <1>1, <1>4, <2>1, <4>1
    <3> QED BY <3>2, <3>3
  <2>2. CASE j \notin C
    <3>1. j = N + 1
      BY <1>2, <2>2
    <3> QED BY <1>1, <3>1
  <2> QED BY <2>1, <2>2
<1>10. ASSUME NEW k \in P1 PROVE t[k].piece = PieceCount(t, i, k)
  <2>1. CASE k \in P
    <3>1. k \in 1..N
      BY <1>3, <2>1
    <3>2. t[k].piece = PieceCount(s, i, k) /\ k \in 0..N
      BY <1>1, <1>4, <2>1, <3>1
    <3>3. Parts(t, "piece", i, k) = Parts(s, "piece", i, k)
      BY <1>1, <3>2
    <3> QED BY <3>2, <3>3 DEF PieceCount
  <2>2. CASE k \notin P
    <3>1. k = N + 1 /\ IsPart(f, "piece", i)
      BY <1>2, <2>2
    <3>2. PieceCount(t, i, k) = Cardinality(P1)
      BY <3>1 DEF PieceCount, P1
    <3> QED BY <1>1, <1>2, <1>5, <3>1, <3>2
  <2> QED BY <2>1, <2>2
<1>11. PieceCount(t, i, N + 1) <= 2
  <2>1. PieceCount(t, i, N + 1) = Cardinality(P1)
    BY DEF PieceCount, P1
  <2> QED BY <1>2, <1>3, <1>4, <1>5, <2>1
<1>12. CallServed(t, i)
  BY <1>1, <1>7, <1>8, <1>9, <1>10, <1>11 DEF CallServed, O1, P1, C1
<1> QED BY <1>12 DEF t

\* What may be said after s: the next part of a call, or a stop in its time.
NextSaid(loop, s, f) ==
  /\ WellSaid(loop, f) /\ \A k \in 1..Len(s) : s[k].stop = "no"
  /\ \A i \in CallIds : NextPart(s, i, f)
  /\ f.kind = "open" => \E c \in 0..MaxToolCalls : OpenedIn(s) = 1..c /\ f.id = c + 1
  /\ StopServed(loop, s, f)

LEMMA OpenedGrows ==
  ASSUME NEW loop, NEW s, IsSeq(s), NEW f, NextSaid(loop, s, f),
         NEW c \in 0..MaxToolCalls, OpenedIn(s) = 1..c
  PROVE  /\ \E d \in 0..MaxToolCalls : OpenedIn(Append(s, f)) = 1..d
         /\ f.kind # "open" => OpenedIn(Append(s, f)) = OpenedIn(s)
<1> DEFINE t == Append(s, f)
           N == Len(s)
           M == N + 1
<1>1. /\ Len(t) = M /\ N \in Nat /\ t[M] = f
      /\ \A kind, i : Parts(t, kind, i, N) = Parts(s, kind, i, N)
  <2>1. /\ Len(t) = Len(s) + 1 /\ Len(s) \in Nat /\ t[Len(s) + 1] = f
        /\ \A kind, i : \A n \in 0..Len(s) : Parts(t, kind, i, n) = Parts(s, kind, i, n)
    BY AppendSame
  <2> HIDE DEF t
  <2> QED BY <2>1
<1>2. MaxToolCalls \in Nat
  BY ProviderStreamAssumption
<1> HIDE DEF t
<1>3. M = N + 1
  OBVIOUS
<1>4. OpenedIn(s) = {i \in CallIds : Parts(s, "open", i, N) # {}}
      /\ OpenedIn(t) = {i \in CallIds : Parts(t, "open", i, M) # {}}
  BY <1>1 DEF OpenedIn
<1> HIDE DEF N, M
<1>5. \A i \in CallIds : Parts(t, "open", i, M) =
         IF IsPart(f, "open", i) THEN Parts(s, "open", i, N) \cup {M} ELSE Parts(s, "open", i, N)
  <2> SUFFICES ASSUME NEW i \in CallIds
               PROVE  Parts(t, "open", i, M) =
                        IF IsPart(f, "open", i) THEN Parts(s, "open", i, N) \cup {M}
                        ELSE Parts(s, "open", i, N)
    OBVIOUS
  <2>1. /\ IsPart(t[M], "open", i) => Parts(t, "open", i, M) = Parts(t, "open", i, N) \cup {M}
        /\ ~IsPart(t[M], "open", i) => Parts(t, "open", i, M) = Parts(t, "open", i, N)
    <3>1. N \in Nat /\ M = N + 1
      BY <1>1, <1>3
    <3>2. ASSUME NEW kind
          PROVE  /\ IsPart(t[M], kind, i) =>
                      /\ Parts(t, kind, i, M) = Parts(t, kind, i, N) \cup {M}
                      /\ Cardinality(Parts(t, kind, i, M)) = Cardinality(Parts(t, kind, i, N)) + 1
                 /\ ~IsPart(t[M], kind, i) => Parts(t, kind, i, M) = Parts(t, kind, i, N)
      BY <3>1, PartsNext
    <3> QED BY <3>2
  <2> QED BY <1>1, <2>1
<1>6. CASE f.kind # "open"
  <2>1. \A i \in CallIds : Parts(t, "open", i, M) = Parts(s, "open", i, N)
    BY <1>5, <1>6 DEF IsPart
  <2>2. OpenedIn(t) = OpenedIn(s)
    BY <1>4, <2>1
  <2> QED BY <2>2 DEF t
<1>7. CASE f.kind = "open"
  <2>1. PICK d \in 0..MaxToolCalls : OpenedIn(s) = 1..d /\ f.id = d + 1
    BY <1>7 DEF NextSaid
  <2>2. f.id \in CallIds
    BY <1>7 DEF NextSaid, WellSaid
  <2>3. d + 1 \in 0..MaxToolCalls
    BY <1>2, <2>1, <2>2 DEF CallIds
  <2>4. \A i \in CallIds : i \in OpenedIn(t) <=> i \in OpenedIn(s) \/ i = d + 1
    BY <1>4, <1>5, <1>7, <2>1 DEF IsPart
  <2>5. \A i : i \in OpenedIn(t) <=> i \in 1..(d + 1)
    <3>1. \A i : i \in OpenedIn(t) => i \in CallIds
      BY DEF OpenedIn
    <3>2. \A i : i \in 1..(d + 1) => i \in CallIds
      BY <1>2, <2>1, <2>3 DEF CallIds
    <3>3. \A i : i \in 1..(d + 1) <=> i \in 1..d \/ i = d + 1
      BY <2>1
    <3> HIDE DEF CallIds
    <3> QED BY <2>1, <2>4, <3>1, <3>2, <3>3
  <2>6. OpenedIn(t) = 1..(d + 1)
    BY <2>5
  <2> QED BY <1>7, <2>3, <2>6 DEF t
<1> QED BY <1>6, <1>7

LEMMA EventsGrow ==
  ASSUME NEW loop, ~LineLoop(loop), NEW s, Served(loop, s), NEW f, NextSaid(loop, s, f)
  PROVE  Served(loop, Append(s, f))
<1> DEFINE t == Append(s, f)
           N == Len(s)
           M == N + 1
<1>1. /\ IsSeq(t) /\ Len(t) = M /\ N \in Nat /\ t[M] = f /\ \A k \in 1..N : t[k] = s[k]
      /\ \A kind, i : Parts(t, kind, i, N) = Parts(s, kind, i, N)
  <2>1. /\ IsSeq(t) /\ Len(t) = Len(s) + 1 /\ Len(s) \in Nat /\ t[Len(s) + 1] = f
        /\ \A k \in 1..Len(s) : t[k] = s[k]
        /\ \A kind, i : \A n \in 0..Len(s) : Parts(t, kind, i, n) = Parts(s, kind, i, n)
    BY AppendSame DEF Served
  <2> HIDE DEF t
  <2> QED BY <2>1
<1>2. IsSeq(s) /\ EventsServed(loop, s) /\ \A k \in 1..N : WellSaid(loop, s[k])
  BY DEF Served
<1>3. \A i \in CallIds : CallServed(t, i)
  BY <1>2, CallGrows DEF EventsServed, NextSaid
<1>4. PICK c \in 0..MaxToolCalls : OpenedIn(s) = 1..c
  BY <1>2 DEF EventsServed
<1>5. (\E d \in 0..MaxToolCalls : OpenedIn(t) = 1..d)
      /\ (f.kind # "open" => OpenedIn(t) = OpenedIn(s))
  BY <1>2, <1>4, OpenedGrows
<1>6. WellSaid(loop, f) /\ (\A k \in 1..N : s[k].stop = "no") /\ StopServed(loop, s, f)
  BY DEF NextSaid
<1> HIDE DEF t
<1>7. M = N + 1
  OBVIOUS
<1> HIDE DEF N, M
<1>8. \A k \in 1..M : k \in 1..N \/ k = M
  BY <1>1, <1>7
<1>9. \A k \in 1..M : WellSaid(loop, t[k])
  BY <1>1, <1>2, <1>6, <1>8
<1>10. \A k \in 1..M : t[k].stop # "no" => k = M
  BY <1>1, <1>6, <1>8
<1>11. StopServed(loop, t, f)
  <2>1. CASE f.stop = "no"
    BY <2>1 DEF StopServed
  <2>2. CASE f.stop # "no"
    <3>1. f.kind = "stop"
      BY <1>6, <2>2 DEF WellSaid, SseKinds
    <3>2. ASSUME NEW kind \in {"piece", "close"}, NEW i
          PROVE  Parts(t, kind, i, M) = Parts(s, kind, i, N)
      <4>1. ~IsPart(t[M], kind, i)
        BY <1>1, <3>1 DEF IsPart
      <4>2. Parts(t, kind, i, M) = Parts(t, kind, i, N)
        BY <1>1, <1>7, <4>1, PartsNext
      <4> QED BY <1>1, <4>2
    <3>3. OpenedIn(t) = OpenedIn(s)
      BY <1>5, <3>1
    <3>4. \A i : PieceCount(t, i, M) = PieceCount(s, i, N)
      BY <3>2 DEF PieceCount
    <3>5. \A i : Parts(t, "close", i, M) = Parts(s, "close", i, N)
      BY <3>2
    <3> QED BY <1>1, <1>6, <3>3, <3>4, <3>5 DEF StopServed, N
  <2> QED BY <2>1, <2>2
<1>12. \A k \in 1..M : StopServed(loop, t, t[k])
  <2> SUFFICES ASSUME NEW k \in 1..M PROVE StopServed(loop, t, t[k])
    OBVIOUS
  <2>1. k = M \/ t[k].stop = "no"
    BY <1>1, <1>6, <1>8
  <2> QED BY <1>1, <1>11, <2>1 DEF StopServed
<1>13. EventsServed(loop, t)
  BY <1>1, <1>3, <1>5, <1>12 DEF EventsServed
<1>14. Served(loop, t)
  BY <1>1, <1>9, <1>10, <1>13 DEF Served
<1> QED BY <1>14 DEF t

LEMMA LinesGrow ==
  ASSUME NEW loop, LineLoop(loop), NEW s, Served(loop, s), NEW f, WellSaid(loop, f),
         \A k \in 1..Len(s) : s[k].stop = "no",
         f.stop # "calls", loop = "buffered" => s = <<>>
  PROVE  Served(loop, Append(s, f))
<1> DEFINE t == Append(s, f)
           N == Len(s)
           M == N + 1
<1>1. /\ IsSeq(t) /\ Len(t) = M /\ N \in Nat /\ t[M] = f /\ (\A k \in 1..N : t[k] = s[k])
  BY AppendSame DEF Served
<1>2. LinesServed(loop, s) /\ \A k \in 1..N : WellSaid(loop, s[k])
  BY DEF Served
<1>3. \A k \in 1..N : s[k].stop = "no"
  OBVIOUS
<1>4. loop = "buffered" => N = 0
  BY SeqNone
<1> HIDE DEF t
<1>5. M = N + 1
  OBVIOUS
<1> HIDE DEF N, M
<1>6. \A k \in 1..M : k \in 1..N \/ k = M
  BY <1>1, <1>5
<1>7. \A k \in 1..M : WellSaid(loop, t[k])
  BY <1>1, <1>2, <1>6
<1>8. \A k \in 1..M : t[k].stop # "no" => k = M
  BY <1>1, <1>3, <1>6
<1>9. LinesServed(loop, t)
  <2>1. \A k \in 1..M : t[k].stop # "calls"
    BY <1>1, <1>3, <1>6
  <2> QED BY <1>1, <1>4, <1>5, <2>1 DEF LinesServed
<1>10. Served(loop, t)
  BY <1>1, <1>7, <1>8, <1>9 DEF Served
<1> QED BY <1>10 DEF t

(***************************************************************************)
(* The server of the model says nothing else.                              *)
(***************************************************************************)
LEMMA LoopKinds ==
  ASSUME IsBackend(backend)
  PROVE  (Lines <=> LineLoop(backend)) /\ (Anthropic <=> ClaudeLoop(backend))
         /\ (LossyChunks <=> LossyLoop(backend)) /\ (Lines => ~Anthropic)
BY DEF Lines, LineLoop, Anthropic, ClaudeLoop, LossyChunks, LossyLoop, IsBackend, Streaming

LEMMA SaidAsParts ==
  ASSUME IsBackend(backend), Served(backend, said)
  PROVE  /\ DOMAIN said = 1..Len(said) /\ Len(said) \in Nat
         /\ \A kind, i : SaidKind(kind, i) <=> Parts(said, kind, i, Len(said)) # {}
         /\ \A i : Pieces(i) = PieceCount(said, i, Len(said))
         /\ ~Lines => Opened = OpenedIn(said)
<1>1. DOMAIN said = 1..Len(said) /\ Len(said) \in Nat
  BY SeqFacts DEF Served
<1>2. ASSUME NEW kind, NEW i PROVE SaidKind(kind, i) <=> Parts(said, kind, i, Len(said)) # {}
  BY <1>1 DEF SaidKind, Parts, IsPart
<1>3. ASSUME NEW i PROVE Pieces(i) = PieceCount(said, i, Len(said))
  <2>1. {k \in DOMAIN said : said[k].kind = "piece" /\ said[k].id = i}
          = Parts(said, "piece", i, Len(said))
    BY <1>1 DEF Parts, IsPart
  <2> QED BY <2>1 DEF Pieces, PieceCount
<1>4. ASSUME ~Lines PROVE Opened = OpenedIn(said)
  <2>1. ~LineLoop(backend)
    BY <1>4, LoopKinds
  <2>2. \A k \in 1..Len(said) : WellSaid(backend, said[k])
    BY DEF Served
  <2>3. ASSUME NEW k \in 1..Len(said), NEW i \in CallIds
        PROVE  (said[k] = OpenFrame(i) \/ \E j \in DOMAIN said[k].calls : said[k].calls[j] = i)
                 <=> IsPart(said[k], "open", i)
    <3>1. said[k].calls = <<>> /\ (said[k].kind = "open" => said[k] = OpenFrame(said[k].id))
      BY <2>1, <2>2 DEF WellSaid, SseKinds
    <3>2. OpenFrame(i).kind = "open" /\ OpenFrame(i).id = i
      BY DEF OpenFrame, Frame
    <3>3. DOMAIN said[k].calls = {}
      BY <3>1, SeqNone
    <3> QED BY <3>1, <3>2, <3>3 DEF IsPart
  <2>4. ASSUME NEW i \in CallIds
        PROVE  (\E k \in DOMAIN said :
                   said[k] = OpenFrame(i) \/ \E j \in DOMAIN said[k].calls : said[k].calls[j] = i)
                 <=> Parts(said, "open", i, Len(said)) # {}
    BY <1>1, <2>3 DEF Parts
  <2> QED BY <2>4 DEF Opened, OpenedIn
<1> QED BY <1>1, <1>2, <1>3, <1>4

\* No server says anything after its stop, or after an error.
LEMMA NoStopYet ==
  ASSUME IsBackend(backend), Served(backend, said), NEW f \in Sayable
  PROVE  \A k \in 1..Len(said) : said[k].stop = "no"
BY SaidAsParts DEF Sayable, Stopped

LEMMA PlainSaid ==
  ASSUME NEW loop, ~LineLoop(loop), NEW s, \A k \in 1..Len(s) : s[k].stop = "no",
         NEW f, f.kind \in {"start", "delta", "ping", "comment", "error"}, f.text \in BOOLEAN,
         f.stop = "no", f.calls = <<>>
  PROVE  NextSaid(loop, s, f)
BY DEF NextSaid, WellSaid, SseKinds, NextPart, IsPart, StopServed

LEMMA EventSaid ==
  ASSUME IsBackend(backend), ~Lines, Served(backend, said), NEW f \in Sayable
  PROVE  NextSaid(backend, said, f)
<1> DEFINE N == Len(said)
<1>1. ~LineLoop(backend) /\ (Anthropic <=> ClaudeLoop(backend))
  BY LoopKinds
<1>2. \A k \in 1..N : said[k].stop = "no"
  BY NoStopYet
<1>3. /\ \A kind, i : SaidKind(kind, i) <=> Parts(said, kind, i, N) # {}
      /\ \A i : Pieces(i) = PieceCount(said, i, N)
      /\ Opened = OpenedIn(said) /\ N \in Nat
  BY SaidAsParts
<1>4. PICK c \in 0..MaxToolCalls : OpenedIn(said) = 1..c
  BY <1>1 DEF Served, EventsServed
<1>5. \A i \in Opened : i \in CallIds
  BY DEF Opened
<1>6. \A i \in CallIds : i \in Opened <=> Parts(said, "open", i, N) # {}
  BY <1>3 DEF OpenedIn
<1>7. \A i : PieceCount(said, i, N) \in Nat
  BY <1>3, CountLater
<1>8. f \in NoiseFrames \cup {Frame("start")} \cup SseFrames
  BY DEF Sayable, Noisy, NoiseFrames
<1> HIDE DEF N
<1>9. CASE f \in NoiseFrames \cup {Frame("start")}
  <2>1. f.kind \in {"start", "ping", "comment", "error"} /\ f.text \in BOOLEAN /\ f.stop = "no"
        /\ f.calls = <<>>
    <3>1. f.text = FALSE /\ f.kind \in {"start", "ping", "comment", "error"} /\ f.stop = "no"
          /\ f.calls = <<>>
      BY <1>9 DEF NoiseFrames, Frame
    <3>2. f.text \in BOOLEAN
      BY <3>1
    <3> QED BY <3>1, <3>2
  <2>2. f.kind \in {"start", "delta", "ping", "comment", "error"}
        /\ \A k \in 1..Len(said) : said[k].stop = "no"
    BY <1>2, <2>1 DEF N
  <2> QED BY <1>1, <2>1, <2>2, PlainSaid
<1>10. CASE f = TextFrame
  <2>1. f.kind = "delta" /\ f.text \in BOOLEAN /\ f.stop = "no" /\ f.calls = <<>>
    BY <1>10 DEF TextFrame, Frame
  <2>2. f.kind \in {"start", "delta", "ping", "comment", "error"}
        /\ \A k \in 1..Len(said) : said[k].stop = "no"
    BY <1>2, <2>1 DEF N
  <2> QED BY <1>1, <2>1, <2>2, PlainSaid
<1>11. ASSUME NEW i \in {Cardinality(Opened) + 1} \cap CallIds, f = OpenFrame(i)
       PROVE  NextSaid(backend, said, f)
  <2>1. f.kind = "open" /\ f.id = i /\ f.text = FALSE /\ f.stop = "no" /\ f.calls = <<>>
        /\ f = OpenFrame(f.id)
    BY <1>11 DEF OpenFrame, Frame
  <2>2. i = c + 1 /\ i \in CallIds
    <3>1. Cardinality(1..c) = c
      <4>1. c \in Nat
        BY <1>4
      <4> QED BY <4>1, OrderOfInterval
    <3> QED BY <1>3, <1>4, <3>1
  <2>3. i \notin Opened
    BY <1>3, <1>4, <2>2
  <2>4. \A j \in CallIds : NextPart(said, j, f)
    BY <1>6, <2>1, <2>2, <2>3 DEF NextPart, IsPart, N
  <2>5. WellSaid(backend, f)
    BY <1>1, <2>1, <2>2 DEF WellSaid, SseKinds
  <2> QED BY <1>2, <1>4, <2>1, <2>2, <2>4, <2>5 DEF NextSaid, StopServed, N
<1>12. ASSUME NEW i \in Unfinished, f = PieceFrame(i, Pieces(i) + 1)
       PROVE  NextSaid(backend, said, f)
  <2>1. f.kind = "piece" /\ f.id = i /\ f.text = FALSE /\ f.stop = "no" /\ f.calls = <<>>
        /\ f.piece = Pieces(i) + 1
    BY <1>12 DEF PieceFrame, Frame
  <2>2. i \in Opened /\ ~SaidKind("close", i) /\ Pieces(i) < 2
    BY DEF Unfinished
  <2>3. \A j \in CallIds : NextPart(said, j, f)
    BY <1>3, <1>5, <1>6, <2>1, <2>2 DEF NextPart, IsPart, N
  <2>4. WellSaid(backend, f)
    BY <1>1, <1>5, <2>1, <2>2 DEF WellSaid, SseKinds
  <2> QED BY <1>2, <2>1, <2>3, <2>4 DEF NextSaid, StopServed, N
<1>13. ASSUME NEW i \in {j \in Opened : ~SaidKind("close", j)}, f = CloseFrame(i), Anthropic
       PROVE  NextSaid(backend, said, f)
  <2>1. f.kind = "close" /\ f.id = i /\ f.text = FALSE /\ f.stop = "no" /\ f.calls = <<>>
    BY <1>13 DEF CloseFrame, Frame
  <2>2. i \in Opened /\ ~SaidKind("close", i)
    OBVIOUS
  <2>3. \A j \in CallIds : NextPart(said, j, f)
    BY <1>3, <1>5, <1>6, <2>1, <2>2 DEF NextPart, IsPart, N
  <2>4. WellSaid(backend, f)
    BY <1>1, <1>5, <1>13, <2>1, <2>2 DEF WellSaid, SseKinds
  <2> QED BY <1>2, <2>1, <2>3, <2>4 DEF NextSaid, StopServed, N
<1>14. ASSUME NEW reason \in StopReasons, f = StopFrame(reason) PROVE NextSaid(backend, said, f)
  <2>1. f.kind = "stop" /\ f.text = FALSE /\ f.stop = reason /\ f.calls = <<>>
    BY <1>14 DEF StopFrame, Frame
  <2>2. /\ reason \in {"length", "end", "calls"}
        /\ reason = "end" => Opened = {}
        /\ reason = "calls" => Opened # {} /\ \A i \in Opened : ~HalfSaid(i)
        /\ Anthropic => \A i \in Opened : SaidKind("close", i)
    BY DEF StopReasons, BlockOpen
  <2>3. WellSaid(backend, f)
    BY <2>1, <2>2, <1>1 DEF WellSaid, SseKinds
  <2>4. StopServed(backend, said, f)
    BY <1>1, <1>3, <2>1, <2>2 DEF StopServed, HalfSaid, N
  <2>5. \A j \in CallIds : NextPart(said, j, f)
    BY <2>1 DEF NextPart, IsPart
  <2> QED BY <1>2, <2>1, <2>3, <2>4, <2>5 DEF NextSaid, N
<1>15. CASE f \in SseFrames
  BY <1>10, <1>11, <1>12, <1>13, <1>14, <1>15 DEF SseFrames
<1> QED BY <1>8, <1>9, <1>15

LEMMA LineSaid ==
  ASSUME IsBackend(backend), Lines, Served(backend, said), NEW f \in Sayable
  PROVE  /\ WellSaid(backend, f) /\ f.stop # "calls"
         /\ backend = "buffered" => said = <<>>
<1>1. LineLoop(backend) /\ ~Anthropic
  BY LoopKinds
<1>2. f \in Noisy \cup LineFrames
  BY <1>1 DEF Sayable
<1>3. CASE f \in Noisy
  <2>1. f \in NoiseFrames /\ f # Frame("comment") /\ (backend = "buffered" => said = <<>>)
    BY <1>3, <1>1 DEF Noisy, NoiseFrames, Frame, LineLoop
  <2>2. f.kind \in {"ping", "error"} /\ f.text = FALSE /\ f.stop = "no" /\ f.calls = <<>>
    BY <2>1 DEF NoiseFrames, Frame
  <2> QED BY <1>1, <2>1, <2>2 DEF WellSaid
<1>4. CASE f \in LineFrames
  <2>1. PICK text \in BOOLEAN, calls \in NewCalls, stop \in {"no", "end", "length"} :
          f = Line(text, calls, stop)
    BY <1>4 DEF LineFrames
  <2>2. f.kind = "line" /\ f.text = text /\ f.calls = calls /\ f.stop = stop
    BY <2>1 DEF Line, Frame
  <2>3. backend = "buffered" => said = <<>>
    BY <1>4 DEF LineFrames
  <2>4. WellSaid(backend, f)
    BY <1>1, <2>2 DEF WellSaid
  <2> QED BY <2>2, <2>3, <2>4
<1> QED BY <1>2, <1>3, <1>4

LEMMA ServerKeeps ==
  ASSUME IsBackend(backend), Served(backend, said), NEW f \in Sayable
  PROVE  Served(backend, Append(said, f))
<1>1. Lines <=> LineLoop(backend)
  BY LoopKinds
<1>2. CASE Lines
  BY <1>1, <1>2, LineSaid, NoStopYet, LinesGrow
<1>3. CASE ~Lines
  BY <1>1, <1>3, EventSaid, EventsGrow
<1> QED BY <1>2, <1>3

(***************************************************************************)
(* What the task holds grows with the frames it takes.                     *)
(***************************************************************************)
LEMMA AccumulatedSame ==
  ASSUME NEW loop, NEW a, NEW s, IsSeq(s), NEW f, NEW n \in Nat, n <= Len(s),
         Accumulated(loop, a, s, n)
  PROVE  Accumulated(loop, a, Append(s, f), n)
<1> DEFINE t == Append(s, f)
<1>1. (\A k \in 1..n : t[k] = s[k]) /\ \A kind, i : Parts(t, kind, i, n) = Parts(s, kind, i, n)
  <2>1. /\ \A k \in 1..Len(s) : t[k] = s[k]
        /\ \A kind, i : \A x \in 0..Len(s) : Parts(t, kind, i, x) = Parts(s, kind, i, x)
        /\ Len(s) \in Nat
    BY AppendSame
  <2> HIDE DEF t
  <2>2. n \in 0..Len(s) /\ \A k \in 1..n : k \in 1..Len(s)
    BY <2>1
  <2> QED BY <2>1, <2>2
<1> HIDE DEF t
<1>2. \A build, finished, i :
        Knows(loop, build, finished, t, i, n) <=> Knows(loop, build, finished, s, i, n)
  BY <1>1 DEF Knows, Holds, PieceCount
<1>3. \A k \in 1..n : LastCalls(t, k, n) <=> LastCalls(s, k, n)
  <2> SUFFICES ASSUME NEW k \in 1..n PROVE LastCalls(t, k, n) <=> LastCalls(s, k, n)
    OBVIOUS
  <2>1. \A j \in (k + 1)..n : j \in 1..n
    OBVIOUS
  <2> QED BY <1>1, <2>1 DEF LastCalls
<1>4. Accumulated(loop, a, t, n)
  <2>1. (\A k \in 1..n : t[k].calls = <<>>) <=> \A k \in 1..n : s[k].calls = <<>>
    BY <1>1
  <2>2. \A k \in 1..n : t[k] = s[k]
    BY <1>1
  <2> QED BY <1>2, <1>3, <2>1, <2>2 DEF Accumulated
<1> QED BY <1>4 DEF t

\* When a part of a call comes, the ones before it have.
InTurn(s, i, n, f) ==
  /\ IsPart(f, "open", i) =>
       /\ Parts(s, "open", i, n) = {} /\ Parts(s, "close", i, n) = {}
       /\ PieceCount(s, i, n) = 0
  /\ IsPart(f, "piece", i) =>
       /\ Parts(s, "open", i, n) # {} /\ Parts(s, "close", i, n) = {}
       /\ f.piece = PieceCount(s, i, n) + 1 /\ f.piece \in 1..2
  /\ IsPart(f, "close", i) => Parts(s, "open", i, n) # {} /\ Parts(s, "close", i, n) = {}

LEMMA PartsInTurn ==
  ASSUME NEW s, NEW i, CallServed(s, i), Len(s) \in Nat, NEW n \in Nat, NEW m, m = n + 1,
         m <= Len(s)
  PROVE  InTurn(s, i, n, s[m])
<1> DEFINE O == Parts(s, "open", i, n)
           P == Parts(s, "piece", i, n)
           C == Parts(s, "close", i, n)
           N == Len(s)
<1>1. /\ \A j, k \in Parts(s, "open", i, N) : j = k
      /\ \A k \in Parts(s, "piece", i, N) \cup Parts(s, "close", i, N) :
           \E j \in 1..(k - 1) : IsPart(s[j], "open", i)
      /\ \A j \in Parts(s, "close", i, N) : \A k \in (j + 1)..N :
           ~IsPart(s[k], "piece", i) /\ ~IsPart(s[k], "close", i)
      /\ \A k \in Parts(s, "piece", i, N) : s[k].piece = PieceCount(s, i, k)
      /\ PieceCount(s, i, N) <= 2
  BY DEF CallServed
<1>2. N \in Nat /\ m \in 1..N /\ \A k \in 1..n : k \in 1..N /\ k < m
  OBVIOUS
<1>3. \A kind, k : k \in Parts(s, kind, i, n) => k \in Parts(s, kind, i, N) /\ k \in 1..n
  BY <1>2 DEF Parts
<1>4. \A kind : IsPart(s[m], kind, i) => m \in Parts(s, kind, i, N)
  BY <1>2 DEF Parts
<1>5. \A kind, k : k \in 1..n /\ IsPart(s[k], kind, i) => k \in Parts(s, kind, i, n)
  BY DEF Parts
<1>6. ASSUME IsPart(s[m], "piece", i) \/ IsPart(s[m], "close", i)
      PROVE  O # {} /\ C = {}
  <2>1. PICK j \in 1..(m - 1) : IsPart(s[j], "open", i)
    BY <1>1, <1>4, <1>6
  <2>2. j \in O
    BY <1>5, <2>1
  <2>3. ASSUME NEW j2 \in C PROVE FALSE
    <3>1. j2 \in Parts(s, "close", i, N) /\ m \in (j2 + 1)..N
      BY <1>2, <1>3
    <3> QED BY <1>1, <1>6, <3>1
  <2> QED BY <2>2, <2>3
<1>7. ASSUME IsPart(s[m], "open", i)
      PROVE  O = {} /\ P = {} /\ C = {}
  <2>1. \A k \in 1..n : ~IsPart(s[k], "open", i)
    <3> SUFFICES ASSUME NEW k \in 1..n, IsPart(s[k], "open", i) PROVE FALSE
      OBVIOUS
    <3>1. k \in Parts(s, "open", i, N) /\ m \in Parts(s, "open", i, N)
      BY <1>3, <1>4, <1>5, <1>7
    <3>2. k = m
      BY <1>1, <3>1
    <3> QED BY <1>2, <3>2
  <2>2. ASSUME NEW k \in P \cup C PROVE FALSE
    <3>1. k \in 1..n /\ k \in Parts(s, "piece", i, N) \cup Parts(s, "close", i, N)
      BY <1>3
    <3>2. PICK j \in 1..(k - 1) : IsPart(s[j], "open", i)
      BY <1>1, <3>1
    <3>3. j \in 1..n
      BY <3>1, <3>2
    <3> QED BY <2>1, <3>2, <3>3
  <2>3. O = {}
    BY <2>1 DEF Parts
  <2> QED BY <2>2, <2>3
<1>8. ASSUME IsPart(s[m], "piece", i)
      PROVE  s[m].piece = PieceCount(s, i, n) + 1 /\ s[m].piece \in 1..2
  <2>1. s[m].piece = PieceCount(s, i, m)
    BY <1>1, <1>4, <1>8
  <2>2. PieceCount(s, i, m) = PieceCount(s, i, n) + 1
    BY <1>8, PartsNext DEF PieceCount
  <2>3. m \in Nat
    OBVIOUS
  <2>4. PieceCount(s, i, m) <= PieceCount(s, i, N) /\ PieceCount(s, i, n) \in Nat
        /\ PieceCount(s, i, N) \in Nat
    BY <2>3, CountLater
  <2> QED BY <1>1, <2>1, <2>2, <2>4
<1>9. P = {} => PieceCount(s, i, n) = 0
  BY PartsFinite DEF PieceCount
<1> QED BY <1>6, <1>7, <1>8, <1>9 DEF InTurn

\* A frame that is no part of the call, and each of its parts.
LEMMA OtherKnows ==
  ASSUME NEW loop, NEW build, NEW fin, NEW s, NEW i, NEW n \in Nat, NEW m, m = n + 1,
         Knows(loop, build, fin, s, i, n),
         s[m].id # i \/ s[m].kind \notin {"open", "piece", "close"}
  PROVE  Knows(loop, build, fin, s, i, m)
<1>1. ASSUME NEW kind \in {"open", "piece", "close"}
      PROVE  Parts(s, kind, i, m) = Parts(s, kind, i, n)
  <2>1. ~IsPart(s[m], kind, i)
    BY DEF IsPart
  <2> QED BY <2>1, PartsNext
<1>2. /\ Parts(s, "open", i, m) = Parts(s, "open", i, n)
      /\ Parts(s, "piece", i, m) = Parts(s, "piece", i, n)
      /\ Parts(s, "close", i, m) = Parts(s, "close", i, n)
  BY <1>1
<1> QED BY <1>2 DEF Knows, Holds, PieceCount

PartNext(loop, build, fin, s, i, n, m) ==
  /\ n \in Nat /\ m = n + 1
  /\ Knows(loop, build, fin, s, i, n) /\ InTurn(s, i, n, s[m]) /\ s[m].id = i
  /\ build \in [open : BOOLEAN, pieces : Seq(Piece)] /\ i \in CallIds

LEMMA PartKnows ==
  ASSUME NEW loop, NEW build, NEW fin, NEW s, NEW i, NEW n, NEW m,
         PartNext(loop, build, fin, s, i, n, m)
  PROVE  /\ s[m].kind = "open" =>
              /\ build.pieces = <<>>
              /\ \A u : u.open = TRUE /\ u.pieces = <<>> => Knows(loop, u, fin, s, i, m)
         /\ s[m].kind = "piece" =>
              /\ build.open
              /\ \A u : \A cc \in BOOLEAN :
                   /\ cc => LossyLoop(loop)
                   /\ u.open = build.open
                   /\ u.pieces = Append(build.pieces, [id |-> i, piece |-> s[m].piece, cut |-> cc])
                   => Knows(loop, u, fin, s, i, m) /\ u.pieces \in Seq(Piece)
         /\ s[m].kind = "close" /\ ClaudeLoop(loop) =>
              /\ build.open
              /\ \A u : u.open = FALSE /\ u.pieces = build.pieces =>
                   Knows(loop, u, Parsed(i, build.pieces), s, i, m)
<1> USE DEF PartNext
<1> DEFINE O == Parts(s, "open", i, n)
           P == Parts(s, "piece", i, n)
           C == Parts(s, "close", i, n)
           O1 == Parts(s, "open", i, m)
           P1 == Parts(s, "piece", i, m)
           C1 == Parts(s, "close", i, m)
           f == s[m]
<1>1. /\ O1 = IF IsPart(f, "open", i) THEN O \cup {m} ELSE O
      /\ C1 = IF IsPart(f, "close", i) THEN C \cup {m} ELSE C
      /\ ~IsPart(f, "piece", i) => P1 = P
      /\ IsPart(f, "piece", i) => Cardinality(P1) = Cardinality(P) + 1
  <2>1. ASSUME NEW kind
        PROVE  /\ IsPart(s[m], kind, i) =>
                    /\ Parts(s, kind, i, m) = Parts(s, kind, i, n) \cup {m}
                    /\ Cardinality(Parts(s, kind, i, m)) = Cardinality(Parts(s, kind, i, n)) + 1
               /\ ~IsPart(s[m], kind, i) => Parts(s, kind, i, m) = Parts(s, kind, i, n)
    BY PartsNext
  <2> QED BY <2>1
<1>2. /\ Len(build.pieces) = Cardinality(P)
      /\ \A k \in 1..Len(build.pieces) :
           /\ build.pieces[k].id = i /\ build.pieces[k].piece = k
           /\ build.pieces[k].cut => LossyLoop(loop)
      /\ build.open <=> O # {} /\ (ClaudeLoop(loop) => C = {})
      /\ ClaudeLoop(loop) => fin = IF C = {} THEN "no" ELSE Parsed(i, build.pieces)
  BY DEF Knows, Holds, PieceCount
<1>3. /\ f.kind = "open" => O = {} /\ C = {} /\ Cardinality(P) = 0
      /\ f.kind = "piece" => O # {} /\ C = {} /\ f.piece = Cardinality(P) + 1 /\ f.piece \in 1..2
      /\ f.kind = "close" => O # {} /\ C = {}
  BY DEF InTurn, IsPart, PieceCount
<1>4. build.pieces \in Seq(Piece)
  OBVIOUS
<1>5. ASSUME NEW u, NEW v
      PROVE  Knows(loop, u, v, s, i, m) <=>
               /\ Len(u.pieces) = Cardinality(P1)
               /\ \A k \in 1..Len(u.pieces) :
                    /\ u.pieces[k].id = i /\ u.pieces[k].piece = k
                    /\ u.pieces[k].cut => LossyLoop(loop)
               /\ u.open <=> O1 # {} /\ (ClaudeLoop(loop) => C1 = {})
               /\ ClaudeLoop(loop) => v = IF C1 = {} THEN "no" ELSE Parsed(i, u.pieces)
  BY DEF Knows, Holds, PieceCount
<1> HIDE DEF O, P, C, O1, P1, C1
<1>6. CASE f.kind = "open"
  <2>1. O1 # {} /\ C1 = C /\ P1 = P
    BY <1>1, <1>6 DEF IsPart
  <2>2. build.pieces = <<>>
    BY <1>2, <1>3, <1>4, <1>6
  <2>3. ASSUME NEW u, u.open = TRUE, u.pieces = <<>> PROVE Knows(loop, u, fin, s, i, m)
    <3>1. Len(u.pieces) = 0
      BY <2>3
    <3>2. Len(u.pieces) = Cardinality(P1) /\ \A k : k \notin 1..Len(u.pieces)
      BY <1>3, <1>6, <2>1, <3>1
    <3>3. ClaudeLoop(loop) => fin = IF C1 = {} THEN "no" ELSE Parsed(i, u.pieces)
      BY <1>2, <1>3, <1>6, <2>1
    <3>4. u.open <=> O1 # {} /\ (ClaudeLoop(loop) => C1 = {})
      BY <1>3, <1>6, <2>1, <2>3
    <3> QED BY <1>5, <3>2, <3>3, <3>4
  <2> QED BY <1>6, <2>2, <2>3
<1>7. CASE f.kind = "piece"
  <2>1. O1 = O /\ C1 = C /\ Cardinality(P1) = Cardinality(P) + 1
    BY <1>1, <1>7 DEF IsPart
  <2>2. build.open
    BY <1>2, <1>3, <1>7
  <2>3. ASSUME NEW u, NEW cc \in BOOLEAN, cc => LossyLoop(loop), u.open = build.open,
               u.pieces = Append(build.pieces, [id |-> i, piece |-> f.piece, cut |-> cc])
        PROVE  Knows(loop, u, fin, s, i, m) /\ u.pieces \in Seq(Piece)
    <3> DEFINE p == [id |-> i, piece |-> f.piece, cut |-> cc]
               q == build.pieces
    <3>1. p \in Piece /\ p.id = i /\ p.piece = f.piece /\ p.cut = cc
      BY <1>3, <1>7 DEF Piece
    <3>2. q \in Seq(Piece) /\ u.pieces = Append(q, p)
      BY <1>4, <2>3
    <3> HIDE DEF p, q
    <3>3. /\ u.pieces \in Seq(Piece) /\ Len(u.pieces) = Len(q) + 1 /\ Len(q) \in Nat
          /\ \A k \in 1..Len(q) : u.pieces[k] = q[k]
          /\ u.pieces[Len(q) + 1] = p
      BY <3>1, <3>2, AppendProperties
    <3>4. Len(q) = Cardinality(P) /\ \A k \in 1..Len(q) :
            q[k].id = i /\ q[k].piece = k /\ (q[k].cut => LossyLoop(loop))
      BY <1>2 DEF q
    <3>5. Len(u.pieces) = Cardinality(P1)
      BY <2>1, <3>3, <3>4
    <3>6. ASSUME NEW k \in 1..Len(u.pieces)
          PROVE  /\ u.pieces[k].id = i /\ u.pieces[k].piece = k
                 /\ u.pieces[k].cut => LossyLoop(loop)
      <4>1. CASE k \in 1..Len(q)
        BY <3>3, <3>4, <4>1
      <4>2. CASE k = Len(q) + 1
        <5>1. u.pieces[k] = p /\ f.piece = k
          BY <1>3, <1>7, <3>3, <3>4, <4>2
        <5>2. p.cut => LossyLoop(loop)
          BY <2>3, <3>1
        <5> QED BY <3>1, <5>1, <5>2
      <4> QED BY <3>3, <4>1, <4>2
    <3>7. u.open <=> O1 # {} /\ (ClaudeLoop(loop) => C1 = {})
      BY <1>2, <2>1, <2>3
    <3>8. ClaudeLoop(loop) => fin = IF C1 = {} THEN "no" ELSE Parsed(i, u.pieces)
      BY <1>2, <1>3, <1>7, <2>1
    <3> QED BY <1>5, <3>3, <3>5, <3>6, <3>7, <3>8
  <2> QED BY <1>7, <2>2, <2>3
<1>8. CASE f.kind = "close" /\ ClaudeLoop(loop)
  <2>1. O1 = O /\ C1 # {} /\ P1 = P
    BY <1>1, <1>8 DEF IsPart
  <2>2. build.open
    BY <1>2, <1>3, <1>8
  <2>3. ASSUME NEW u, u.open = FALSE, u.pieces = build.pieces
        PROVE  Knows(loop, u, Parsed(i, build.pieces), s, i, m)
    <3>1. u.open <=> O1 # {} /\ (ClaudeLoop(loop) => C1 = {})
      BY <1>8, <2>1, <2>3
    <3> QED BY <1>2, <1>5, <2>1, <2>3, <3>1
  <2> QED BY <1>8, <2>2, <2>3
<1> QED BY <1>6, <1>7, <1>8

\* One call has changed, the others have not.
Others(c, a, i) == \A j \in CallIds \ {i} : c.builds[j] = a.builds[j] /\ c.finished[j] = a.finished[j]
KnowsCalls(loop, a, s, n) == \A i \in CallIds : Knows(loop, a.builds[i], a.finished[i], s, i, n)

LEMMA OneKnows ==
  ASSUME NEW loop, NEW a, NEW c, NEW s, NEW n \in Nat, NEW m, m = n + 1,
         KnowsCalls(loop, a, s, n), Others(c, a, s[m].id),
         s[m].id \in CallIds =>
           Knows(loop, c.builds[s[m].id], c.finished[s[m].id], s, s[m].id, m)
  PROVE  KnowsCalls(loop, c, s, m)
<1> DEFINE B == a.builds
           F == a.finished
           B2 == c.builds
           F2 == c.finished
<1>1. /\ \A i \in CallIds : Knows(loop, B[i], F[i], s, i, n)
      /\ \A i \in CallIds \ {s[m].id} : B2[i] = B[i] /\ F2[i] = F[i]
      /\ s[m].id \in CallIds => Knows(loop, B2[s[m].id], F2[s[m].id], s, s[m].id, m)
  BY DEF KnowsCalls, Others
<1> HIDE DEF B, F, B2, F2
<1>2. ASSUME NEW i \in CallIds PROVE Knows(loop, B2[i], F2[i], s, i, m)
  <2>1. CASE i = s[m].id
    BY <1>1, <2>1
  <2>2. CASE i # s[m].id
    <3>1. Knows(loop, B[i], F[i], s, i, n) /\ B2[i] = B[i] /\ F2[i] = F[i]
      BY <1>1, <2>2
    <3>2. s[m].id # i \/ s[m].kind \notin {"open", "piece", "close"}
      BY <2>2
    <3>3. Knows(loop, B[i], F[i], s, i, m)
      BY <3>1, <3>2, OtherKnows
    <3> QED BY <3>1, <3>3
  <2> QED BY <2>1, <2>2
<1> QED BY <1>2 DEF KnowsCalls, B2, F2

LEMMA ParsedOutcome == ASSUME NEW i, NEW p PROVE Parsed(i, p) \in Outcomes
BY DEF Parsed, Outcomes

\* The frame the task takes next.
Taking(b, n, m) ==
  /\ IsBackend(backend) /\ Served(backend, said) /\ Accumulated(backend, acc, said, n)
  /\ m = n + 1 /\ m <= Len(said) /\ b.at = m
  /\ b.cut \in BOOLEAN /\ (b.cut => LossyLoop(backend))

LEMMA TakingEvent ==
  ASSUME NEW n \in Nat, NEW m, NEW b, Taking(b, n, m), ~Lines
  PROVE  /\ WellSaid(backend, said[m]) /\ ~LineLoop(backend)
         /\ acc.builds \in Builds /\ acc.finished \in [CallIds -> Outcomes]
         /\ \A i \in CallIds : Knows(backend, acc.builds[i], acc.finished[i], said, i, n)
         /\ \A i \in CallIds : InTurn(said, i, n, said[m])
         /\ said[m].kind \in {"open", "piece", "close"} => said[m].id \in CallIds
<1>1. ~LineLoop(backend) /\ m \in 1..Len(said) /\ Len(said) \in Nat
  BY LoopKinds, SeqFacts DEF Taking, Served
<1>2. WellSaid(backend, said[m]) /\ \A i \in CallIds : CallServed(said, i)
  BY <1>1 DEF Taking, Served, EventsServed
<1>3. ASSUME NEW i \in CallIds PROVE InTurn(said, i, n, said[m])
  <2>1. CallServed(said, i) /\ m = n + 1 /\ m <= Len(said)
    BY <1>2 DEF Taking
  <2> QED BY <1>1, <2>1, PartsInTurn
<1>4. acc.builds \in Builds /\ acc.finished \in [CallIds -> Outcomes]
  BY DEF Taking, Accumulated, Accs
<1> QED BY <1>1, <1>2, <1>3, <1>4 DEF Taking, Accumulated, WellSaid

LEMMA EventAccumulates ==
  ASSUME NEW n \in Nat, NEW m, NEW b, Taking(b, n, m), ~Lines,
         NEW P, NEW a \in Accs(P),
         \A i \in CallIds : Knows(backend, a.builds[i], a.finished[i], said, i, m)
  PROVE  Accumulated(backend, a, said, m)
<1>1. a \in Accs({a.pending})
  BY DEF Accs
<1>2. backend # "ollama"
  BY DEF Lines
<1> QED BY <1>1, <1>2 DEF Accumulated

\* The other frames of an event stream.
LEMMA OtherAccumulates ==
  ASSUME NEW n \in Nat, NEW m, NEW b, Taking(b, n, m), ~Lines,
         said[m].kind \notin {"open", "piece", "close"},
         NEW P, NEW a \in Accs(P), a.builds = acc.builds, a.finished = acc.finished
  PROVE  Accumulated(backend, a, said, m)
<1> DEFINE B == acc.builds
           F == acc.finished
           s == said
           loop == backend
<1>1. /\ \A i \in CallIds : Knows(loop, B[i], F[i], s, i, n)
      /\ s[m].kind \notin {"open", "piece", "close"} /\ m = n + 1
  BY TakingEvent DEF Taking
<1>2. a.builds = B /\ a.finished = F
  OBVIOUS
<1> HIDE DEF B, F, s, loop
<1>3. \A i \in CallIds : Knows(loop, B[i], F[i], s, i, m)
  BY <1>1, OtherKnows
<1>4. \A i \in CallIds : Knows(backend, a.builds[i], a.finished[i], said, i, m)
  BY <1>2, <1>3 DEF s, loop
<1> QED BY <1>4, EventAccumulates

LEMMA UsageChanges ==
  ASSUME NEW P, NEW a \in Accs(P), NEW c, NEW u \in {"none", "start", "final"},
         c = [a EXCEPT !.usage = u]
  PROVE  c \in Accs(P) /\ c.builds = a.builds /\ c.finished = a.finished
BY DEF Accs

LEMMA PartAccumulates ==
  ASSUME NEW n \in Nat, NEW m, NEW b, Taking(b, n, m), ~Lines,
         said[m].kind \in {"open", "piece", "close"}
  PROVE  Accumulated(backend, NextAcc(b), said, m)
<1> DEFINE a == acc
           s == said
           loop == backend
           f == s[m]
           i == f.id
           P == {acc.pending}
           c == NextAcc(b)
           build == a.builds[i]
           fin == a.finished[i]
<1>1. /\ WellSaid(loop, f) /\ m = n + 1 /\ b.at = m /\ a \in Accs(P)
      /\ \A j \in CallIds : Knows(loop, a.builds[j], a.finished[j], s, j, n)
      /\ InTurn(s, i, n, f) /\ i \in CallIds
      /\ b.cut \in BOOLEAN /\ (b.cut => LossyLoop(loop))
  BY TakingEvent DEF Taking, Accumulated
<1>2. (Anthropic <=> ClaudeLoop(loop)) /\ (~Anthropic => backend = "openai")
  BY LoopKinds DEF Taking, Anthropic, Lines, IsBackend, Streaming
<1>3. f = said[b.at] /\ f.kind \in {"open", "piece", "close"} /\ f.id = i
  BY <1>1
<1>4. build \in [open : BOOLEAN, pieces : Seq(Piece)] /\ Knows(loop, build, fin, s, i, n)
      /\ acc.builds[f.id] = build /\ build.pieces \in Seq(Piece)
  BY <1>1 DEF Accs, Builds
<1>5. /\ InTurn(s, i, n, s[m]) /\ s[m].id = i /\ i \in CallIds /\ m = n + 1 /\ f = s[m]
  BY <1>1
<1>6. c = (IF Anthropic THEN AnthropicAcc(b) ELSE OpenAiAcc(b))
  BY <1>2 DEF NextAcc, Anthropic
<1> HIDE DEF a, s, loop, f, i, P, c, build, fin
<1>7. /\ s[m].kind = "open" =>
           /\ build.pieces = <<>>
           /\ \A u : u.open = TRUE /\ u.pieces = <<>> => Knows(loop, u, fin, s, i, m)
      /\ s[m].kind = "piece" =>
           /\ build.open
           /\ \A u : \A cc \in BOOLEAN :
                /\ cc => LossyLoop(loop)
                /\ u.open = build.open
                /\ u.pieces = Append(build.pieces, [id |-> i, piece |-> s[m].piece, cut |-> cc])
                => Knows(loop, u, fin, s, i, m) /\ u.pieces \in Seq(Piece)
      /\ s[m].kind = "close" /\ ClaudeLoop(loop) =>
           /\ build.open
           /\ \A u : u.open = FALSE /\ u.pieces = build.pieces =>
                Knows(loop, u, Parsed(i, build.pieces), s, i, m)
  <2>1. PartNext(loop, build, fin, s, i, n, m)
    BY <1>4, <1>5 DEF PartNext
  <2> QED BY <2>1, PartKnows
\* It is enough to look at the call of the part.
<1>8. ASSUME c \in Accs(P), Others(c, a, i), Knows(loop, c.builds[i], c.finished[i], s, i, m)
      PROVE  Accumulated(backend, NextAcc(b), said, m)
  <2>1. Others(c, a, s[m].id)
    BY <1>5, <1>8
  <2>2. s[m].id \in CallIds =>
          Knows(loop, c.builds[s[m].id], c.finished[s[m].id], s, s[m].id, m)
    BY <1>5, <1>8
  <2>3. m = n + 1 /\ KnowsCalls(loop, a, s, n)
    BY <1>1 DEF KnowsCalls
  <2>4. KnowsCalls(loop, c, s, m)
    BY <2>1, <2>2, <2>3, OneKnows
  <2>5. \A j \in CallIds : Knows(backend, c.builds[j], c.finished[j], said, j, m)
    BY <2>4 DEF KnowsCalls, loop, s
  <2>6. Accumulated(backend, c, said, m)
    BY <1>8, <2>5, EventAccumulates
  <2> QED BY <2>6 DEF c
<1>9. CASE f.kind = "open"
  <2>1. c \in Accs(P) /\ Others(c, a, i) /\ c.finished[i] = fin
        /\ c.builds[i].open = TRUE /\ c.builds[i].pieces = <<>>
    <3>1. CASE Anthropic
      <4>1. c = [a EXCEPT !.builds[i] = [open |-> TRUE, pieces |-> <<>>]]
        BY <1>3, <1>6, <1>9, <3>1 DEF AnthropicAcc, a
      <4>2. i \in CallIds /\ a \in Accs(P)
        BY <1>1
      <4>3. /\ c \in Accs(P) /\ Others(c, a, i) /\ c.finished[i] = a.finished[i]
            /\ c.builds[i].open = TRUE /\ c.builds[i].pieces = <<>>
        <5>1. <<>> \in Seq(Piece)
          OBVIOUS
        <5> QED BY <4>1, <4>2, <5>1 DEF Accs, Builds, Others
      <4> QED BY <4>3 DEF fin
    <3>2. CASE ~Anthropic
      <4>1. c = [a EXCEPT !.builds[i].open = TRUE]
        BY <1>3, <1>6, <1>9, <3>2 DEF OpenAiAcc, a
      <4>2. build.pieces = <<>>
        BY <1>5, <1>7, <1>9
      <4>3. i \in CallIds /\ a \in Accs(P)
        BY <1>1
      <4>4. /\ c \in Accs(P) /\ Others(c, a, i) /\ c.finished[i] = a.finished[i]
            /\ c.builds[i].open = TRUE /\ c.builds[i].pieces = a.builds[i].pieces
        BY <4>1, <4>3 DEF Accs, Builds, Others
      <4> QED BY <4>2, <4>4 DEF fin, build
    <3> QED BY <3>1, <3>2
  <2>2. Knows(loop, c.builds[i], c.finished[i], s, i, m)
    BY <1>5, <1>7, <1>9, <2>1
  <2> QED BY <1>8, <2>1, <2>2
<1>10. CASE f.kind = "piece"
  <2> DEFINE p == [id |-> i, piece |-> f.piece, cut |-> b.cut]
             q == Append(build.pieces, p)
  <2>1. build.open
    BY <1>5, <1>7, <1>10
  <2>2. c = WithPiece(a, b)
    <3>1. CASE Anthropic
      BY <1>3, <1>4, <1>6, <1>10, <2>1, <3>1 DEF AnthropicAcc, a
    <3>2. CASE ~Anthropic
      BY <1>3, <1>6, <1>10, <3>2 DEF OpenAiAcc, a
    <3> QED BY <3>1, <3>2
  <2>3. WithPiece(a, b) = [a EXCEPT !.builds[i].pieces = q]
    BY <1>3 DEF WithPiece, BuildOf, build
  <2>4. q \in Seq(Piece)
    <3>1. p \in Piece
      <4>1. f.piece \in 1..2
        BY <1>1, <1>3, <1>10 DEF InTurn, IsPart
      <4> QED BY <1>1, <4>1 DEF Piece
    <3> HIDE DEF p
    <3> QED BY <1>4, <3>1, AppendProperties
  <2> HIDE DEF q
  <2>5. c \in Accs(P) /\ Others(c, a, i) /\ c.finished[i] = fin
        /\ c.builds[i].open = build.open /\ c.builds[i].pieces = q
    <3>1. i \in CallIds /\ a \in Accs(P) /\ c = [a EXCEPT !.builds[i].pieces = q]
      BY <1>1, <2>2, <2>3
    <3>2. /\ c \in Accs(P) /\ Others(c, a, i) /\ c.finished[i] = a.finished[i]
          /\ c.builds[i].open = a.builds[i].open /\ c.builds[i].pieces = q
      BY <2>4, <3>1 DEF Accs, Builds, Others
    <3> QED BY <3>2 DEF fin, build
  <2>6. Knows(loop, c.builds[i], c.finished[i], s, i, m)
    BY <1>1, <1>5, <1>7, <1>10, <2>5 DEF q
  <2> QED BY <1>8, <2>5, <2>6
<1>11. CASE f.kind = "close"
  <2> DEFINE v == Parsed(i, build.pieces)
  <2>1. Anthropic
    BY <1>1, <1>2, <1>11 DEF WellSaid
  <2>2. build.open
    BY <1>2, <1>5, <1>7, <1>11, <2>1
  <2>3. v \in Outcomes
    BY ParsedOutcome
  <2>4. c = [a EXCEPT !.builds[i].open = FALSE, !.finished[i] = v]
    BY <1>3, <1>4, <1>6, <1>11, <2>1, <2>2 DEF AnthropicAcc, a
  <2> HIDE DEF v
  <2>5. c \in Accs(P) /\ Others(c, a, i) /\ c.finished[i] = v
        /\ c.builds[i].open = FALSE /\ c.builds[i].pieces = build.pieces
    <3>1. i \in CallIds /\ a \in Accs(P)
      BY <1>1
    <3>2. /\ c \in Accs(P) /\ Others(c, a, i) /\ c.finished[i] = v
          /\ c.builds[i].open = FALSE /\ c.builds[i].pieces = a.builds[i].pieces
      BY <2>3, <2>4, <3>1 DEF Accs, Builds, Others
    <3> QED BY <3>2 DEF build
  <2>6. Knows(loop, c.builds[i], c.finished[i], s, i, m)
    BY <1>2, <1>5, <1>7, <1>11, <2>1, <2>5 DEF v
  <2> QED BY <1>8, <2>5, <2>6
<1> QED BY <1>3, <1>9, <1>10, <1>11

LEMMA LineAccumulates ==
  ASSUME NEW n \in Nat, NEW m, NEW b, Taking(b, n, m), Lines
  PROVE  Accumulated(backend, NextAcc(b), said, m)
<1>1. LineLoop(backend) /\ ~Anthropic /\ backend # "openai"
  BY LoopKinds DEF Taking, Lines
<1>2. acc \in Accs({acc.pending}) /\ m = n + 1 /\ b.at = m
  BY DEF Taking, Accumulated
<1>3. CASE backend = "buffered"
  <2>1. NextAcc(b) = acc
    BY <1>1, <1>3 DEF NextAcc
  <2> QED BY <1>1, <1>2, <1>3, <2>1 DEF Accumulated
<1>4. CASE backend = "ollama"
  <2>1. NextAcc(b) = IF said[m].calls = <<>> THEN acc
                     ELSE [acc EXCEPT !.pending = LineCalls(said[m])]
    BY <1>1, <1>2, <1>4 DEF NextAcc, OllamaAcc
  <2>2. \/ acc.pending = <<>> /\ \A k \in 1..n : said[k].calls = <<>>
        \/ \E k \in 1..n : LastCalls(said, k, n) /\ acc.pending = LineCalls(said[k])
    BY <1>4 DEF Taking, Accumulated
  <2>3. m \in Nat /\ m \in 1..m /\ \A k \in 1..m : k \in 1..n \/ k = m
    BY <1>2
  <2>4. CASE said[m].calls = <<>>
    <3>1. ASSUME NEW k \in 1..n, LastCalls(said, k, n) PROVE LastCalls(said, k, m)
      <4>1. \A j \in (k + 1)..m : j \in (k + 1)..n \/ j = m
        BY <1>2
      <4> QED BY <2>4, <3>1, <4>1 DEF LastCalls
    <3>2. \/ acc.pending = <<>> /\ \A k \in 1..m : said[k].calls = <<>>
          \/ \E k \in 1..m : LastCalls(said, k, m) /\ acc.pending = LineCalls(said[k])
      <4>1. CASE acc.pending = <<>> /\ \A k \in 1..n : said[k].calls = <<>>
        BY <2>3, <2>4, <4>1
      <4>2. CASE \E k \in 1..n : LastCalls(said, k, n) /\ acc.pending = LineCalls(said[k])
        <5>1. PICK k \in 1..n : LastCalls(said, k, n) /\ acc.pending = LineCalls(said[k])
          BY <4>2
        <5>2. k \in 1..m /\ LastCalls(said, k, m)
          BY <1>2, <3>1, <5>1
        <5> QED BY <5>1, <5>2
      <4> QED BY <2>2, <4>1, <4>2
    <3> QED BY <1>1, <1>2, <2>1, <2>4, <3>2 DEF Accumulated
  <2>5. CASE said[m].calls # <<>>
    <3> DEFINE p == LineCalls(said[m])
               a == NextAcc(b)
    <3>1. a = [acc EXCEPT !.pending = p]
      BY <2>1, <2>5
    <3>2. LastCalls(said, m, m)
      <4>1. \A j \in (m + 1)..m : FALSE
        BY <2>3
      <4> QED BY <2>5, <4>1 DEF LastCalls
    <3> HIDE DEF p, a
    <3>3. a.pending = p /\ a \in Accs({p})
      BY <1>2, <3>1 DEF Accs
    <3>4. Accumulated(backend, a, said, m)
      BY <1>1, <1>4, <2>3, <3>2, <3>3 DEF Accumulated, p
    <3> QED BY <3>4 DEF a
  <2> QED BY <2>4, <2>5
<1> QED BY <1>3, <1>4 DEF Lines

LEMMA Accumulates ==
  ASSUME NEW n \in Nat, NEW m, NEW b, Taking(b, n, m)
  PROVE  Accumulated(backend, NextAcc(b), said, m)
<1>1. CASE Lines
  BY <1>1, LineAccumulates
<1>2. CASE ~Lines /\ said[m].kind \in {"open", "piece", "close"}
  BY <1>2, PartAccumulates
<1>3. CASE ~Lines /\ said[m].kind \notin {"open", "piece", "close"}
  <2>1. b.at = m /\ (~Anthropic => backend = "openai") /\ acc \in Accs({acc.pending})
    BY <1>3 DEF Taking, Accumulated, Anthropic, Lines, IsBackend, Streaming
  <2>2. NextAcc(b) = (IF Anthropic THEN AnthropicAcc(b) ELSE OpenAiAcc(b))
    BY <2>1 DEF NextAcc, Anthropic
  <2>3. \/ NextAcc(b) = acc
        \/ \E u \in {"start", "final"} : NextAcc(b) = [acc EXCEPT !.usage = u]
    <3>1. CASE Anthropic
      BY <1>3, <2>1, <2>2, <3>1 DEF AnthropicAcc
    <3>2. CASE ~Anthropic
      BY <1>3, <2>1, <2>2, <3>2 DEF OpenAiAcc
    <3> QED BY <3>1, <3>2
  <2>4. /\ NextAcc(b) \in Accs({acc.pending})
        /\ NextAcc(b).builds = acc.builds /\ NextAcc(b).finished = acc.finished
    <3>1. CASE NextAcc(b) = acc
      BY <2>1, <3>1
    <3>2. CASE \E u \in {"start", "final"} : NextAcc(b) = [acc EXCEPT !.usage = u]
      BY <2>1, <3>2, UsageChanges
    <3> QED BY <2>3, <3>1, <3>2
  <2> QED BY <1>3, <2>4, OtherAccumulates
<1> QED BY <1>1, <1>2, <1>3

(***************************************************************************)
(* The texts told, and the frames that wait.                               *)
(***************************************************************************)
TextsAt(s, n) == {k \in 1..n : s[k].text}

LEMMA ToldFacts ==
  ASSUME NEW s, NEW n \in Nat
  PROVE  /\ TextsAt(s, n) \in SUBSET (1..n) /\ Told(s, n) = InOrder(TextsAt(s, n))
         /\ IsSeq(Told(s, n)) /\ Len(Told(s, n)) = Cardinality(TextsAt(s, n))
         /\ Cardinality(TextsAt(s, n)) \in Nat /\ IsFiniteSet(TextsAt(s, n))
<1>1. TextsAt(s, n) \in SUBSET (1..n) /\ Told(s, n) = InOrder(TextsAt(s, n))
  BY DEF TextsAt, Told
<1> QED BY <1>1, InOrderFacts, FinitePart

LEMMA ToldBegins ==
  ASSUME NEW s, NEW n \in Nat, NEW m \in Nat, m <= n
  PROVE  Told(s, m) = SubSeq(Told(s, n), 1, Len(Told(s, m)))
<1> DEFINE S == TextsAt(s, n)
<1>1. {k \in S : k <= m} = TextsAt(s, m)
  BY DEF TextsAt
<1>2. S \in SUBSET (1..n) /\ Told(s, n) = InOrder(S) /\ Told(s, m) = InOrder(TextsAt(s, m))
  BY ToldFacts
<1> HIDE DEF S
<1>3. InOrder({k \in S : k <= m}) = SubSeq(InOrder(S), 1, Len(InOrder({k \in S : k <= m})))
  BY <1>2, OrderBegins
<1> QED BY <1>1, <1>2, <1>3

LEMMA ToldNext ==
  ASSUME NEW s, NEW n \in Nat, NEW m, m = n + 1
  PROVE  /\ s[m].text => Told(s, m) = Told(s, n) \o <<m>>
         /\ ~s[m].text => Told(s, m) = Told(s, n)
<1> DEFINE S == TextsAt(s, n)
           T == TextsAt(s, m)
<1>1. \A k : k \in 1..m <=> k \in 1..n \/ k = m
  OBVIOUS
<1>2. CASE ~s[m].text
  <2>1. T = S
    BY <1>1, <1>2 DEF TextsAt
  <2>2. Told(s, m) = InOrder(T) /\ Told(s, n) = InOrder(S) /\ m \in Nat
    BY ToldFacts
  <2> QED BY <1>2, <2>1, <2>2
<1>3. CASE s[m].text
  <2>1. T = S \cup {m} /\ m \notin S /\ m \in T
    BY <1>1, <1>3 DEF TextsAt
  <2>2. m \in Nat /\ \A k \in S : k <= m
    BY DEF TextsAt
  <2>3. /\ Told(s, m) = InOrder(T) /\ Told(s, n) = InOrder(S)
        /\ IsSeq(Told(s, n)) /\ IsSeq(Told(s, m))
        /\ Len(Told(s, n)) = Cardinality(S) /\ Len(Told(s, m)) = Cardinality(T)
        /\ IsFiniteSet(S) /\ Cardinality(S) \in Nat /\ T \in SUBSET (1..m)
    BY <2>2, ToldFacts
  <2>4. {q \in T : q <= m} = T
    BY <2>1, <2>2
  <2>5. Told(s, n) = SubSeq(Told(s, m), 1, Len(Told(s, n)))
    BY <2>2, ToldBegins
  <2> HIDE DEF S, T
  <2>6. Cardinality(T) = Cardinality(S) + 1
    BY <2>1, <2>3, FS_AddElement
  <2>7. InOrder(T)[Cardinality(T)] = m
    <3> DEFINE r == Cardinality(T)
    <3>1. Cardinality({q \in T : q <= m}) = r
      BY <2>4
    <3>2. m \in Nat /\ T \in SUBSET (1..m) /\ m \in T
      BY <2>1, <2>2, <2>3
    <3> HIDE DEF r
    <3>3. InOrder(T)[r] = m
      BY <3>1, <3>2, Placed, ZenonT(60)
    <3> QED BY <3>3 DEF r
  <2> DEFINE a == Told(s, n)
             c == Told(s, m)
             d == a \o <<m>>
  <2>8. IsSeq(d) /\ Len(d) = Len(a) + 1 /\ (\A k \in 1..Len(a) : d[k] = a[k]) /\ d[Len(a) + 1] = m
    <3>1. IsSeq(a) /\ IsSeq(<<m>>) /\ Len(<<m>>) = 1 /\ <<m>>[1] = m
      BY <2>3, SeqOne
    <3> HIDE DEF a
    <3> QED BY <3>1, SeqConcat
  <2>9. IsSeq(c) /\ Len(c) = Len(a) + 1 /\ Len(a) \in Nat /\ c[Len(a) + 1] = m
    BY <2>3, <2>6, <2>7
  <2>10. a = SubSeq(c, 1, Len(a))
    BY <2>5
  <2> HIDE DEF a, c, d
  <2>11. \A k \in 1..Len(a) : SubSeq(c, 1, Len(a))[k] = c[k]
    <3> SUFFICES ASSUME NEW k \in 1..Len(a) PROVE SubSeq(c, 1, Len(a))[k] = c[k]
      OBVIOUS
    <3>1. c \in Seq({c[i] : i \in DOMAIN c})
      BY <2>9 DEF IsSeq
    <3> QED BY <2>9, <3>1
  <2>12. \A k \in 1..Len(c) : c[k] = d[k]
    BY <2>8, <2>9, <2>10, <2>11
  <2>13. c = d
    BY <2>8, <2>9, <2>12, MadeEqual
  <2> QED BY <1>3, <2>13 DEF a, c, d
<1> QED BY <1>2, <1>3

LEMMA ToldSame ==
  ASSUME NEW s, IsSeq(s), NEW f, NEW n \in Nat, n <= Len(s)
  PROVE  Told(Append(s, f), n) = Told(s, n)
<1> DEFINE t == Append(s, f)
<1>1. \A k \in 1..n : t[k] = s[k]
  <2>1. (\A k \in 1..Len(s) : t[k] = s[k]) /\ Len(s) \in Nat
    BY AppendSame
  <2> HIDE DEF t
  <2> QED BY <2>1
<1> HIDE DEF t
<1>2. {k \in 1..n : t[k].text} = {k \in 1..n : s[k].text}
  BY <1>1
<1> QED BY <1>2 DEF Told, t

LEMMA QueueGrows ==
  ASSUME NEW loop, NEW q, NEW n \in Nat, Queue(loop, q, n), NEW x, x.at = n + Len(q) + 1,
         x.cut \in BOOLEAN, x.cut => LossyLoop(loop)
  PROVE  Queue(loop, Append(q, x), n) /\ Len(Append(q, x)) = Len(q) + 1 /\ Len(q) \in Nat
<1> DEFINE t == Append(q, x)
<1>1. /\ IsSeq(t) /\ Len(t) = Len(q) + 1 /\ Len(q) \in Nat
      /\ \A k \in 1..Len(q) : t[k] = q[k]
      /\ t[Len(q) + 1] = x
  BY AppendSame DEF Queue
<1> HIDE DEF t
<1>2. ASSUME NEW k \in 1..Len(t)
      PROVE  t[k].at = n + k /\ t[k].cut \in BOOLEAN /\ (t[k].cut => LossyLoop(loop))
  <2>1. CASE k \in 1..Len(q)
    <3>1. t[k] = q[k] /\ q[k].at = n + k /\ q[k].cut \in BOOLEAN /\ (q[k].cut => LossyLoop(loop))
      BY <1>1, <2>1 DEF Queue
    <3> QED BY <3>1
  <2>2. CASE k = Len(q) + 1
    <3>1. t[k] = x /\ n + k = n + Len(q) + 1
      BY <1>1, <2>2
    <3> QED BY <3>1
  <2> QED BY <1>1, <2>1, <2>2
<1>3. Queue(loop, t, n)
  BY <1>1, <1>2 DEF Queue
<1> QED BY <1>1, <1>3 DEF t

LEMMA QueueMoves ==
  ASSUME NEW loop, NEW q, NEW n \in Nat, Queue(loop, q, n), q # <<>>, NEW m, m = n + 1
  PROVE  /\ Head(q).at = m /\ Head(q).cut \in BOOLEAN /\ (Head(q).cut => LossyLoop(loop))
         /\ Queue(loop, Tail(q), m) /\ Len(Tail(q)) = Len(q) - 1 /\ Len(q) \in Nat \ {0}
<1> DEFINE t == Tail(q)
           S == {q[i] : i \in DOMAIN q}
<1>1. q \in Seq(S) /\ Len(q) \in Nat \ {0}
  BY SeqFacts DEF Queue, IsSeq
<1> HIDE DEF S
<1>2. /\ t \in Seq(S) /\ Len(t) = Len(q) - 1 /\ Head(q) = q[1]
      /\ \A k \in 1..Len(t) : t[k] = q[k + 1]
  BY <1>1
<1> HIDE DEF t
<1>3. IsSeq(t)
  <2>1. Len(t) \in Nat /\ t \in [1..Len(t) -> S]
    BY <1>1, <1>2
  <2> QED BY <2>1, SeqMade
<1>4. /\ q[1].at = n + 1 /\ q[1].cut \in BOOLEAN /\ (q[1].cut => LossyLoop(loop))
  BY <1>1 DEF Queue
<1>5. ASSUME NEW k \in 1..Len(t)
      PROVE  t[k].at = m + k /\ t[k].cut \in BOOLEAN /\ (t[k].cut => LossyLoop(loop))
  <2>1. k + 1 \in 1..Len(q) /\ t[k] = q[k + 1]
    BY <1>1, <1>2
  <2>2. q[k + 1].at = n + (k + 1) /\ q[k + 1].cut \in BOOLEAN /\ (q[k + 1].cut => LossyLoop(loop))
    BY <2>1 DEF Queue
  <2>3. n + (k + 1) = m + k
    OBVIOUS
  <2> QED BY <2>1, <2>2, <2>3
<1>6. Queue(loop, t, m)
  BY <1>3, <1>5 DEF Queue
<1> QED BY <1>1, <1>2, <1>4, <1>6 DEF t

(***************************************************************************)
(* The server and the network leave the task where it is.                  *)
(***************************************************************************)
Going == RecordInv /\ pc # "over" /\ Served(backend, said) /\ Tasked

LEMMA GoingFacts ==
  ASSUME Going
  PROVE  /\ IsBackend(backend) /\ Collecting /\ Behind \in Nat /\ Behind <= Len(said)
         /\ Len(said) \in Nat /\ Len(buf) \in Nat /\ IsSeq(said) /\ IsSeq(buf)
         /\ Queue(backend, buf, Behind) /\ (LossyChunks <=> LossyLoop(backend))
         /\ Behind = Len(said) - Len(buf) - IF arriving = "none" THEN 0 ELSE 1
         /\ DOMAIN said = 1..Len(said)
<1>1. IsBackend(backend) /\ Collecting
  BY DEF Going, RecordInv
<1>2. IsSeq(said) /\ IsSeq(buf) /\ Behind \in Nat /\ Queue(backend, buf, Behind)
  BY DEF Going, Served, Tasked, Queue
<1>3. Len(said) \in Nat /\ Len(buf) \in Nat /\ DOMAIN said = 1..Len(said)
  BY <1>2, SeqFacts
<1>4. Behind = Len(said) - Len(buf) - IF arriving = "none" THEN 0 ELSE 1
  BY DEF Behind
<1>5. Behind <= Len(said)
  <2> DEFINE n == Behind
             late == IF arriving = "none" THEN 0 ELSE 1
  <2>1. n = Len(said) - Len(buf) - late /\ late \in {0, 1}
    BY <1>4
  <2> HIDE DEF n, late
  <2>2. n <= Len(said)
    BY <1>3, <2>1
  <2> QED BY <2>2 DEF n
<1>6. LossyChunks <=> LossyLoop(backend)
  BY <1>1, LoopKinds
<1> QED BY <1>1, <1>2, <1>3, <1>4, <1>5, <1>6, Zenon

LEMMA FrameComes ==
  ASSUME Going, FrameArrives PROVE Served(backend, said)' /\ Tasked'
<1>1. PICK f \in Sayable :
        /\ said' = Append(said, f)
        /\ \/ /\ arriving' = "none"
              /\ buf' = Append(buf, [at |-> Len(said) + 1, cut |-> FALSE])
           \/ arriving' \in {"tail", "delimiter"} /\ buf' = buf
  BY DEF FrameArrives
<1>2. /\ arriving = "none" /\ cut' = FALSE /\ backend' = backend /\ acc' = acc /\ out' = out
      /\ reader' = reader
  BY DEF FrameArrives
<1>3. /\ IsBackend(backend) /\ Behind \in Nat /\ Behind <= Len(said)
      /\ Len(said) \in Nat /\ Len(buf) \in Nat /\ IsSeq(said)
      /\ Queue(backend, buf, Behind) /\ Behind = Len(said) - Len(buf)
  BY <1>2, GoingFacts
<1>4. Served(backend', said')
  <2>1. Served(backend, Append(said, f))
    BY <1>3, ServerKeeps DEF Going
  <2> QED BY <1>1, <1>2, <2>1
<1>5. Len(said') = Len(said) + 1 /\ \A k \in 1..Len(said) : said'[k] = said[k]
  BY <1>1, <1>3, AppendSame
<1>6. Queue(backend', buf', Behind) /\ Behind' = Behind
  <2>1. CASE arriving' = "none" /\ buf' = Append(buf, [at |-> Len(said) + 1, cut |-> FALSE])
    <3> DEFINE x == [at |-> Len(said) + 1, cut |-> FALSE]
    <3>1. x.at = Behind + Len(buf) + 1
      BY <1>3
    <3>2. x.cut \in BOOLEAN /\ (x.cut => LossyLoop(backend)) /\ buf' = Append(buf, x)
      BY <2>1
    <3> HIDE DEF x
    <3>3. Queue(backend, buf', Behind) /\ Len(buf') = Len(buf) + 1
      BY <1>3, <3>1, <3>2, QueueGrows
    <3>4. Behind' = Len(said') - Len(buf') - 0
      BY <2>1 DEF Behind
    <3> QED BY <1>2, <1>3, <1>5, <3>3, <3>4
  <2>2. CASE arriving' \in {"tail", "delimiter"} /\ buf' = buf
    <3>1. Behind' = Len(said') - Len(buf') - 1
      BY <2>2 DEF Behind
    <3> QED BY <1>2, <1>3, <1>5, <2>2, <3>1
  <2> QED BY <1>1, <2>1, <2>2
<1>7. Accumulated(backend', acc', said', Behind)
  <2>1. Accumulated(backend, acc, said, Behind)
    BY DEF Going, Tasked
  <2>2. Accumulated(backend, acc, Append(said, f), Behind)
    BY <1>3, <2>1, AccumulatedSame
  <2> QED BY <1>1, <1>2, <2>2
<1>8. \A k \in 1..Behind : said'[k].stop = "no"
  <2>1. \A k \in 1..Behind : k \in 1..Len(said) /\ said[k].stop = "no"
    BY <1>3 DEF Going, Tasked
  <2> QED BY <1>5, <2>1
<1>9. \A k \in 0..Behind : Told(said', k) = Told(said, k)
  <2> SUFFICES ASSUME NEW k \in 0..Behind PROVE Told(said', k) = Told(said, k)
    OBVIOUS
  <2>1. k \in Nat /\ k <= Len(said)
    BY <1>3
  <2> QED BY <1>1, <1>3, <2>1, ToldSame
<1>10. /\ \E k \in 0..Behind : Positions(out') = Told(said', k)
       /\ reader' => Positions(out') = Told(said', Behind)
  <2>1. Positions(out') = Positions(out) /\ Behind \in 0..Behind
    BY <1>2, <1>3
  <2>2. /\ \E k \in 0..Behind : Positions(out) = Told(said, k)
        /\ reader => Positions(out) = Told(said, Behind)
    BY DEF Going, Tasked
  <2> QED BY <1>2, <1>9, <2>1, <2>2
<1>11. arriving' \in {"none", "tail", "delimiter"} /\ cut' \in BOOLEAN /\ ~cut'
  BY <1>1, <1>2
<1> QED BY <1>3, <1>4, <1>6, <1>7, <1>8, <1>10, <1>11 DEF Tasked

\* More of the frame, or nothing at all.
LEMMA TaskStays ==
  ASSUME Going, UNCHANGED <<backend, said, acc, out>>, reader' => reader,
         arriving' \in {"none", "tail", "delimiter"}, cut' \in BOOLEAN,
         cut' => LossyLoop(backend), Queue(backend, buf', Behind), Behind' = Behind
  PROVE  Served(backend, said)' /\ Tasked'
<1>1. backend' = backend /\ said' = said /\ acc' = acc /\ out' = out
  OBVIOUS
<1>2. Served(backend', said')
  BY <1>1 DEF Going
<1>3. /\ Behind \in Nat /\ \A k \in 1..Behind : said'[k].stop = "no"
      /\ Accumulated(backend', acc', said', Behind)
  BY <1>1 DEF Going, Tasked
<1>4. /\ \E k \in 0..Behind : Positions(out') = Told(said', k)
      /\ reader' => Positions(out') = Told(said', Behind)
  BY <1>1 DEF Going, Tasked
<1> QED BY <1>1, <1>2, <1>3, <1>4 DEF Tasked

LEMMA RestComes == ASSUME Going, RestArrives PROVE Served(backend, said)' /\ Tasked'
<1> DEFINE x == [at |-> Len(said), cut |-> cut']
<1>1. /\ arriving # "none" /\ arriving' = "none" /\ buf' = Append(buf, x)
      /\ cut' \in IF arriving = "tail" /\ LossyChunks THEN BOOLEAN ELSE {cut}
      /\ UNCHANGED <<backend, said, acc, out, reader>>
  BY DEF RestArrives
<1>2. /\ Behind \in Nat /\ Len(said) \in Nat /\ Len(buf) \in Nat /\ Queue(backend, buf, Behind)
      /\ (LossyChunks <=> LossyLoop(backend)) /\ Behind = Len(said) - Len(buf) - 1
  BY <1>1, GoingFacts
<1>3. cut' \in BOOLEAN /\ (cut' => LossyLoop(backend))
  <2>1. cut \in BOOLEAN /\ (cut => LossyLoop(backend))
    BY DEF Going, Tasked
  <2>2. CASE arriving = "tail" /\ LossyChunks
    BY <1>1, <1>2, <2>2
  <2>3. CASE ~(arriving = "tail" /\ LossyChunks)
    <3>1. cut' = cut
      BY <1>1, <2>3
    <3> QED BY <2>1, <3>1, Zenon
  <2> QED BY <2>2, <2>3
<1>4. x.at = Behind + Len(buf) + 1
  BY <1>2
<1>5. x.cut \in BOOLEAN /\ (x.cut => LossyLoop(backend))
  BY <1>3
<1> HIDE DEF x
<1>6. Queue(backend, buf', Behind) /\ Len(buf') = Len(buf) + 1
  BY <1>1, <1>2, <1>4, <1>5, QueueGrows
<1>7. Behind' = Len(said') - Len(buf') - 0
  BY <1>1 DEF Behind
<1>8. Behind' = Behind
  BY <1>1, <1>2, <1>6, <1>7
<1> QED BY <1>1, <1>3, <1>6, <1>8, TaskStays

LEMMA NothingComes ==
  ASSUME Going, UNCHANGED <<backend, server, buf, acc, out>>, reader' => reader
  PROVE  Served(backend, said)' /\ Tasked'
<1>1. /\ UNCHANGED <<backend, said, acc, out>>
      /\ arriving' = arriving /\ cut' = cut /\ buf' = buf
  BY DEF server
<1>2. Behind' = Behind
  BY <1>1 DEF Behind
<1>3. arriving' \in {"none", "tail", "delimiter"} /\ Queue(backend, buf', Behind)
  BY <1>1 DEF Going, Tasked
<1>4. cut' \in BOOLEAN /\ (cut' => LossyLoop(backend))
  <2>1. cut \in BOOLEAN /\ (cut => LossyLoop(backend))
    BY DEF Going, Tasked
  <2>2. cut' = cut
    BY <1>1
  <2> QED BY <2>1, <2>2, Zenon
<1> QED BY <1>1, <1>2, <1>3, <1>4, TaskStays

(***************************************************************************)
(* The task takes a frame.                                                 *)
(***************************************************************************)
LEMMA OneLess ==
  ASSUME NEW n \in Nat, NEW x \in Nat, NEW late \in Nat
  PROVE  n - (x - 1) - late = (n - x - late) + 1
OBVIOUS

LEMMA OneLeft ==
  ASSUME NEW x \in Nat \ {0}, NEW late \in {0, 1}, x + late = 1 PROVE x = 1 /\ late = 0
OBVIOUS

LEMMA FrameTaken ==
  ASSUME Going, CanTake, Taken, NEW m, m = Behind + 1, NEW b, b = NextFrame
  PROVE  /\ Taking(b, Behind, m) /\ Behind' = m /\ said' = said /\ cut' = cut
         /\ arriving' \in {"none", "tail", "delimiter"} /\ Queue(backend, buf', m)
         /\ said[m].stop # "no" => arriving' = "none" /\ buf' = <<>> /\ m = Len(said)
<1> DEFINE n == Behind
           N == Len(said)
           late == IF arriving = "none" THEN 0 ELSE 1
<1>1. /\ n \in Nat /\ N \in Nat /\ Len(buf) \in Nat /\ IsSeq(buf) /\ Queue(backend, buf, n)
      /\ n = N - Len(buf) - late /\ late \in {0, 1} /\ IsBackend(backend)
  BY GoingFacts
<1>2. /\ Served(backend, said) /\ Accumulated(backend, acc, said, n)
      /\ cut \in BOOLEAN /\ (cut => LossyLoop(backend))
      /\ arriving \in {"none", "tail", "delimiter"}
  BY DEF Going, Tasked
<1>3. \A k \in 1..N : said[k].stop # "no" => k = N
  BY <1>2 DEF Served
<1>4. (arriving = "none" => late = 0) /\ (arriving # "none" => late = 1) /\ m = n + 1
  OBVIOUS
<1>5. buf = <<>> <=> Len(buf) = 0
  BY <1>1, SeqFacts
<1> HIDE DEF n, N, late
<1>6. CASE Complete
  <2>1. /\ buf' = Tail(buf) /\ said' = said /\ arriving' = arriving /\ cut' = cut
        /\ b = Head(buf) /\ buf # <<>>
    BY <1>6 DEF Taken, Complete, NextFrame, server
  <2>2. /\ b.at = m /\ b.cut \in BOOLEAN /\ (b.cut => LossyLoop(backend))
        /\ Queue(backend, buf', m) /\ Len(buf') = Len(buf) - 1 /\ Len(buf) \in Nat \ {0}
    BY <1>1, <1>4, <2>1, QueueMoves
  <2>3. m <= N
    BY <1>1, <1>4, <2>2
  <2>4. Taking(b, n, m)
    BY <1>1, <1>2, <1>4, <2>2, <2>3 DEF Taking, N
  <2>5. Behind' = m
    <3>1. Behind' = Len(said') - Len(buf') - late
      BY <2>1 DEF Behind, late
    <3>2. Len(buf') = Len(buf) - 1 /\ Len(said') = N
      BY <2>1, <2>2 DEF N
    <3>3. late \in Nat /\ Len(buf) \in Nat /\ N \in Nat
      BY <1>1
    <3>4. N - (Len(buf) - 1) - late = (N - Len(buf) - late) + 1
      BY <3>3, OneLess
    <3>5. m = (N - Len(buf) - late) + 1
      BY <1>1, <1>4
    <3> QED BY <3>1, <3>2, <3>4, <3>5
  <2>6. ASSUME said[m].stop # "no" PROVE arriving' = "none" /\ buf' = <<>> /\ m = N
    <3>1. m \in 1..N
      BY <1>1, <1>4, <2>3
    <3>2. m = N
      BY <1>3, <2>6, <3>1
    <3>3. late = 0 /\ Len(buf') = 0
      <4>1. n + 1 = N /\ n = N - Len(buf) - late /\ late \in {0, 1}
        BY <1>1, <1>4, <3>2
      <4>2. Len(buf) + late = 1
        BY <1>1, <4>1
      <4>3. Len(buf) = 1 /\ late = 0
        BY <2>2, <4>1, <4>2, OneLeft
      <4> QED BY <2>2, <4>3
    <3>4. IsSeq(buf')
      BY <2>2 DEF Queue
    <3>5. buf' = <<>>
      BY <3>3, <3>4, SeqFacts
    <3>6. arriving' = "none"
      BY <1>2, <1>4, <2>1, <3>3
    <3> QED BY <3>2, <3>5, <3>6
  <2> QED BY <1>2, <2>1, <2>2, <2>4, <2>5, <2>6 DEF n, N
<1>7. CASE ~Complete
  <2>1. /\ said' = said /\ buf' = buf /\ arriving' = "none" /\ cut' = cut
        /\ b = [at |-> Len(said), cut |-> cut] /\ buf = <<>> /\ arriving = "delimiter"
    BY <1>7 DEF Taken, CanTake, Complete, NextFrame, WholeLeftover
  <2>2. Len(buf) = 0 /\ late = 1 /\ m = N
    BY <1>1, <1>4, <1>5, <2>1
  <2>3. b.at = m /\ b.cut = cut
    BY <2>1, <2>2 DEF N
  <2>4. b.cut \in BOOLEAN /\ (b.cut => LossyLoop(backend))
    BY <1>2, <2>3, Zenon
  <2>5. Taking(b, n, m)
    BY <1>1, <1>2, <1>4, <2>2, <2>3, <2>4 DEF Taking, N
  <2>6. Behind' = m
    <3>1. Behind' = Len(said') - Len(buf') - 0
      BY <2>1 DEF Behind
    <3> QED BY <1>1, <2>1, <2>2, <3>1 DEF N
  <2>7. Queue(backend, buf', m)
    BY <1>1, <2>1, <2>2 DEF Queue
  <2> QED BY <2>1, <2>2, <2>5, <2>6, <2>7 DEF n, N
<1> QED BY <1>6, <1>7

\* What has been told with the text of the next frame.
LEMMA TellsText ==
  ASSUME Going, NEW m, m = Behind + 1, NEW b, b.at = m, reader
  PROVE  Positions(out) \o Positions(TextPart(b)) = Told(said, m)
<1>1. Positions(out) = Told(said, Behind) /\ Behind \in Nat /\ IsSeq(Positions(out))
  BY PositionsFacts DEF Going, Tasked, RecordInv, Collecting, TextsOnly
<1>2. CASE said[m].text
  <2>1. Positions(TextPart(b)) = <<m>>
    BY <1>2, TextPartFacts
  <2>2. Told(said, m) = Told(said, Behind) \o <<m>>
    BY <1>1, <1>2, ToldNext
  <2> QED BY <1>1, <2>1, <2>2
<1>3. CASE ~said[m].text
  <2>1. Positions(TextPart(b)) = <<>>
    BY <1>3, TextPartFacts
  <2>2. Told(said, m) = Told(said, Behind)
    BY <1>1, <1>3, ToldNext
  <2>3. Positions(out) \o <<>> = Positions(out)
    BY <1>1, NothingAdded
  <2> QED BY <1>1, <2>1, <2>2, <2>3
<1> QED BY <1>2, <1>3

LEMMA FrameKept ==
  ASSUME Going, TakeFrame, pc' # "over" PROVE Served(backend, said)' /\ Tasked'
<1> DEFINE n == Behind
           m == n + 1
           b == NextFrame
           a == NextAcc(b)
           items == Items(b, a)
<1>1. /\ CanTake /\ Taken /\ acc' = a /\ backend' = backend /\ reader' = reader
      /\ ~Over(items) /\ out' = (IF reader THEN out \o items ELSE out)
  BY DEF TakeFrame, Receives
<1>2. /\ IsBackend(backend) /\ n \in Nat /\ Collecting
  BY GoingFacts
<1>3. /\ Taking(b, n, m) /\ Behind' = m /\ said' = said /\ cut' = cut
      /\ arriving' \in {"none", "tail", "delimiter"} /\ Queue(backend, buf', m)
  <2>1. m = Behind + 1
    OBVIOUS
  <2> HIDE DEF m, b
  <2> QED BY <1>1, <2>1, FrameTaken DEF b
<1>4. b.at = m
  BY <1>3 DEF Taking
<1>5. FrameItems(items, b, StopReason(b, StopCalls(b, a)), StopCalls(b, a))
  BY <1>2, ItemsOfFrame
<1>6. Accumulated(backend, a, said, m)
  BY <1>2, <1>3, Accumulates
<1>7. m = n + 1 /\ m = Behind + 1 /\ m \in Nat
  BY <1>2
<1> HIDE DEF n, m, b, a, items
<1>8. items = TextPart(b) /\ said[m].stop = "no"
  BY <1>1, <1>4, <1>5 DEF FrameItems
<1>9. \A k \in 1..m : said'[k].stop = "no"
  <2>1. \A k \in 1..n : said[k].stop = "no"
    BY DEF Going, Tasked, n
  <2>2. \A k \in 1..m : k \in 1..n \/ k = m
    BY <1>2, <1>7
  <2> QED BY <1>3, <1>8, <2>1, <2>2
<1>10. reader => Positions(out') = Told(said, m)
  <2> SUFFICES ASSUME reader PROVE Positions(out') = Told(said, m)
    OBVIOUS
  <2>1. out' = out \o TextPart(b) /\ IsSeq(out) /\ IsSeq(TextPart(b))
    BY <1>1, <1>2, <1>8, TextPartFacts DEF Collecting, TextsOnly
  <2>2. Positions(out') = Positions(out) \o Positions(TextPart(b))
    BY <2>1, PositionsConcat
  <2> QED BY <1>4, <1>7, <2>2, TellsText
<1>11. \E k \in 0..m : Positions(out') = Told(said, k)
  <2>1. CASE reader
    BY <1>7, <1>10, <2>1
  <2>2. CASE ~reader
    <3>1. PICK k \in 0..n : Positions(out) = Told(said, k)
      BY DEF Going, Tasked, n
    <3>2. k \in 0..m /\ out' = out
      BY <1>1, <1>2, <1>7, <2>2
    <3> QED BY <3>1, <3>2
  <2> QED BY <2>1, <2>2
<1>12. Served(backend', said')
  BY <1>1, <1>3 DEF Going
<1>13. cut' \in BOOLEAN /\ (cut' => LossyLoop(backend))
  <2>1. cut \in BOOLEAN /\ (cut => LossyLoop(backend))
    BY DEF Going, Tasked
  <2>2. cut' = cut
    BY <1>3
  <2> QED BY <2>1, <2>2, Zenon
<1> QED BY <1>1, <1>3, <1>6, <1>7, <1>9, <1>10, <1>11, <1>12, <1>13 DEF Tasked

(***************************************************************************)
(* The calls at the model's stop are those it made.                        *)
(***************************************************************************)
SameFor(loop, calls, expected) ==
  /\ Len(calls) = Len(expected)
  /\ \A k \in DOMAIN calls :
       /\ calls[k].id = expected[k].id
       /\ \/ calls[k].args = expected[k].args
          \/ calls[k].args = "replaced" /\ expected[k].args = "full" /\ LossyLoop(loop)

\* A call with half its arguments, or none, parses to {}.
LEMMA ParsedPieces ==
  ASSUME NEW loop, NEW s, NEW i, NEW n, NEW pieces \in Seq(Piece), Holds(loop, pieces, s, i, n),
         PieceCount(s, i, n) \in {0, 1, 2}
  PROVE  /\ PieceCount(s, i, n) # 2 => Parsed(i, pieces) = "empty"
         /\ PieceCount(s, i, n) = 2 =>
              \/ Parsed(i, pieces) = "full"
              \/ Parsed(i, pieces) = "replaced" /\ LossyLoop(loop)
<1> DEFINE seen == [k \in DOMAIN pieces |-> <<pieces[k].id, pieces[k].piece>>]
           whole == << <<i, 1>>, <<i, 2>> >>
<1>1. /\ Len(pieces) = PieceCount(s, i, n) /\ DOMAIN pieces = 1..Len(pieces)
      /\ \A k \in 1..Len(pieces) :
           pieces[k].id = i /\ pieces[k].piece = k /\ (pieces[k].cut => LossyLoop(loop))
  BY DEF Holds
<1>2. CASE PieceCount(s, i, n) # 2
  <2>1. 2 \notin DOMAIN seen /\ 2 \in DOMAIN whole
    BY <1>1, <1>2
  <2>2. seen # whole
    BY <2>1
  <2> QED BY <1>2, <2>2 DEF Parsed
<1>3. CASE PieceCount(s, i, n) = 2
  <2>1. DOMAIN pieces = 1..2 /\ Len(pieces) = 2
    BY <1>1, <1>3
  <2>2. seen = whole
    <3>1. seen = [k \in 1..2 |-> <<i, k>>]
      BY <1>1, <2>1
    <3>2. [k \in 1..2 |-> <<i, k>>] = whole
      OBVIOUS
    <3> QED BY <3>1, <3>2
  <2>3. (\E k \in DOMAIN pieces : pieces[k].cut) => LossyLoop(loop)
    BY <1>1
  <2> QED BY <1>3, <2>2, <2>3 DEF Parsed
<1> QED BY <1>2, <1>3

\* The same positions of two sequences.
Together(x, y, s, t, S) ==
  /\ Len(x) = Cardinality(S) /\ Len(y) = Cardinality(S) /\ Cardinality(S) \in Nat
  /\ DOMAIN x = 1..Cardinality(S)
  /\ \A k \in 1..Cardinality(S) : \E i \in S : x[k] = s[i] /\ y[k] = t[i]

LEMMA AtBoth ==
  ASSUME NEW n \in Nat, NEW S \in SUBSET (1..n), NEW s, NEW t
  PROVE  Together(At(s, S), At(t, S), s, t, S)
<1> DEFINE f == InOrder(S)
           c == Cardinality(S)
<1>1. c \in Nat /\ f \in [1..c -> S] /\ DOMAIN f = 1..c
  BY InOrderFacts
<1>2. At(s, S) = [k \in 1..c |-> s[f[k]]] /\ At(t, S) = [k \in 1..c |-> t[f[k]]]
  BY <1>1 DEF At
<1> HIDE DEF f, c
<1>3. \A k \in 1..c : f[k] \in S
  BY <1>1
<1>4. Len(At(s, S)) = c /\ Len(At(t, S)) = c /\ DOMAIN At(s, S) = 1..c
  <2>1. At(s, S) \in [1..c -> {At(s, S)[k] : k \in 1..c}]
        /\ At(t, S) \in [1..c -> {At(t, S)[k] : k \in 1..c}]
    BY <1>2
  <2> QED BY <1>1, <2>1, SeqMade
<1>5. ASSUME NEW k \in 1..c PROVE \E i \in S : At(s, S)[k] = s[i] /\ At(t, S)[k] = t[i]
  <2>1. At(s, S)[k] = s[f[k]] /\ At(t, S)[k] = t[f[k]]
    BY <1>2
  <2> QED BY <1>3, <2>1
<1> QED BY <1>1, <1>4, <1>5 DEF c, Together

LEMMA EventCalls ==
  ASSUME IsBackend(backend), ~Lines, Served(backend, said), NEW a, NEW n, n = Len(said),
         Accumulated(backend, a, said, n), n \in 1..n,
         said[n].stop = "calls" \/ (said[n].stop = "length" /\ Anthropic),
         NEW b, b.at = n
  PROVE  /\ SameFor(backend, StopCalls(b, a), SaidCalls)
         /\ said[n].stop = "calls" => SaidCalls # <<>> /\ \A i \in Opened : ~HalfSaid(i)
<1> DEFINE F == [i \in CallIds |-> Call(i, IF Pieces(i) = 2 THEN "full" ELSE "empty")]
           G == [i \in CallIds |-> Parsed(i, a.builds[i].pieces)]
           S == Opened
<1>1. /\ n \in Nat /\ ~LineLoop(backend) /\ (Anthropic <=> ClaudeLoop(backend))
      /\ Opened = OpenedIn(said) /\ \A i : Pieces(i) = PieceCount(said, i, n)
  BY LoopKinds, SaidAsParts
<1>2. StopServed(backend, said, said[n]) /\ \A i \in CallIds : CallServed(said, i)
  BY <1>1 DEF Served, EventsServed
<1>3. /\ a \in Accs({a.pending})
      /\ \A i \in CallIds : Knows(backend, a.builds[i], a.finished[i], said, i, n)
  BY <1>1 DEF Accumulated
<1>4. /\ said[n].stop = "calls" =>
           Opened # {} /\ \A i \in Opened : PieceCount(said, i, n) # 1
      /\ ClaudeLoop(backend) => \A i \in Opened : Parts(said, "close", i, n) # {}
  BY <1>1, <1>2 DEF StopServed
<1>5. \A i \in CallIds : PieceCount(said, i, n) <= 2 /\ PieceCount(said, i, n) \in Nat
  BY <1>1, <1>2, CountLater DEF CallServed
<1>6. Opened \in SUBSET CallIds /\ MaxToolCalls \in Nat
      /\ \A i \in CallIds : i \in Opened <=> Parts(said, "open", i, n) # {}
  BY <1>1, ProviderStreamAssumption DEF OpenedIn
<1>7. \A i \in CallIds : Parts(said, "close", i, n) # {} => Parts(said, "open", i, n) # {}
  <2> SUFFICES ASSUME NEW i \in CallIds, NEW k \in Parts(said, "close", i, n)
               PROVE  Parts(said, "open", i, n) # {}
    OBVIOUS
  <2>1. k \in 1..n
    BY DEF Parts
  <2>2. PICK j \in 1..(k - 1) : IsPart(said[j], "open", i)
    BY <1>2 DEF CallServed
  <2>3. j \in 1..n
    BY <1>1, <2>1, <2>2
  <2> QED BY <2>2, <2>3 DEF Parts
\* The calls handed over are the opened ones, with their pieces parsed.
<1>8. PICK fin : /\ StopCalls(b, a) = FinishedCalls(fin)
                 /\ \A i \in CallIds : fin[i] = IF i \in Opened THEN Parsed(i, a.builds[i].pieces)
                                                ELSE "no"
  <2>1. CASE Anthropic
    <3>1. StopCalls(b, a) = FinishedCalls(a.finished)
      BY <2>1 DEF StopCalls, Anthropic
    <3>2. \A i \in CallIds : a.finished[i] = IF i \in Opened THEN Parsed(i, a.builds[i].pieces)
                                              ELSE "no"
      BY <1>1, <1>3, <1>4, <1>6, <1>7, <2>1 DEF Knows
    <3> QED BY <3>1, <3>2
  <2>2. CASE ~Anthropic
    <3>0. said[b.at].stop = "calls"
      BY <2>2
    <3> DEFINE fin == [i \in CallIds |->
                         IF a.builds[i].open THEN Parsed(i, a.builds[i].pieces) ELSE "no"]
    <3>1. StopCalls(b, a) = FinishedCalls(fin)
      <4>1. backend = "openai"
        BY <2>2 DEF Anthropic, Lines, IsBackend, Streaming
      <4> QED BY <2>2, <3>0, <4>1 DEF StopCalls, OpenAiCalls, Anthropic
    <3>2. ASSUME NEW i \in CallIds PROVE a.builds[i].open <=> i \in Opened
      BY <1>1, <1>3, <1>6, <2>2 DEF Knows
    <3>3. \A i \in CallIds : fin[i] = IF i \in Opened THEN Parsed(i, a.builds[i].pieces) ELSE "no"
      BY <3>2
    <3> HIDE DEF fin
    <3> QED BY <3>1, <3>3
  <2> QED BY <2>1, <2>2
<1> DEFINE C == [i \in CallIds |-> Call(i, fin[i])]
<1>9. {i \in CallIds : fin[i] # "no"} = Opened
  <2>1. \A i, p : Parsed(i, p) # "no"
    BY DEF Parsed
  <2> QED BY <1>6, <1>8, <2>1
<1>10. StopCalls(b, a) = At(C, S) /\ SaidCalls = At(F, S)
  <2>1. FinishedCalls(fin) = At(C, {i \in CallIds : fin[i] # "no"})
    BY DEF FinishedCalls
  <2> QED BY <1>8, <1>9, <2>1 DEF SaidCalls
<1>11. ASSUME NEW i \in S
       PROVE  /\ C[i].id = F[i].id
              /\ \/ C[i].args = F[i].args
                 \/ C[i].args = "replaced" /\ F[i].args = "full" /\ LossyLoop(backend)
  <2>1. i \in CallIds /\ fin[i] = Parsed(i, a.builds[i].pieces)
    BY <1>6, <1>8
  <2>2. C[i].id = i /\ C[i].args = fin[i]
        /\ F[i].id = i /\ F[i].args = IF PieceCount(said, i, n) = 2 THEN "full" ELSE "empty"
    BY <1>1, <2>1 DEF Call
  <2>3. a.builds[i].pieces \in Seq(Piece) /\ Holds(backend, a.builds[i].pieces, said, i, n)
    BY <1>3, <2>1 DEF Accs, Builds, Knows
  <2>4. PieceCount(said, i, n) \in {0, 1, 2}
    BY <1>5, <2>1
  <2> DEFINE p == a.builds[i].pieces
             pc0 == PieceCount(said, i, n)
  <2>5. /\ pc0 # 2 => Parsed(i, p) = "empty"
        /\ pc0 = 2 => Parsed(i, p) = "full" \/ (Parsed(i, p) = "replaced" /\ LossyLoop(backend))
    BY <2>3, <2>4, ParsedPieces
  <2> HIDE DEF C, F
  <2> QED BY <2>1, <2>2, <2>4, <2>5
<1> HIDE DEF C, F, S
<1>12. SameFor(backend, At(C, S), At(F, S)) /\ (S # {} => At(F, S) # <<>>)
  <2>1. S \in SUBSET (1..MaxToolCalls) /\ MaxToolCalls \in Nat
    BY <1>6 DEF S, CallIds
  <2> DEFINE x == At(C, S)
             y == At(F, S)
  <2>2. /\ Len(x) = Cardinality(S) /\ Len(y) = Cardinality(S) /\ Cardinality(S) \in Nat
        /\ DOMAIN x = 1..Cardinality(S)
        /\ \A k \in 1..Cardinality(S) : \E i \in S : x[k] = C[i] /\ y[k] = F[i]
    <3>1. Together(x, y, C, F, S)
      BY <2>1, AtBoth
    <3> HIDE DEF x, y
    <3> QED BY <3>1 DEF Together
  <2> HIDE DEF x, y
  <2>3. S # {} => Cardinality(S) # 0
    BY <2>1, FinitePart, FS_EmptySet
  <2>4. S # {} => y # <<>>
    BY <2>2, <2>3, SeqNone
  <2>5. SameFor(backend, x, y)
    BY <1>11, <2>2 DEF SameFor
  <2> QED BY <2>4, <2>5 DEF x, y
<1> QED BY <1>1, <1>4, <1>10, <1>12 DEF HalfSaid, S

LEMMA NoEventCalls ==
  ASSUME IsBackend(backend), ~Lines, Served(backend, said), NEW a, NEW n, n = Len(said),
         Accumulated(backend, a, said, n), said[n].stop = "end", n \in 1..n,
         NEW b, b.at = n
  PROVE  StopCalls(b, a) = <<>> /\ SaidCalls = <<>>
<1>1. /\ n \in Nat /\ ~LineLoop(backend) /\ (Anthropic <=> ClaudeLoop(backend))
      /\ Opened = OpenedIn(said)
  BY LoopKinds, SaidAsParts
<1>2. StopServed(backend, said, said[n]) /\ \A i \in CallIds : CallServed(said, i)
  BY <1>1 DEF Served, EventsServed
<1>3. Opened = {}
  BY <1>1, <1>2 DEF StopServed
<1>4. SaidCalls = <<>>
  BY <1>3, NoneOfThem DEF SaidCalls
<1>5. CASE Anthropic
  <2>1. \A i \in CallIds : Parts(said, "close", i, n) = {}
    <3> SUFFICES ASSUME NEW i \in CallIds, NEW k \in Parts(said, "close", i, n) PROVE FALSE
      OBVIOUS
    <3>1. k \in 1..n
      BY DEF Parts
    <3>2. PICK j \in 1..(k - 1) : IsPart(said[j], "open", i)
      BY <1>2 DEF CallServed
    <3>3. j \in 1..n
      BY <1>1, <3>1, <3>2
    <3>4. Parts(said, "open", i, n) # {}
      BY <3>2, <3>3 DEF Parts
    <3> QED BY <1>1, <1>3, <3>4 DEF OpenedIn
  <2>2. \A i \in CallIds : a.finished[i] = "no"
    BY <1>1, <1>5, <2>1 DEF Accumulated, Knows
  <2>3. StopCalls(b, a) = FinishedCalls(a.finished)
    BY <1>5 DEF StopCalls, Anthropic
  <2>4. {i \in CallIds : a.finished[i] # "no"} = {}
    BY <2>2
  <2> QED BY <1>4, <2>3, <2>4, NoneOfThem DEF FinishedCalls
<1>6. CASE ~Anthropic
  <2>1. backend = "openai"
    BY <1>6 DEF Anthropic, Lines, IsBackend, Streaming
  <2> QED BY <1>4, <1>6, <2>1 DEF StopCalls, Anthropic
<1> QED BY <1>5, <1>6

LEMMA LineCallsAre ==
  ASSUME IsBackend(backend), Lines, Served(backend, said), NEW a, NEW n, n = Len(said),
         Accumulated(backend, a, said, n), n \in 1..n, NEW b, b.at = n
  PROVE  StopCalls(b, a) = SaidCalls /\ \A i \in Opened : ~HalfSaid(i)
<1>1. /\ n \in Nat /\ LineLoop(backend) /\ ~Anthropic /\ backend # "openai"
      /\ DOMAIN said = 1..n /\ \A i : Pieces(i) = PieceCount(said, i, n)
  BY LoopKinds, SaidAsParts DEF Lines
<1>2. /\ \A k \in 1..n : WellSaid(backend, said[k])
      /\ backend = "buffered" => n <= 1
  BY <1>1 DEF Served, LinesServed
<1>3. \A k \in 1..n : said[k].kind \in {"line", "ping", "error"}
  BY <1>1, <1>2 DEF WellSaid
<1>4. \A i : ~HalfSaid(i)
  <2> SUFFICES ASSUME NEW i PROVE PieceCount(said, i, n) # 1
    BY <1>1 DEF HalfSaid
  <2>1. Parts(said, "piece", i, n) = {}
    BY <1>3 DEF Parts, IsPart
  <2> QED BY <1>1, <2>1, PartsFinite DEF PieceCount
<1>5. StopCalls(b, a) = IF backend = "ollama" THEN a.pending ELSE LineCalls(said[n])
  BY <1>1 DEF StopCalls
<1>6. CASE \A k \in 1..n : said[k].calls = <<>>
  <2>1. SaidCalls = <<>>
    BY <1>1, <1>6 DEF SaidCalls
  <2>2. LineCalls(said[n]) = <<>>
    BY <1>6 DEF LineCalls
  <2>3. backend = "ollama" => a.pending = <<>>
    BY <1>6 DEF Accumulated, LastCalls
  <2> QED BY <1>4, <1>5, <2>1, <2>2, <2>3
<1>7. CASE ~\A k \in 1..n : said[k].calls = <<>>
  <2>1. PICK k \in 1..n : LastCalls(said, k, n) /\ StopCalls(b, a) = LineCalls(said[k])
    <3>1. CASE backend = "ollama"
      BY <1>5, <1>7, <3>1 DEF Accumulated
    <3>2. CASE backend # "ollama"
      <4>1. n = 1
        BY <1>1, <1>2, <3>2 DEF LineLoop
      <4>2. said[n].calls # <<>> /\ \A j \in (n + 1)..n : FALSE
        BY <1>7, <4>1
      <4>3. LastCalls(said, n, n)
        BY <4>2 DEF LastCalls
      <4> QED BY <1>5, <3>2, <4>3
    <3> QED BY <3>1, <3>2
  <2>2. \A j \in 1..n : CallLine(j) <=> j = k
    <3>1. ASSUME NEW j \in 1..n, said[j].calls # <<>> PROVE j <= k
      <4>1. CASE j \in (k + 1)..n
        BY <2>1, <3>1, <4>1 DEF LastCalls
      <4>2. CASE j \notin (k + 1)..n
        BY <1>1, <4>2
      <4> QED BY <4>1, <4>2
    <3>2. said[k].calls # <<>>
      BY <2>1 DEF LastCalls
    <3>3. ASSUME NEW j \in 1..n, CallLine(j) PROVE j = k
      <4>1. k <= j /\ j <= k
        BY <1>1, <3>1, <3>2, <3>3 DEF CallLine
      <4> QED BY <1>1, <4>1
    <3>4. CallLine(k)
      BY <1>1, <3>1, <3>2 DEF CallLine
    <3> QED BY <3>3, <3>4
  <2>3. (CHOOSE j \in DOMAIN said : CallLine(j)) = k
    BY <1>1, <2>2
  <2>4. SaidCalls = LineCalls(said[k])
    BY <1>1, <1>7, <2>3 DEF SaidCalls
  <2> QED BY <1>4, <2>1, <2>4
<1> QED BY <1>6, <1>7

(***************************************************************************)
(* The task is over: what it told, and the model's stop.                   *)
(***************************************************************************)
RightCalls ==
  IF backend = "openai" /\ said[Len(said)].stop = "length" THEN <<>> ELSE SaidCalls

RightStop(stop, calls) ==
  /\ stop = IF said[Len(said)].stop = "length" THEN "length"
            ELSE IF RightCalls = <<>> THEN "end" ELSE "calls"
  /\ SameFor(backend, calls, RightCalls)
  /\ stop = "calls" => \A i \in Opened : ~HalfSaid(i)

LEMMA SameForItself == ASSUME NEW loop, NEW calls PROVE SameFor(loop, calls, calls)
BY DEF SameFor

LEMMA StopIsRight ==
  ASSUME IsBackend(backend), Served(backend, said), NEW n, n = Len(said), n \in 1..n, NEW a,
         Accumulated(backend, a, said, n), said[n].stop # "no", NEW b, b.at = n
  PROVE  RightStop(StopReason(b, StopCalls(b, a)), StopCalls(b, a))
<1> DEFINE calls == StopCalls(b, a)
<1>1. said[n].stop \in {"length", "end", "calls"}
  BY DEF Served, WellSaid
<1>2. CASE Lines
  <2>1. calls = SaidCalls /\ \A i \in Opened : ~HalfSaid(i)
    BY <1>2, LineCallsAre
  <2>2. StopReason(b, calls) = finalize_stop_reason(said[n], calls)
    BY <1>2 DEF StopReason
  <2>3. SameFor(backend, calls, SaidCalls) /\ RightCalls = SaidCalls
    BY <1>2, <2>1, SameForItself DEF RightCalls, Lines
  <2> HIDE DEF calls
  <2>4. RightStop(StopReason(b, calls), calls)
    BY <2>1, <2>2, <2>3 DEF RightStop, finalize_stop_reason
  <2> QED BY <2>4 DEF calls
<1>3. CASE ~Lines
  <2>1. StopReason(b, calls) = said[n].stop
    BY <1>3 DEF StopReason
  <2>2. CASE said[n].stop = "length"
    <3>1. SameFor(backend, calls, RightCalls)
      <4>1. CASE Anthropic
        <5>1. SameFor(backend, calls, SaidCalls)
          BY <1>3, <2>2, <4>1, EventCalls
        <5>2. RightCalls = SaidCalls
          BY <4>1 DEF RightCalls, Anthropic
        <5> QED BY <5>1, <5>2
      <4>2. CASE ~Anthropic
        <5>1. backend = "openai"
          BY <1>3, <4>2 DEF Anthropic, Lines, IsBackend, Streaming
        <5>2. calls = <<>> /\ RightCalls = <<>>
          BY <2>2, <4>2, <5>1 DEF StopCalls, RightCalls
        <5> QED BY <5>2, SameForItself
      <4> QED BY <4>1, <4>2
    <3> HIDE DEF calls
    <3>2. RightStop(StopReason(b, calls), calls)
      BY <2>1, <2>2, <3>1 DEF RightStop
    <3> QED BY <3>2 DEF calls
  <2>3. CASE said[n].stop = "end"
    <3>1. calls = <<>> /\ SaidCalls = <<>>
      BY <1>3, <2>3, NoEventCalls
    <3>2. SameFor(backend, calls, SaidCalls) /\ RightCalls = SaidCalls
      BY <2>3, <3>1, SameForItself DEF RightCalls
    <3> HIDE DEF calls
    <3>3. RightStop(StopReason(b, calls), calls)
      BY <2>1, <2>3, <3>1, <3>2 DEF RightStop
    <3> QED BY <3>3 DEF calls
  <2>4. CASE said[n].stop = "calls"
    <3>1. SameFor(backend, calls, SaidCalls) /\ SaidCalls # <<>> /\ \A i \in Opened : ~HalfSaid(i)
      BY <1>3, <2>4, EventCalls
    <3>2. RightCalls = SaidCalls
      BY <2>4 DEF RightCalls
    <3> HIDE DEF calls
    <3>3. RightStop(StopReason(b, calls), calls)
      BY <2>1, <2>4, <3>1, <3>2 DEF RightStop
    <3> QED BY <3>3 DEF calls
  <2> QED BY <1>1, <2>2, <2>3, <2>4
<1> QED BY <1>2, <1>3

\* The server's part of the property does not change when the task ends.
LEMMA SaidSame ==
  ASSUME said' = said, backend' = backend, IsBackend(backend)
  PROVE  /\ SaidCalls' = SaidCalls /\ Opened' = Opened /\ SaidStop' = SaidStop
         /\ SaidTexts' = SaidTexts /\ (Stopped' <=> Stopped)
         /\ \A i : HalfSaid(i)' <=> HalfSaid(i)
         /\ \A x, y : SameCalls(x, y)' <=> SameFor(backend, x, y)
<1>1. Opened' = Opened
  BY DEF Opened
<1>2. \A i : Pieces(i)' = Pieces(i)
  BY DEF Pieces
<1>3. Lines' <=> Lines
  BY DEF Lines
<1>4. SaidCalls' = SaidCalls
  BY <1>1, <1>2, <1>3 DEF SaidCalls, CallLine, LineCalls
<1>5. \A i : HalfSaid(i)' <=> HalfSaid(i)
  BY <1>2 DEF HalfSaid
<1>6. LossyChunks' <=> LossyLoop(backend)
  BY LoopKinds DEF LossyChunks
<1>7. \A x, y : SameCalls(x, y)' <=> SameFor(backend, x, y)
  BY <1>6 DEF SameCalls, SameFor
<1>8. SaidStop' = SaidStop /\ SaidTexts' = SaidTexts /\ (Stopped' <=> Stopped)
  BY DEF SaidStop, SaidTexts, Stopped
<1> QED BY <1>1, <1>4, <1>5, <1>7, <1>8

LEMMA ToldAll ==
  ASSUME IsSeq(said), NEW m \in Nat, m <= Len(said)
  PROVE  /\ Told(said, Len(said)) = SaidTexts
         /\ Told(said, m) = SubSeq(SaidTexts, 1, Len(Told(said, m)))
<1>1. Len(said) \in Nat /\ DOMAIN said = 1..Len(said)
  BY SeqFacts
<1>2. Told(said, Len(said)) = SaidTexts
  BY <1>1 DEF Told, SaidTexts
<1> QED BY <1>1, <1>2, ToldBegins

\* Texts, and a stop the model did not say.
LEMMA OverUnheard ==
  ASSUME IsSeq(said), IsBackend(backend), said' = said, backend' = backend,
         NEW m \in Nat, m <= Len(said), TextsOf(out') = Told(said, m),
         \A k \in DOMAIN out' : out'[k].item = "done" =>
           ~Heard' /\ out'[k].stop = "end" /\ out'[k].calls = <<>>
  PROVE  DeliveredAsSaid'
<1>1. SaidTexts' = SaidTexts
  BY SaidSame
<1>2. ReceivedTexts' = Told(said, m)
  BY DEF ReceivedTexts
<1>3. ReceivedTexts' = SubSeq(SaidTexts', 1, Len(ReceivedTexts'))
  BY <1>1, <1>2, ToldAll
<1>4. \A k \in Dones' : ~Heard' /\ out'[k].stop = "end" /\ out'[k].calls = <<>>
  BY DEF Dones
<1> QED BY <1>3, <1>4 DEF DeliveredAsSaid

\* All the texts, and the model's stop.
LEMMA OverHeard ==
  ASSUME IsSeq(said), IsBackend(backend), said' = said, backend' = backend,
         NEW n, n = Len(said), n \in 1..n, said[n].stop # "no",
         \A k \in 1..n : said[k].stop # "no" => k = n,
         arriving' = "none", buf' = <<>>, TextsOf(out') = Told(said, n),
         NEW stop, NEW calls, RightStop(stop, calls),
         \A k \in DOMAIN out' : out'[k].item = "done" => out'[k].stop = stop /\ out'[k].calls = calls
  PROVE  DeliveredAsSaid'
<1>1. /\ SaidCalls' = SaidCalls /\ Opened' = Opened /\ SaidStop' = SaidStop
      /\ SaidTexts' = SaidTexts /\ (Stopped' <=> Stopped)
      /\ \A i : HalfSaid(i)' <=> HalfSaid(i)
      /\ \A x, y : SameCalls(x, y)' <=> SameFor(backend, x, y)
  BY SaidSame
<1>2. n \in Nat /\ DOMAIN said = 1..n
  BY SeqFacts
<1>3. SaidStop = n
  <2>1. \A k \in DOMAIN said : said[k].stop # "no" <=> k = n
    BY <1>2
  <2> QED BY <1>2, <2>1 DEF SaidStop
<1>4. Heard'
  <2>1. Stopped
    BY <1>2 DEF Stopped
  <2> QED BY <1>1, <2>1 DEF Heard
<1>5. ReceivedTexts' = SaidTexts'
  BY <1>1, ToldAll, <1>2 DEF ReceivedTexts
<1>6. ReceivedTexts' = SubSeq(SaidTexts', 1, Len(ReceivedTexts'))
  <2>1. Told(said, n) = SubSeq(SaidTexts, 1, Len(Told(said, n))) /\ ReceivedTexts' = Told(said, n)
    BY <1>2, ToldAll DEF ReceivedTexts
  <2> QED BY <1>1, <2>1
<1>7. \A k \in Dones' : out'[k].stop = stop /\ out'[k].calls = calls
  BY DEF Dones
<1>8. /\ stop = IF CutAtLength' THEN "length" ELSE IF DueCalls' = <<>> THEN "end" ELSE "calls"
      /\ SameCalls(calls, DueCalls)'
      /\ stop = "calls" => \A i \in Opened' : ~HalfSaid(i)'
  <2>1. CutAtLength' <=> said[Len(said)].stop = "length"
    BY <1>1, <1>3 DEF CutAtLength
  <2>2. DueCalls' = RightCalls
    BY <1>1, <2>1 DEF DueCalls, RightCalls
  <2>3. SameCalls(calls, DueCalls)' <=> SameFor(backend, calls, RightCalls)
    <3>1. LossyChunks' <=> LossyLoop(backend)
      BY LoopKinds DEF LossyChunks
    <3> QED BY <2>2, <3>1 DEF SameCalls, SameFor
  <2> QED BY <1>1, <2>1, <2>2, <2>3 DEF RightStop
<1> QED BY <1>4, <1>5, <1>6, <1>7, <1>8 DEF DeliveredAsSaid

\* No more texts, and no stop that the model said.
LEMMA AfterTexts ==
  ASSUME Going, said' = said, backend' = backend, NEW t, NoText(t),
         out' = out \o t \/ out' = out,
         \A k \in 1..Len(t) : t[k].item = "done" =>
           ~Heard' /\ t[k].stop = "end" /\ t[k].calls = <<>>
  PROVE  DeliveredAsSaid'
<1>1. /\ IsBackend(backend) /\ Behind \in Nat /\ Behind <= Len(said) /\ Len(said) \in Nat
      /\ IsSeq(said) /\ TextsOnly(out)
  BY GoingFacts DEF Collecting
<1>2. PICK m \in 0..Behind : Positions(out) = Told(said, m)
  BY DEF Going, Tasked
<1>3. m \in Nat /\ m <= Len(said)
  BY <1>1
<1>4. TextsOf(out) = Told(said, m) /\ IsSeq(out) /\ IsSeq(t) /\ IsSeq(Told(said, m))
  BY <1>1, <1>2, <1>3, TextsAll, ToldFacts DEF TextsOnly, NoText
<1>5. TextsOf(out \o t) = Told(said, m)
  <2>1. TextsOf(t) = <<>>
    BY TextsNone
  <2>2. TextsOf(out \o t) = TextsOf(out) \o TextsOf(t)
    BY <1>4, TextsOfConcat
  <2>3. Told(said, m) \o <<>> = Told(said, m)
    BY <1>4, NothingAdded
  <2> QED BY <1>4, <2>1, <2>2, <2>3
<1>6. \A k \in DOMAIN out : out[k].item = "text"
  BY <1>1, <1>4, SeqFacts DEF TextsOnly
<1>7. CASE out' = out
  BY <1>1, <1>3, <1>4, <1>6, <1>7, OverUnheard
<1>8. CASE out' = out \o t
  <2> DEFINE u == out \o t
  <2>1. /\ IsSeq(u) /\ DOMAIN u = 1..Len(u) /\ Len(out) \in Nat
        /\ \A k \in 1..Len(u) :
             \/ k \in 1..Len(out) /\ u[k] = out[k]
             \/ k - Len(out) \in 1..Len(t) /\ u[k] = t[k - Len(out)]
    BY <1>4, ConcatFacts, SeqFacts, ZenonT(60)
  <2>2. TextsOf(u) = Told(said, m) /\ out' = u
    BY <1>5, <1>8
  <2> HIDE DEF u
  <2>3. \A k \in 1..Len(out) : out[k].item = "text"
    BY <1>1 DEF TextsOnly
  <2>4. \A k \in DOMAIN u : u[k].item = "done" =>
          ~Heard' /\ u[k].stop = "end" /\ u[k].calls = <<>>
    BY <2>1, <2>3
  <2> QED BY <1>1, <1>3, <2>2, <2>4, OverUnheard
<1> QED BY <1>7, <1>8

LEMMA ErrorFacts == NoText(<<Item("err")>>) /\ NoText(<<>>) /\ Item("err").item = "err"
                    /\ \A k \in 1..1 : <<Item("err")>>[k].item = "err"
<1>1. Item("err").item = "err"
  BY DEF Item
<1>2. IsSeq(<<Item("err")>>) /\ Len(<<Item("err")>>) = 1 /\ <<Item("err")>>[1] = Item("err")
  BY SeqOne
<1> QED BY <1>1, <1>2, SeqNone DEF NoText

\* An error, or nothing at all.
LEMMA AfterError ==
  ASSUME Going, said' = said, backend' = backend, out' = out \o <<Item("err")>> \/ out' = out
  PROVE  DeliveredAsSaid'
<1> DEFINE t == <<Item("err")>>
<1>1. NoText(t) /\ Len(t) = 1 /\ \A k \in 1..1 : t[k].item = "err"
  BY ErrorFacts, SeqOne
<1>2. out' = out \o t \/ out' = out
  OBVIOUS
<1> HIDE DEF t
<1> QED BY <1>1, <1>2, AfterTexts

LEMMA NotHeard ==
  ASSUME IsSeq(said), said' = said, NEW m, Behind' = m, \A k \in 1..m : said[k].stop = "no"
  PROVE  ~Heard'
<1> SUFFICES ASSUME Heard' PROVE FALSE
  OBVIOUS
<1>1. arriving' = "none" /\ buf' = <<>> /\ Stopped'
  BY DEF Heard
<1>2. Len(said) \in Nat /\ DOMAIN said = 1..Len(said)
  BY SeqFacts
<1>3. m = Len(said)
  <2>1. Behind' = Len(said') - Len(buf') - 0
    BY <1>1 DEF Behind
  <2>2. Len(buf') = 0
    BY <1>1
  <2> QED BY <1>2, <2>1, <2>2
<1>4. PICK k \in DOMAIN said' : said'[k].stop # "no"
  BY <1>1 DEF Stopped
<1> QED BY <1>2, <1>3, <1>4

\* The end of the body stands for the stop.
LEMMA AfterEnd ==
  ASSUME Going, EndsWithoutStop, said' = said, ~Heard' PROVE DeliveredAsSaid'
<1> DEFINE t == IF backend = "ollama" THEN <<DoneItem("end", <<>>)>> ELSE EndItems
           d == DoneItem("end", <<>>)
<1>1. /\ backend' = backend
      /\ \/ out' = out \o <<Item("err")>> \/ out' = out
         \/ out' = out \o t
  BY DEF EndsWithoutStop, Receives
<1>2. d.item = "done" /\ d.stop = "end" /\ d.calls = <<>>
  BY DEF DoneItem, Item
<1>3. NoText(t) /\ \A k \in 1..Len(t) : t[k].item = "done" => t[k] = d
  <2>1. CASE backend = "ollama"
    <3>1. t = <<d>>
      BY <2>1
    <3>2. IsSeq(<<d>>) /\ Len(<<d>>) = 1 /\ <<d>>[1] = d
      BY SeqOne
    <3> HIDE DEF t, d
    <3> QED BY <1>2, <3>1, <3>2 DEF NoText
  <2>2. CASE backend # "ollama"
    <3>1. t = StopItems(acc.usage, "end", <<>>)
      BY <2>2 DEF EndItems
    <3>2. /\ NoText(t) /\ t[Len(t)] = d
          /\ \A k \in 1..Len(t) : t[k].item = "done" <=> k = Len(t)
      BY <3>1, StopItemsFacts
    <3> HIDE DEF t, d
    <3> QED BY <3>2
  <2> QED BY <2>1, <2>2
<1> HIDE DEF t, d
<1>4. CASE out' = out \o t
  <2>1. \A k \in 1..Len(t) : t[k].item = "done" => ~Heard' /\ t[k].stop = "end" /\ t[k].calls = <<>>
    BY <1>2, <1>3
  <2> QED BY <1>1, <1>3, <1>4, <2>1, AfterTexts
<1>5. CASE out' = out \o <<Item("err")>> \/ out' = out
  BY <1>1, <1>5, AfterError
<1> QED BY <1>1, <1>4, <1>5

LEMMA BodyUnheard == ASSUME Going, EndOfBody PROVE said' = said /\ ~Heard'
<1>1. said' = said /\ arriving' = arriving /\ buf' = buf
  BY DEF EndOfBody, server
<1>2. IsSeq(said) /\ \A k \in 1..Behind : said[k].stop = "no"
  BY GoingFacts DEF Going, Tasked
<1>3. Behind' = Behind
  BY <1>1 DEF Behind
<1> QED BY <1>1, <1>2, <1>3, NotHeard

LEMMA BodyOver == ASSUME Going, EndOfBody PROVE DeliveredAsSaid'
<1>1. EndsWithoutStop
  BY DEF EndOfBody
<1> QED BY <1>1, BodyUnheard, AfterEnd

LEMMA CommentUnheard == ASSUME Going, TakeComment PROVE said' = said /\ ~Heard'
<1> DEFINE m == Behind + 1
           b == NextFrame
<1>1. CanTake /\ Taken /\ said[b.at].kind = "comment" /\ backend = "openai"
  BY DEF TakeComment, EndsByComment
<1>2. m = Behind + 1
  OBVIOUS
<1> HIDE DEF m, b
<1>3. Taking(b, Behind, m) /\ Behind' = m /\ said' = said
  BY <1>1, <1>2, FrameTaken DEF b
<1>4. /\ IsSeq(said) /\ Behind \in Nat /\ \A k \in 1..Behind : said[k].stop = "no"
      /\ Served(backend, said)
  BY GoingFacts DEF Going, Tasked
<1>5. b.at = m /\ m \in 1..Len(said)
  BY <1>2, <1>3, <1>4, GoingFacts DEF Taking
<1>6. said[m].stop = "no"
  BY <1>1, <1>4, <1>5 DEF Served, WellSaid
<1>7. \A k \in 1..m : said[k].stop = "no"
  <2>1. \A k \in 1..m : k \in 1..Behind \/ k = m
    BY <1>2, <1>4
  <2> QED BY <1>4, <1>6, <2>1
<1> QED BY <1>3, <1>4, <1>7, NotHeard

LEMMA CommentTaken == ASSUME Going, TakeComment PROVE DeliveredAsSaid'
<1>1. EndsWithoutStop
  BY DEF TakeComment
<1> QED BY <1>1, CommentUnheard, AfterEnd

LEMMA ErrorTaken == ASSUME Going, TakeError PROVE DeliveredAsSaid'
<1>1. backend' = backend /\ said' = said /\ (out' = out \o <<Item("err")>> \/ out' = out)
  BY DEF TakeError, Taken, Receives, server
<1> QED BY <1>1, AfterError

LEMMA Failed ==
  ASSUME Going, NEW recorded, NEW items, Fail(recorded, items) PROVE DeliveredAsSaid'
<1>1. backend' = backend /\ said' = said /\ (out' = out \o <<Item("err")>> \/ out' = out)
  BY DEF Fail, Receives, server
<1> QED BY <1>1, AfterError

\* An SSE backend could not send an item of the frame.
LEMMA SendFailed == ASSUME Going, SendFails PROVE DeliveredAsSaid'
<1> DEFINE m == Behind + 1
           b == NextFrame
           a == NextAcc(b)
           items == Items(b, a)
<1>1. /\ CanTake /\ Taken /\ ~Lines /\ backend' = backend
      /\ \E n \in 0..(Len(items) - 1) : out' = out \o SubSeq(items, 1, n)
  BY DEF SendFails
<1>2. m = Behind + 1
  OBVIOUS
<1>3. IsBackend(backend) /\ Behind \in Nat /\ Served(backend, said)
  BY GoingFacts DEF Going
<1>4. FrameItems(items, b, StopReason(b, StopCalls(b, a)), StopCalls(b, a))
  BY <1>3, ItemsOfFrame
<1>5. items = TextPart(b) \o LastPart(UsageOf(a), b, StopCalls(b, a))
  BY <1>3, ItemsSplit
<1> HIDE DEF m, b, a, items
<1>6. Taking(b, Behind, m) /\ said' = said
  BY <1>1, <1>2, FrameTaken DEF b
<1>7. b.at = m /\ m \in 1..Len(said)
  <2>1. b.at = m /\ m <= Len(said)
    BY <1>6 DEF Taking
  <2>2. Len(said) \in Nat
    BY GoingFacts
  <2> QED BY <1>2, <1>3, <2>1, <2>2
<1>8. PICK n \in 0..(Len(items) - 1) : out' = out \o SubSeq(items, 1, n)
  BY <1>1
<1> DEFINE t == SubSeq(items, 1, n)
<1>9. IsSeq(items) /\ Len(items) \in Nat
  BY <1>4 DEF FrameItems
<1>10. IsSeq(t) /\ Len(t) = n /\ n \in Nat /\ n < Len(items) /\ \A k \in 1..n : t[k] = items[k]
  <2> DEFINE S == {items[i] : i \in DOMAIN items}
  <2>1. items \in Seq(S)
    BY <1>9 DEF IsSeq
  <2>2. n \in Nat /\ n < Len(items)
    BY <1>9
  <2> HIDE DEF S
  <2>3. \A k \in 1..n : t[k] = items[k]
    BY <1>9, <2>1, <2>2
  <2>4. t \in Seq(S) /\ Len(t) = n
    BY <1>9, <2>1, <2>2
  <2> HIDE DEF t
  <2>5. t \in [1..n -> S]
    BY <2>2, <2>4
  <2> QED BY <2>2, <2>3, <2>5, SeqMade
<1> HIDE DEF t
<1>11. CASE said[m].stop = "no"
  <2>1. items = TextPart(b)
    BY <1>4, <1>7, <1>11 DEF FrameItems
  <2>2. Len(items) \in {0, 1}
    BY <2>1, TextPartFacts
  <2>3. Len(t) = 0
    BY <1>10, <2>2
  <2>4. NoText(t) /\ \A k \in 1..Len(t) : t[k].item # "done"
    BY <1>10, <2>3 DEF NoText
  <2>5. out' = out \o t
    BY <1>8 DEF t
  <2> QED BY <1>1, <1>6, <2>4, <2>5, AfterTexts
<1>12. CASE said[m].stop # "no"
  <2>1. ~said[m].text
    <3>1. ~LineLoop(backend)
      BY <1>1, <1>3, LoopKinds
    <3>2. WellSaid(backend, said[m])
      BY <1>3, <1>7 DEF Served
    <3> QED BY <1>12, <3>1, <3>2 DEF WellSaid, SseKinds
  <2>2. NoText(items)
    <3> DEFINE l == LastPart(UsageOf(a), b, StopCalls(b, a))
    <3>1. NoText(l) /\ TextPart(b) = <<>>
      BY <1>7, <2>1, LastPartFacts, TextPartFacts
    <3>2. items = <<>> \o l
      BY <1>5, <3>1
    <3> HIDE DEF l
    <3>3. items = l
      BY <3>1, <3>2, NothingAdded DEF NoText
    <3> QED BY <3>1, <3>3
  <2>3. \A k \in 1..Len(items) : items[k].item = "done" <=> k = Len(items)
    BY <1>4, <1>7, <1>12 DEF FrameItems
  <2>4. NoText(t) /\ \A k \in 1..Len(t) : t[k].item # "done"
    <3>1. \A k \in 1..n : k \in 1..Len(items) /\ k # Len(items)
      BY <1>9, <1>10
    <3> QED BY <1>10, <2>2, <2>3, <3>1 DEF NoText
  <2> QED BY <1>1, <1>6, <1>8, <2>4, AfterTexts DEF t
<1> QED BY <1>11, <1>12

\* What is received of the last frame: its items, and perhaps an error.
EndsWith(o, b, stop, calls) ==
  /\ TextsOf(o) = Positions(out) \o Positions(TextPart(b))
  /\ \A k \in DOMAIN o : o[k].item = "done" => o[k].stop = stop /\ o[k].calls = calls

LEMMA FrameEnds ==
  ASSUME TextsOnly(out), NEW b, NEW stop, NEW calls, NEW items,
         FrameItems(items, b, stop, calls), said[b.at].stop # "no",
         NEW e \in {<<>>, <<Item("err")>>}
  PROVE  EndsWith((out \o items) \o e, b, stop, calls)
<1> DEFINE o == (out \o items) \o e
           u == out \o items
           d == DoneItem(stop, calls)
<1>1. /\ IsSeq(items) /\ items[Len(items)] = d
      /\ TextsOf(items) = Positions(TextPart(b))
      /\ \A k \in 1..Len(items) : items[k].item = "done" <=> k = Len(items)
  BY DEF FrameItems
<1>2. d.stop = stop /\ d.calls = calls
  BY DEF DoneItem, Item
<1>3. IsSeq(out) /\ TextsOf(out) = Positions(out) /\ \A k \in 1..Len(out) : out[k].item = "text"
  BY TextsAll DEF TextsOnly
<1>4. NoText(e) /\ IsSeq(e) /\ \A k \in 1..Len(e) : e[k].item # "done"
  <2>1. CASE e = <<>>
    BY <2>1, SeqNone DEF NoText
  <2>2. CASE e = <<Item("err")>>
    <3>1. Len(e) = 1
      BY <2>2, SeqOne
    <3> QED BY <2>2, <3>1, ErrorFacts DEF NoText
  <2> QED BY <2>1, <2>2
<1>5. /\ IsSeq(u)
      /\ \A k \in 1..Len(u) :
           \/ k \in 1..Len(out) /\ u[k] = out[k]
           \/ k - Len(out) \in 1..Len(items) /\ u[k] = items[k - Len(out)]
      /\ TextsOf(u) = TextsOf(out) \o TextsOf(items)
  BY <1>1, <1>3, ConcatFacts, TextsOfConcat
<1> HIDE DEF u, d
<1>6. /\ IsSeq(u \o e) /\ DOMAIN (u \o e) = 1..Len(u \o e)
      /\ \A k \in 1..Len(u \o e) :
           \/ k \in 1..Len(u) /\ (u \o e)[k] = u[k]
           \/ k - Len(u) \in 1..Len(e) /\ (u \o e)[k] = e[k - Len(u)]
  BY <1>4, <1>5, ConcatFacts, SeqFacts
<1>7. o = u \o e
  BY DEF u
<1> HIDE DEF o
<1>8. TextsOf(o) = TextsOf(u)
  <2>1. TextsOf(u \o e) = TextsOf(u) \o TextsOf(e) /\ TextsOf(e) = <<>>
    BY <1>4, <1>5, TextsOfConcat, TextsNone
  <2>2. IsSeq(TextsOf(u))
    <3>1. IsSeq(Positions(out)) /\ IsSeq(Positions(TextPart(b)))
      BY <1>3, TextPartFacts, PositionsFacts
    <3> QED BY <1>1, <1>3, <1>5, <3>1, SeqConcat
  <2> QED BY <1>7, <2>1, <2>2, NothingAdded
<1>9. \A k \in 1..Len(u) : u[k].item = "done" => u[k] = d
  BY <1>1, <1>3, <1>5
<1>10. \A k \in 1..Len(o) : o[k].item = "done" => o[k] = d
  BY <1>4, <1>6, <1>7, <1>9
<1>11. DOMAIN o = 1..Len(o)
  BY <1>6, <1>7
<1>12. EndsWith(o, b, stop, calls)
  BY <1>1, <1>2, <1>3, <1>5, <1>8, <1>10, <1>11 DEF EndsWith
<1> QED BY <1>12 DEF o

LEMMA StopTaken == ASSUME Going, TakeFrame, pc' = "over" PROVE DeliveredAsSaid'
<1> DEFINE m == Behind + 1
           b == NextFrame
           a == NextAcc(b)
           items == Items(b, a)
           calls == StopCalls(b, a)
           stop == StopReason(b, calls)
<1>1. /\ CanTake /\ Taken /\ backend' = backend
      /\ Over(items) /\ Finishes(a, items)
  BY DEF TakeFrame
<1>2. m = Behind + 1
  OBVIOUS
<1>3. /\ IsBackend(backend) /\ Behind \in Nat /\ Served(backend, said) /\ Collecting
      /\ IsSeq(said) /\ Len(said) \in Nat
  BY GoingFacts DEF Going
<1>4. FrameItems(items, b, stop, calls)
  BY <1>3, ItemsOfFrame
<1> HIDE DEF m
<1>5. /\ Taking(b, Behind, m) /\ said' = said
      /\ said[m].stop # "no" => arriving' = "none" /\ buf' = <<>> /\ m = Len(said)
  <2> HIDE DEF b
  <2> QED BY <1>1, <1>2, FrameTaken DEF b
<1>6. b.at = m
  BY <1>5 DEF Taking
<1>7. said[m].stop # "no"
  BY <1>1, <1>4, <1>6 DEF FrameItems
<1>8. Accumulated(backend, a, said, m)
  BY <1>2, <1>3, <1>5, Accumulates
<1>9. m = Len(said) /\ m \in 1..m /\ \A k \in 1..m : said[k].stop # "no" => k = m
  <2>1. m = Len(said) /\ m \in 1..m
    BY <1>2, <1>3, <1>5, <1>7
  <2> QED BY <1>3, <2>1 DEF Served
<1>10. RightStop(stop, calls)
  BY <1>3, <1>6, <1>7, <1>8, <1>9, StopIsRight
<1> HIDE DEF b, a, items, calls, stop
<1>11. CASE reader /\ ~(Lines /\ backend # "ollama" /\ Silent(a, items))
  <2>1. PICK e \in {<<>>, <<Item("err")>>} : out' = (out \o items) \o e
    <3>1. CASE Lines /\ Silent(a, items)
      BY <1>1, <1>11, <3>1 DEF Finishes
    <3>2. CASE ~(Lines /\ Silent(a, items))
      <4>1. out' = out \o items
        BY <1>1, <1>11, <3>2 DEF Finishes, Receives
      <4>2. IsSeq(out \o items)
        BY <1>3, <1>4, SeqConcat DEF Collecting, TextsOnly, FrameItems
      <4>3. out' = (out \o items) \o <<>>
        BY <4>1, <4>2, NothingAdded
      <4> QED BY <4>3
    <3> QED BY <3>1, <3>2
  <2> DEFINE o == (out \o items) \o e
  <2>2. /\ TextsOf(o) = Positions(out) \o Positions(TextPart(b))
        /\ \A k \in DOMAIN o : o[k].item = "done" => o[k].stop = stop /\ o[k].calls = calls
    <3>1. TextsOnly(out) /\ said[b.at].stop # "no"
      BY <1>3, <1>6, <1>7 DEF Collecting
    <3>2. EndsWith((out \o items) \o e, b, stop, calls)
      BY <1>4, <3>1, FrameEnds
    <3>3. EndsWith(o, b, stop, calls)
      BY <3>2
    <3> HIDE DEF o
    <3> QED BY <3>3 DEF EndsWith
  <2>3. out' = o
    BY <2>1
  <2> HIDE DEF o
  <2>4. TextsOf(out') = Told(said, m)
    BY <1>2, <1>6, <1>11, <2>2, <2>3, TellsText
  <2>5. \A k \in DOMAIN out' : out'[k].item = "done" => out'[k].stop = stop /\ out'[k].calls = calls
    BY <2>2, <2>3
  <2> QED BY <1>1, <1>3, <1>5, <1>7, <1>9, <1>10, <2>4, <2>5, OverHeard
<1>12. CASE ~(reader /\ ~(Lines /\ backend # "ollama" /\ Silent(a, items)))
  <2>1. out' = out \o <<Item("err")>> \/ out' = out
    <3>1. CASE ~reader
      BY <1>1, <3>1 DEF Finishes, Receives
    <3>2. CASE reader
      <4>1. out' = (out \o <<>>) \o <<Item("err")>>
        BY <1>1, <1>12, <3>2 DEF Finishes
      <4>2. out \o <<>> = out
        BY <1>3, NothingAdded DEF Collecting, TextsOnly
      <4> QED BY <4>1, <4>2
    <3> QED BY <3>1, <3>2
  <2> QED BY <1>1, <1>5, <2>1, AfterError
<1> QED BY <1>11, <1>12

(***************************************************************************)
(* What is recorded of an answer that is over.                             *)
(***************************************************************************)
LEMMA LastChanged ==
  ASSUME NEW o, IsSeq(o), NEW i, IsSeq(i), NEW j, IsSeq(j)
  PROVE  /\ Len(i) = Len(j) /\ Len(i) # 0
         /\ \A k \in 1..Len(i) : k # Len(i) => j[k] = i[k]
         => /\ (o \o i)[Len(o \o i)] = i[Len(i)]
            /\ o \o j = [(o \o i) EXCEPT ![Len(o \o i)] = j[Len(j)]]
<1> DEFINE u == o \o i
           v == o \o j
           w == [u EXCEPT ![Len(u)] = j[Len(j)]]
<1>1. /\ IsSeq(u) /\ Len(u) = Len(o) + Len(i)
      /\ \A k \in 1..Len(o) : u[k] = o[k]
      /\ \A k \in 1..Len(i) : u[Len(o) + k] = i[k]
  BY SeqConcat
<1>2. /\ IsSeq(v) /\ Len(v) = Len(o) + Len(j)
      /\ \A k \in 1..Len(o) : v[k] = o[k]
      /\ \A k \in 1..Len(j) : v[Len(o) + k] = j[k]
  BY SeqConcat
<1>2a. SUFFICES ASSUME Len(i) = Len(j), Len(i) # 0,
                     \A k \in 1..Len(i) : k # Len(i) => j[k] = i[k]
              PROVE  u[Len(u)] = i[Len(i)] /\ v = w
  OBVIOUS
<1> HIDE DEF u, v
<1>3. Len(o) \in Nat /\ Len(i) \in Nat \ {0} /\ DOMAIN u = 1..Len(u) /\ Len(u) \in Nat
      /\ v = [k \in 1..Len(v) |-> v[k]]
  BY <1>2a, <1>1, <1>2, SeqFacts
<1>4. u[Len(u)] = i[Len(i)] /\ v[Len(u)] = j[Len(j)]
  <2>1. Len(i) \in 1..Len(i) /\ Len(j) \in 1..Len(j)
    BY <1>2a, <1>3
  <2>2. u[Len(o) + Len(i)] = i[Len(i)] /\ v[Len(o) + Len(j)] = j[Len(j)]
    BY <1>1, <1>2, <2>1
  <2> QED BY <1>2a, <1>1, <1>2, <2>2
<1>5. w = [k \in 1..Len(u) |-> IF k = Len(u) THEN j[Len(j)] ELSE u[k]]
  BY <1>3
<1>6. ASSUME NEW k \in 1..Len(u), k # Len(u) PROVE v[k] = u[k]
  <2>1. CASE k \in 1..Len(o)
    BY <1>1, <1>2, <2>1
  <2>2. CASE k \notin 1..Len(o)
    <3>1. PICK q \in 1..Len(i) : k = Len(o) + q /\ q # Len(i)
      <4>1. k - Len(o) \in 1..Len(i) /\ k = Len(o) + (k - Len(o)) /\ k - Len(o) # Len(i)
        BY <1>1, <1>3, <1>6, <2>2
      <4> QED BY <4>1
    <3> QED BY <1>2a, <1>1, <1>2, <3>1
  <2> QED BY <2>1, <2>2
<1>7. \A k \in 1..Len(u) : v[k] = IF k = Len(u) THEN j[Len(j)] ELSE u[k]
  BY <1>4, <1>6
<1>8. v = [k \in 1..Len(u) |-> v[k]]
  <2>1. Len(v) = Len(u)
    BY <1>2a, <1>1, <1>2
  <2> QED BY <1>3, <2>1
<1>9. v = w
  <2> HIDE DEF w
  <2> QED BY <1>5, <1>7, <1>8
<1> QED BY <1>4, <1>9

\* The record of a success: y is what it has of the stop.
LEMMA SuccessRecorded ==
  ASSUME attempt = <<>>, NEW items, Record("Success", items), NEW y,
         reader' => /\ out'[Len(out')].item = "done"
                    /\ y = RecordedDone(out[Len(out)])'
                    /\ items = [out' EXCEPT ![Len(out')] = y]
  PROVE  RecordedIsDelivered'
<1> DEFINE r == [status |-> "Success", items |-> items]
<1>1. attempt' = Append(attempt, r)
  BY DEF Record
<1>2. r.status = "Success" /\ r.items = items
  OBVIOUS
<1> HIDE DEF r
<1>3. Len(attempt') = 1 /\ attempt'[1] = r
  BY <1>1
<1> QED BY <1>2, <1>3 DEF RecordedIsDelivered

LEMMA FailureRecorded ==
  ASSUME attempt = <<>>, NEW items, Record("Failed", items),
         reader' => items = At(out', Are(out', "text"))
  PROVE  RecordedIsDelivered'
<1> DEFINE r == [status |-> "Failed", items |-> items]
<1>1. attempt' = Append(attempt, r)
  BY DEF Record
<1>2. r.status # "Success" /\ r.items = items
  OBVIOUS
<1> HIDE DEF r
<1>3. Len(attempt') = 1 /\ attempt'[1] = r
  BY <1>1
<1> QED BY <1>2, <1>3 DEF RecordedIsDelivered, Are

LEMMA NothingRecorded == ASSUME attempt' = <<>> PROVE RecordedIsDelivered'
BY DEF RecordedIsDelivered

\* An error after the texts that were kept.
LEMMA ErrorRecorded ==
  ASSUME Collecting, reader' = reader, Receives(<<Item("err")>>), Record("Failed", kept)
  PROVE  RecordedIsDelivered'
<1>1. ASSUME reader' PROVE kept = At(out', Are(out', "text"))
  <2>1. kept = out /\ TextsOnly(out) /\ out' = out \o <<Item("err")>>
    BY <1>1 DEF Collecting, Receives
  <2> QED BY <2>1, TextsButError, ErrorFacts
<1> QED BY <1>1, FailureRecorded DEF Collecting

LEMMA FailRecorded ==
  ASSUME Going, NEW recorded \in BOOLEAN, Fail(recorded, kept) PROVE RecordedIsDelivered'
<1>1. /\ Collecting /\ reader' = reader /\ Receives(<<Item("err")>>)
      /\ IF recorded THEN Record("Failed", kept) ELSE attempt' = attempt
  BY GoingFacts DEF Fail
<1>2. CASE recorded
  BY <1>1, <1>2, ErrorRecorded
<1>3. CASE ~recorded
  BY <1>1, <1>3, NothingRecorded DEF Collecting
<1> QED BY <1>2, <1>3

\* Nothing but texts and no text: nothing at all.
LEMMA SilentTexts ==
  ASSUME TextsOnly(out), \A k \in DOMAIN out : out[k].item # "text" PROVE out = <<>>
<1>1. DOMAIN out = 1..Len(out) /\ Len(out) \in Nat /\ (out = <<>> <=> Len(out) = 0)
  BY SeqFacts DEF TextsOnly
<1> QED BY <1>1 DEF TextsOnly

\* The end of the body stands for the stop.
LEMMA EndRecorded == ASSUME Going, EndsWithoutStop, ~Heard' PROVE RecordedIsDelivered'
<1> DEFINE items == IF backend = "ollama" THEN <<DoneItem("end", <<>>)>> ELSE EndItems
<1>1. /\ Collecting /\ reader' = reader /\ kept' = kept \o items
      /\ \/ /\ backend = "ollama" /\ Silent(acc, <<>>)
            /\ Receives(<<Item("err")>>) /\ Record("Failed", <<>>)
         \/ Receives(items) /\ Record("Success", kept')
  BY GoingFacts DEF EndsWithoutStop, Keeps
<1>2. IsSeq(items) /\ Len(items) # 0 /\ items[Len(items)].item = "done"
  <2> DEFINE d == DoneItem("end", <<>>)
  <2>0. d.item = "done"
    BY DEF DoneItem, Item
  <2>1. CASE backend = "ollama"
    <3>1. items = <<d>>
      BY <2>1
    <3> HIDE DEF items, d
    <3> QED BY <2>0, <3>1, SeqOne
  <2>2. CASE backend # "ollama"
    <3>1. items = StopItems(acc.usage, "end", <<>>)
      BY <2>2 DEF EndItems
    <3>2. NoText(items) /\ Len(items) # 0 /\ items[Len(items)] = d
      BY <3>1, StopItemsFacts
    <3> HIDE DEF items, d
    <3> QED BY <2>0, <3>2 DEF NoText
  <2> QED BY <2>1, <2>2
<1> HIDE DEF items
<1>3. CASE /\ Silent(acc, <<>>) /\ Receives(<<Item("err")>>) /\ Record("Failed", <<>>)
  <2>1. ASSUME reader' PROVE <<>> = At(out', Are(out', "text"))
    <3>1. kept = out /\ TextsOnly(out) /\ out' = out \o <<Item("err")>>
      BY <1>1, <1>3, <2>1 DEF Collecting, Receives
    <3>2. out = <<>>
      BY <1>3, <3>1, SilentTexts DEF Silent
    <3> QED BY <3>1, <3>2, TextsButError, ErrorFacts
  <2> QED BY <1>1, <1>3, <2>1, FailureRecorded DEF Collecting
<1>4. CASE Receives(items) /\ Record("Success", kept')
  <2> DEFINE y == items[Len(items)]
  <2>1. ASSUME reader'
        PROVE  /\ out'[Len(out')].item = "done"
               /\ y = RecordedDone(out[Len(out)])'
               /\ kept' = [out' EXCEPT ![Len(out')] = y]
    <3>1. kept' = out \o items /\ out' = out \o items /\ IsSeq(out)
      BY <1>1, <1>4, <2>1 DEF Collecting, Receives, TextsOnly
    <3>2. /\ (out \o items)[Len(out \o items)] = y
          /\ out \o items = [(out \o items) EXCEPT ![Len(out \o items)] = y]
      BY <1>2, <3>1, LastChanged
    <3>3. out'[Len(out')] = y /\ kept' = [out' EXCEPT ![Len(out')] = y]
      BY <3>1, <3>2
    <3> QED BY <1>2, <3>3 DEF RecordedDone
  <2> HIDE DEF y
  <2> QED BY <1>1, <1>4, <2>1, SuccessRecorded DEF Collecting
<1> QED BY <1>1, <1>3, <1>4

\* The frame with the model's stop has been heard.
LEMMA StopComes ==
  ASSUME Going, TakeFrame, pc' = "over", NEW b, b = NextFrame
  PROVE  /\ said' = said /\ Heard' /\ SaidStop' = b.at /\ said[b.at].stop # "no"
<1> DEFINE m == Behind + 1
           a == NextAcc(b)
           items == Items(b, a)
           calls == StopCalls(b, a)
<1>1. /\ CanTake /\ Taken /\ Over(items)
  BY DEF TakeFrame
<1>2. m = Behind + 1
  OBVIOUS
<1>3. /\ IsBackend(backend) /\ Behind \in Nat /\ Served(backend, said)
      /\ IsSeq(said) /\ Len(said) \in Nat /\ DOMAIN said = 1..Len(said)
  BY GoingFacts DEF Going
<1>4. FrameItems(items, b, StopReason(b, calls), calls)
  BY <1>3, ItemsOfFrame
<1> HIDE DEF m, a, items, calls
<1>5. /\ Taking(b, Behind, m) /\ said' = said
      /\ said[m].stop # "no" => arriving' = "none" /\ buf' = <<>> /\ m = Len(said)
  BY <1>1, <1>2, FrameTaken
<1>6. b.at = m
  BY <1>5 DEF Taking
<1>7. said[m].stop # "no"
  BY <1>1, <1>4, <1>6 DEF FrameItems
<1>8. m \in 1..Len(said) /\ \A k \in 1..Len(said) : said[k].stop # "no" <=> k = m
  <2>1. m = Len(said)
    BY <1>5, <1>7
  <2>2. m \in 1..Len(said)
    BY <1>2, <1>3, <2>1
  <2> QED BY <1>3, <1>7, <2>1, <2>2 DEF Served
<1>9. SaidStop = m /\ Stopped
  BY <1>3, <1>8 DEF SaidStop, Stopped
<1>10. SaidStop' = SaidStop /\ (Stopped' <=> Stopped)
  BY <1>5 DEF SaidStop, Stopped
<1> QED BY <1>5, <1>6, <1>7, <1>9, <1>10 DEF Heard

\* The items of the stop, and what is kept of them: they differ in the last.
LEMMA StopKept ==
  ASSUME IsBackend(backend), NEW b, NEW a, said[b.at].stop # "no"
  PROVE  LET items == Items(b, a)
             more == KeptItems(b, a)
             own == LineCalls(said[b.at])
         IN  /\ IsSeq(items) /\ IsSeq(more) /\ Len(items) = Len(more) /\ Len(items) # 0
             /\ \A k \in 1..Len(items) : k # Len(items) => more[k] = items[k]
             /\ items[Len(items)].item = "done"
             /\ more[Len(more)] = IF backend = "ollama"
                                  THEN DoneItem(finalize_stop_reason(said[b.at], own), own)
                                  ELSE items[Len(items)]
<1> DEFINE items == Items(b, a)
           more == KeptItems(b, a)
           own == LineCalls(said[b.at])
           calls == StopCalls(b, a)
           p == TextPart(b)
           x == DoneItem(StopReason(b, calls), calls)
           y == DoneItem(finalize_stop_reason(said[b.at], own), own)
<1>0. SUFFICES
        /\ IsSeq(items) /\ IsSeq(more) /\ Len(items) = Len(more) /\ Len(items) # 0
        /\ \A k \in 1..Len(items) : k # Len(items) => more[k] = items[k]
        /\ items[Len(items)].item = "done"
        /\ more[Len(more)] = IF backend = "ollama" THEN y ELSE items[Len(items)]
  OBVIOUS
<1>1. /\ IsSeq(items) /\ Len(items) # 0 /\ items[Len(items)] = x
      /\ backend # "ollama" => more = items
  <2>1. FrameItems(items, b, StopReason(b, calls), calls) /\ (backend # "ollama" => more = items)
    BY ItemsOfFrame
  <2> HIDE DEF items, calls, more
  <2> QED BY <2>1 DEF FrameItems
<1>2. x.item = "done"
  BY DEF DoneItem, Item
<1>3. CASE backend # "ollama"
  <2>1. items[Len(items)].item = "done"
    <3> HIDE DEF items, more, x
    <3> QED BY <1>1, <1>2
  <2>2. more = items
    BY <1>1, <1>3
  <2> HIDE DEF items, more, x, y
  <2> QED BY <1>1, <1>3, <2>1, <2>2
<1>4. CASE backend = "ollama"
  <2>1. Lines /\ UsageOf(a) = "none"
    BY <1>4 DEF Lines, UsageOf
  <2>2. /\ items = p \o LastPart("none", b, calls)
        /\ more = p \o LastPart("none", b, own)
    BY <1>4, <2>1, ItemsSplit
  <2>3. ASSUME NEW c
        PROVE  LastPart("none", b, c) = <<DoneItem(finalize_stop_reason(said[b.at], c), c)>>
    BY <2>1, NoneBefore DEF LastPart, StopItems, UsageItems
  <2>4. items = p \o <<x>> /\ more = p \o <<y>> /\ IsSeq(p)
    BY <2>1, <2>2, <2>3, TextPartFacts DEF StopReason
  <2> HIDE DEF items, more, p, x, y
  <2>5. /\ IsSeq(<<x>>) /\ Len(<<x>>) = 1 /\ <<x>>[1] = x
        /\ IsSeq(<<y>>) /\ Len(<<y>>) = 1 /\ <<y>>[1] = y
    BY SeqOne
  <2>6. /\ IsSeq(items) /\ Len(items) = Len(p) + 1 /\ (\A k \in 1..Len(p) : items[k] = p[k])
        /\ items[Len(p) + 1] = x
    <3> DEFINE q == <<x>>
    <3>1. IsSeq(q) /\ Len(q) = 1 /\ q[1] = x /\ items = p \o q
      BY <2>4, <2>5
    <3> HIDE DEF q
    <3>2. /\ IsSeq(p \o q) /\ Len(p \o q) = Len(p) + Len(q)
          /\ \A k \in 1..Len(p) : (p \o q)[k] = p[k]
          /\ \A k \in 1..Len(q) : (p \o q)[Len(p) + k] = q[k]
      BY <2>4, <3>1, SeqConcat
    <3> QED BY <3>1, <3>2
  <2>7. /\ IsSeq(more) /\ Len(more) = Len(p) + 1 /\ (\A k \in 1..Len(p) : more[k] = p[k])
        /\ more[Len(p) + 1] = y
    <3> DEFINE q == <<y>>
    <3>1. IsSeq(q) /\ Len(q) = 1 /\ q[1] = y /\ more = p \o q
      BY <2>4, <2>5
    <3> HIDE DEF q
    <3>2. /\ IsSeq(p \o q) /\ Len(p \o q) = Len(p) + Len(q)
          /\ \A k \in 1..Len(p) : (p \o q)[k] = p[k]
          /\ \A k \in 1..Len(q) : (p \o q)[Len(p) + k] = q[k]
      BY <2>4, <3>1, SeqConcat
    <3> QED BY <3>1, <3>2
  <2>8. Len(p) \in Nat
    BY <2>4, SeqFacts
  <2>9. \A k \in 1..Len(items) : k # Len(items) => more[k] = items[k]
    <3>1. \A k \in 1..Len(items) : k # Len(items) => k \in 1..Len(p)
      BY <2>6, <2>8
    <3> QED BY <2>6, <2>7, <3>1
  <2>10. more[Len(more)] = y /\ Len(items) = Len(more)
    BY <2>6, <2>7
  <2>11. items[Len(items)].item = "done" /\ IsSeq(items) /\ IsSeq(more) /\ Len(items) # 0
    BY <1>1, <1>2, <2>7
  <2> QED BY <1>4, <2>9, <2>10, <2>11
<1> QED BY <1>3, <1>4

LEMMA StopRecorded == ASSUME Going, TakeFrame, pc' = "over" PROVE RecordedIsDelivered'
<1> DEFINE b == NextFrame
           a == NextAcc(b)
           items == Items(b, a)
           more == KeptItems(b, a)
           own == LineCalls(said[b.at])
<1>1. /\ backend' = backend /\ reader' = reader /\ kept' = kept \o more /\ Finishes(a, items)
  BY DEF TakeFrame, Keeps
<1>2. IsBackend(backend) /\ Collecting
  BY GoingFacts
<1>3. said' = said /\ Heard' /\ SaidStop' = b.at /\ said[b.at].stop # "no"
  BY StopComes
<1>4. /\ IsSeq(items) /\ IsSeq(more) /\ Len(items) = Len(more) /\ Len(items) # 0
      /\ \A k \in 1..Len(items) : k # Len(items) => more[k] = items[k]
      /\ items[Len(items)].item = "done"
      /\ more[Len(more)] = IF backend = "ollama"
                           THEN DoneItem(finalize_stop_reason(said[b.at], own), own)
                           ELSE items[Len(items)]
  BY <1>2, <1>3, StopKept
<1> DEFINE y == more[Len(more)]
<1>5. \A x : x = out'[Len(out')] /\ x = items[Len(items)] => y = RecordedDone(out[Len(out)])'
  BY <1>1, <1>3, <1>4 DEF RecordedDone
<1> HIDE DEF b, a, items, more, own, y
<1>6. CASE Lines /\ Silent(a, items)
  <2> DEFINE sent == IF backend = "ollama" THEN items ELSE <<>>
             e == <<Item("err")>>
  <2>1. /\ out' = (IF reader THEN (out \o sent) \o e ELSE out)
        /\ Record("Failed", <<>>)
    BY <1>1, <1>6 DEF Finishes
  <2>2. ASSUME reader' PROVE <<>> = At(out', Are(out', "text"))
    <3>1. out' = (out \o sent) \o e /\ kept = out /\ TextsOnly(out)
      BY <1>1, <1>2, <2>1, <2>2 DEF Collecting
    <3>2. out = <<>>
      BY <1>6, <3>1, SilentTexts DEF Silent
    <3>3. NoText(sent) /\ NoText(e) /\ IsSeq(sent)
      <4>1. NoText(items) /\ NoText(<<>>)
        <5>1. DOMAIN items = 1..Len(items)
          BY <1>4, SeqFacts
        <5>2. \A k \in DOMAIN items : items[k].item # "text"
          BY <1>6 DEF Silent
        <5> QED BY <1>4, <5>1, <5>2, ErrorFacts DEF NoText
      <4>2. NoText(sent) /\ NoText(e)
        BY <4>1, ErrorFacts
      <4> HIDE DEF sent, e
      <4> QED BY <4>2 DEF NoText
    <3> HIDE DEF sent, e
    <3>4. out' = sent \o e
      BY <3>1, <3>2, <3>3, NothingAdded
    <3>5. Are(out', "text") = {}
      <4>1. IsSeq(sent) /\ IsSeq(e)
        BY <3>3 DEF NoText
      <4>2. /\ IsSeq(sent \o e)
            /\ \A k \in 1..Len(sent \o e) :
                 \/ k \in 1..Len(sent) /\ (sent \o e)[k] = sent[k]
                 \/ k - Len(sent) \in 1..Len(e) /\ (sent \o e)[k] = e[k - Len(sent)]
        BY <4>1, ConcatFacts
      <4>3. DOMAIN (sent \o e) = 1..Len(sent \o e)
        BY <4>2, SeqFacts
      <4> QED BY <3>3, <3>4, <4>2, <4>3 DEF NoText, Are
    <3> QED BY <3>5, NoneOfThem
  <2> QED BY <1>2, <2>1, <2>2, FailureRecorded DEF Collecting
<1>7. CASE ~(Lines /\ Silent(a, items))
  <2>1. Receives(items) /\ Record("Success", kept')
    BY <1>1, <1>7 DEF Finishes
  <2>2. ASSUME reader'
        PROVE  /\ out'[Len(out')].item = "done"
               /\ y = RecordedDone(out[Len(out)])'
               /\ kept' = [out' EXCEPT ![Len(out')] = y]
    <3>1. kept' = out \o more /\ out' = out \o items /\ IsSeq(out)
      BY <1>1, <1>2, <2>1, <2>2 DEF Collecting, Receives, TextsOnly
    <3>2. /\ (out \o items)[Len(out \o items)] = items[Len(items)]
          /\ out \o more = [(out \o items) EXCEPT ![Len(out \o items)] = more[Len(more)]]
      BY <1>4, <3>1, LastChanged
    <3>3. out'[Len(out')] = items[Len(items)] /\ kept' = [out' EXCEPT ![Len(out')] = y]
      BY <3>1, <3>2 DEF y
    <3> QED BY <1>4, <1>5, <3>3
  <2> QED BY <1>2, <2>1, <2>2, SuccessRecorded DEF Collecting
<1> QED BY <1>6, <1>7

LEMMA DeliverStep == ASSUME DeliverInv, [StreamNext]_streamVars PROVE DeliverInv'
<1>1. RecordInv'
  BY RecordStep DEF DeliverInv
<1>2. ASSUME pc' = "over", DeliveredAsSaid', RecordedIsDelivered' PROVE DeliverInv'
  BY <1>1, <1>2 DEF DeliverInv
<1>3. ASSUME pc' # "over", Served(backend, said)' /\ Tasked' PROVE DeliverInv'
  BY <1>1, <1>3 DEF DeliverInv
<1>4. CASE UNCHANGED streamVars
  <2>1. UNCHANGED <<backend, said, arriving, cut, splits, buf, pc, acc, reader, out>>
    BY <1>4 DEF streamVars
  <2>2. CASE pc = "over"
    <3>1. DeliveredAsSaid /\ RecordedIsDelivered
      BY <2>2 DEF DeliverInv
    <3>2. IsBackend(backend)
      BY DEF DeliverInv, RecordInv
    <3>3. /\ SaidCalls' = SaidCalls /\ Opened' = Opened /\ SaidStop' = SaidStop
          /\ SaidTexts' = SaidTexts /\ (Stopped' <=> Stopped)
          /\ \A i : HalfSaid(i)' <=> HalfSaid(i)
          /\ \A x, y : SameCalls(x, y)' <=> SameFor(backend, x, y)
      BY <2>1, <3>2, SaidSame
    <3>4. \A x, y : SameCalls(x, y)' <=> SameCalls(x, y)
      BY <3>2, <3>3, LoopKinds DEF SameCalls, SameFor
    <3>5. ReceivedTexts' = ReceivedTexts /\ Dones' = Dones /\ (Heard' <=> Heard)
      BY <2>1, <3>3 DEF ReceivedTexts, Dones, Heard
    <3>6. said' = said /\ out' = out
      BY <2>1
    <3>7. (CutAtLength' <=> CutAtLength) /\ DueCalls' = DueCalls
      BY <2>1, <3>3, <3>6 DEF CutAtLength, DueCalls
    <3>8. DeliveredAsSaid'
      BY <3>1, <3>3, <3>4, <3>5, <3>6, <3>7 DEF DeliveredAsSaid
    <3>9. RecordedDone(out[Len(out)])' = RecordedDone(out[Len(out)])
      BY <2>1, <3>3, <3>5, <3>6 DEF RecordedDone
    <3>10. RecordedIsDelivered'
      <4>1. UNCHANGED <<pc, reader, attempt, out>>
        BY <1>4 DEF streamVars
      <4> QED BY <3>1, <3>9, <4>1 DEF RecordedIsDelivered
    <3> QED BY <1>2, <2>1, <2>2, <3>8, <3>10
  <2>3. CASE pc # "over"
    <3>1. Going
      BY <2>3 DEF DeliverInv, Going
    <3>2. UNCHANGED <<backend, server, buf, acc, out>> /\ (reader' => reader)
      <4>1. reader' = reader
        BY <2>1
      <4>2. UNCHANGED <<backend, server, buf, acc, out>>
        BY <2>1 DEF server
      <4> QED BY <4>1, <4>2, Zenon
    <3> QED BY <1>3, <2>1, <2>3, <3>1, <3>2, NothingComes
  <2> QED BY <2>2, <2>3
<1>5. ASSUME pc # "over" PROVE Going
  BY <1>5 DEF DeliverInv, Going
<1>6. CASE FrameArrives
  BY <1>3, <1>5, <1>6, FrameComes DEF FrameArrives
<1>7. CASE RestArrives
  BY <1>3, <1>5, <1>7, RestComes DEF RestArrives
<1>8. CASE BodyEnds \/ ServerCloses \/ ReaderLeaves
  <2>1. pc # "over" /\ pc' = pc /\ UNCHANGED <<backend, server, buf, acc, out>>
    BY <1>8 DEF BodyEnds, ServerCloses, ReaderLeaves
  <2>2. reader' = reader \/ reader' = FALSE
    BY <1>8 DEF BodyEnds, ServerCloses, ReaderLeaves
  <2>3. reader' => reader
    BY <2>2, Zenon
  <2> QED BY <1>3, <1>5, <2>1, <2>3, NothingComes
<1>9. CASE TakeFrame
  <2>1. pc # "over"
    BY <1>9 DEF TakeFrame, CanTake
  <2> QED BY <1>2, <1>3, <1>5, <1>9, <2>1, FrameKept, StopTaken, StopRecorded
<1>10. CASE TakeError
  <2>1. pc # "over" /\ pc' = "over"
    BY <1>10 DEF TakeError, CanTake
  <2>2. RecordedIsDelivered'
    <3>1. Collecting /\ reader' = reader /\ Receives(<<Item("err")>>) /\ Record("Failed", kept)
      BY <1>5, <1>10, <2>1, GoingFacts DEF TakeError
    <3> QED BY <3>1, ErrorRecorded
  <2> QED BY <1>2, <1>5, <1>10, <2>1, <2>2, ErrorTaken
<1>11. CASE TakeComment
  <2>1. pc # "over" /\ pc' = "over"
    BY <1>11 DEF TakeComment, CanTake, EndsWithoutStop
  <2>2. Going /\ EndsWithoutStop /\ ~Heard'
    BY <1>5, <1>11, <2>1, CommentUnheard DEF TakeComment
  <2> QED BY <1>2, <1>11, <2>1, <2>2, CommentTaken, EndRecorded
<1>12. CASE SendFails
  <2>1. pc # "over" /\ pc' = "over"
    BY <1>12 DEF SendFails, CanTake
  <2>2. RecordedIsDelivered'
    <3>1. Collecting /\ attempt' = attempt
      BY <1>5, <1>12, <2>1, GoingFacts DEF SendFails
    <3> QED BY <3>1, NothingRecorded DEF Collecting
  <2> QED BY <1>2, <1>5, <1>12, <2>1, <2>2, SendFailed
<1>13. CASE EndOfBody
  <2>1. pc # "over" /\ pc' = "over"
    BY <1>13 DEF EndOfBody, EndsWithoutStop
  <2>2. Going /\ EndsWithoutStop /\ ~Heard'
    BY <1>5, <1>13, <2>1, BodyUnheard DEF EndOfBody
  <2> QED BY <1>2, <1>13, <2>1, <2>2, BodyOver, EndRecorded
<1>14. CASE HalfBody \/ BodyBreaks \/ TimesOut
  <2>1. pc # "over" /\ pc' = "over"
    BY <1>14 DEF HalfBody, BodyBreaks, TimesOut, Fail
  <2>2. \E recorded \in BOOLEAN : Fail(recorded, kept)
    BY <1>14 DEF HalfBody, BodyBreaks, TimesOut
  <2> QED BY <1>2, <1>5, <2>1, <2>2, Failed, FailRecorded
<1> QED BY <1>4, <1>6, <1>7, <1>8, <1>9, <1>10, <1>11, <1>12, <1>13, <1>14 DEF StreamNext

THEOREM DeliverInductive == StreamSpec => []DeliverInv
<1>1. StreamInit => DeliverInv
  <2> SUFFICES ASSUME StreamInit PROVE DeliverInv
    OBVIOUS
  <2>1. /\ backend \in Backends /\ said = <<>> /\ arriving = "none" /\ cut = FALSE
        /\ buf = <<>> /\ pc = "first" /\ acc = NewAcc /\ reader = TRUE
        /\ out = <<>> /\ kept = <<>> /\ attempt = <<>>
    BY DEF StreamInit
  <2>2. RecordInv
    BY <2>1, ProviderStreamAssumption, SeqNone DEF RecordInv, Collecting, IsBackend, TextsOnly
  <2>3. \A kind, i : Parts(said, kind, i, 0) = {}
    BY DEF Parts
  <2>4. \A i : PieceCount(said, i, 0) = 0
    BY <2>3, FS_EmptySet DEF PieceCount
  <2>5. Len(said) = 0 /\ Len(buf) = 0 /\ IsSeq(said) /\ IsSeq(buf)
    BY <2>1, SeqNone
  <2>6. MaxToolCalls \in Nat
    BY ProviderStreamAssumption
  <2>7. OpenedIn(said) = 1..0
    BY <2>3, <2>5 DEF OpenedIn
  <2>8. \A i \in CallIds : CallServed(said, i)
    BY <2>3, <2>4, <2>5 DEF CallServed
  <2>9. EventsServed(backend, said)
    BY <2>5, <2>6, <2>7, <2>8 DEF EventsServed
  <2>10. LinesServed(backend, said)
    BY <2>5 DEF LinesServed
  <2>11. Served(backend, said)
    BY <2>5, <2>9, <2>10 DEF Served
  <2>12. Behind = 0
    BY <2>1, <2>5 DEF Behind
  <2>13. Accumulated(backend, acc, said, 0)
    <3>1. acc \in Accs({acc.pending})
      BY <2>1 DEF NewAcc, Accs, Builds, Outcomes
    <3>2. ASSUME NEW i \in CallIds
          PROVE  Knows(backend, acc.builds[i], acc.finished[i], said, i, 0)
      <4>1. /\ acc.builds[i].open = FALSE /\ acc.builds[i].pieces = <<>>
            /\ acc.finished[i] = "no"
        BY <2>1 DEF NewAcc
      <4>2. Holds(backend, acc.builds[i].pieces, said, i, 0)
        BY <2>4, <4>1, SeqNone DEF Holds
      <4> QED BY <2>3, <4>1, <4>2 DEF Knows
    <3>3. acc.pending = <<>>
      BY <2>1 DEF NewAcc
    <3> QED BY <3>1, <3>2, <3>3 DEF Accumulated
  <2>14. Queue(backend, buf, 0)
    BY <2>5 DEF Queue
  <2>15. Positions(out) = Told(said, 0)
    <3>1. Positions(out) = <<>>
      BY <2>1, SeqNone, PositionsFacts, SeqFacts
    <3>2. TextsAt(said, 0) = {}
      BY DEF TextsAt
    <3>3. IsSeq(Told(said, 0)) /\ Len(Told(said, 0)) = Cardinality(TextsAt(said, 0))
      BY ToldFacts
    <3>4. Told(said, 0) = <<>>
      BY <3>2, <3>3, FS_EmptySet, SeqFacts
    <3> QED BY <3>1, <3>4
  <2>16. Tasked
    <3>1. cut \in BOOLEAN /\ (cut => LossyLoop(backend))
      BY <2>1, Zenon
    <3>2. /\ \A k \in 1..0 : said[k].stop = "no"
          /\ \E n \in 0..0 : Positions(out) = Told(said, n)
      BY <2>15
    <3> QED BY <2>1, <2>12, <2>13, <2>14, <2>15, <3>1, <3>2 DEF Tasked
  <2> QED BY <2>1, <2>2, <2>11, <2>16 DEF DeliverInv
<1>2. DeliverInv /\ [StreamNext]_streamVars => DeliverInv'
  BY DeliverStep
<1> QED BY <1>1, <1>2, PTL DEF StreamSpec

LEMMA GoingIsDelivered == ASSUME Going PROVE DeliveredAsSaid
<1>1. /\ IsSeq(said) /\ TextsOnly(out) /\ Behind \in Nat /\ Behind <= Len(said)
      /\ Len(said) \in Nat
  BY GoingFacts DEF Collecting
<1>2. PICK m \in 0..Behind : Positions(out) = Told(said, m)
  BY DEF Going, Tasked
<1>3. ReceivedTexts = Told(said, m) /\ m \in Nat /\ m <= Len(said)
  BY <1>1, <1>2, TextsAll DEF ReceivedTexts
<1>4. ReceivedTexts = SubSeq(SaidTexts, 1, Len(ReceivedTexts))
  BY <1>1, <1>3, ToldAll
<1>5. Dones = {}
  BY <1>1, SeqFacts DEF Dones, TextsOnly
<1> QED BY <1>4, <1>5 DEF DeliveredAsSaid

\* The agent loop gets the texts of the answer in order, without a gap, and at the
\* model's stop, cut at its length or not, the calls that are due, each as it was
\* said: for every backend and any number of calls, frames and Ollama call lines.
THEOREM AlwaysDeliveredAsSaid == StreamSpec => []DeliveredAsSaid
<1>1. DeliverInv => DeliveredAsSaid
  BY GoingIsDelivered DEF DeliverInv, Going
<1> QED BY <1>1, DeliverInductive, PTL

\* What is journaled of an attempt is what the agent loop was given of it, each
\* item of it, but that Ollama's stop has the calls of its own line only.
THEOREM RecordsAreDelivered == StreamSpec => []RecordedIsDelivered
<1>1. DeliverInv => RecordedIsDelivered
  BY DEF DeliverInv, RecordInv, Collecting, RecordedIsDelivered
<1> QED BY <1>1, DeliverInductive, PTL

=============================================================================
