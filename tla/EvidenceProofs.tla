--------------------------- MODULE EvidenceProofs ---------------------------
(***************************************************************************)
(* Machine-checked proofs about what the verifiers promise, for histories  *)
(* of any length, any contents and any number of edits, and about what the *)
(* bundle commands leave, for any number of commands, faults and kills.    *)
(***************************************************************************)
EXTENDS BundleCommands, JournalVerify, SequenceTheorems, FiniteSetTheorems,
        WellFoundedInduction, TLAPS

(***************************************************************************)
(* Histories as values.                                                    *)
(***************************************************************************)
IsEvent(e) ==
  e = [parents |-> e.parents, kind |-> e.kind, emitted_at |-> e.emitted_at,
       sequence |-> e.sequence]

IsStored(x) == x = [hash |-> x.hash, event |-> x.event] /\ IsEvent(x.event)

IsHistory(h) == IsSeq(h) /\ \A i \in 1..Len(h) : IsStored(h[i])

\* Each event hashes to its stored hash, has its number and names its predecessor.
LinkedAt(h, i) ==
  /\ h[i].hash = content_hash(h[i].event)
  /\ h[i].event.sequence = i - 1
  /\ h[i].event.parents = IF i = 1 THEN None ELSE Some(h[i-1].hash)

Linked(h) == \A i \in 1..Len(h) : LinkedAt(h, i)

LEMMA SeqFacts ==
  ASSUME NEW s, IsSeq(s)
  PROVE  /\ Len(s) \in Nat /\ DOMAIN s = 1..Len(s)
         /\ s = [i \in 1..Len(s) |-> s[i]]
         /\ (s = <<>>) <=> (Len(s) = 0)
<1> DEFINE S == {s[i] : i \in DOMAIN s}
<1>1. s \in Seq(S)
  BY DEF IsSeq
<1> HIDE DEF S
<1> QED BY <1>1

LEMMA SeqMade ==
  ASSUME NEW n \in Nat, NEW T, NEW f \in [1..n -> T]
  PROVE  IsSeq(f) /\ Len(f) = n /\ DOMAIN f = 1..n
<1> DEFINE S == {f[i] : i \in DOMAIN f}
<1>1. DOMAIN f = 1..n /\ f = [i \in 1..n |-> f[i]]
  OBVIOUS
<1>2. \A i \in 1..n : f[i] \in S
  BY <1>1
<1> HIDE DEF S
<1>3. f \in [1..n -> S]
  BY <1>1, <1>2
<1>4. f \in Seq(S) /\ Len(f) = n
  BY <1>1, <1>3
<1> QED BY <1>1, <1>4 DEF S, IsSeq

LEMMA SeqAppend ==
  ASSUME NEW s, IsSeq(s), NEW x
  PROVE  /\ IsSeq(Append(s, x)) /\ Len(Append(s, x)) = Len(s) + 1
         /\ \A i \in 1..Len(s) : Append(s, x)[i] = s[i]
         /\ Append(s, x)[Len(s) + 1] = x
<1> DEFINE T == {s[i] : i \in DOMAIN s} \cup {x}
           t == Append(s, x)
<1>1. s \in Seq(T) /\ x \in T
  BY DEF IsSeq
<1> HIDE DEF T
<1>2. /\ t \in Seq(T) /\ Len(t) = Len(s) + 1 /\ Len(s) \in Nat
      /\ \A i \in 1..Len(s) : t[i] = s[i]
      /\ t[Len(s) + 1] = x
  BY <1>1, AppendProperties
<1> HIDE DEF t
<1>3. t \in [1..(Len(s) + 1) -> T] /\ Len(s) + 1 \in Nat
  BY <1>2
<1>4. IsSeq(t)
  BY <1>3, SeqMade
<1> QED BY <1>2, <1>4 DEF t

LEMMA PrefixStep ==
  ASSUME NEW h, IsSeq(h), NEW i \in 1..Len(h), NEW x
  PROVE  /\ (SubSeq(h, 1, i) = Append(SubSeq(h, 1, i-1), x)) <=> h[i] = x
         /\ Len(SubSeq(h, 1, i-1)) = i - 1
         /\ (SubSeq(h, 1, i-1) = <<>>) <=> (i = 1)
         /\ i > 1 => SubSeq(h, 1, i-1)[i-1] = h[i-1]
<1> DEFINE p == SubSeq(h, 1, i-1)
           q == SubSeq(h, 1, i)
           S == {h[k] : k \in DOMAIN h}
           T == S \cup {x}
<1>0. h \in Seq(S)
  BY DEF IsSeq
<1> HIDE DEF S
<1>1. /\ p \in Seq(S) /\ Len(p) = i - 1 /\ \A k \in 1..(i-1) : p[k] = h[k]
      /\ q \in Seq(S) /\ Len(q) = i /\ \A k \in 1..i : q[k] = h[k]
  BY <1>0, SubSeqProperties
<1>2. p \in Seq(T) /\ q \in Seq(T) /\ x \in T
  BY <1>1
<1> HIDE DEF p, q, T
<1>3. /\ Append(p, x) \in Seq(T) /\ Len(Append(p, x)) = i
      /\ \A k \in 1..(i-1) : Append(p, x)[k] = p[k]
      /\ Append(p, x)[i] = x
  BY <1>1, <1>2, AppendProperties
<1>4. (q = Append(p, x)) <=> \A k \in 1..i : q[k] = Append(p, x)[k]
  BY <1>1, <1>2, <1>3, SeqEqual
<1>5. (\A k \in 1..i : q[k] = Append(p, x)[k]) <=> h[i] = x
  BY <1>1, <1>3
<1>6. (p = <<>>) <=> (i = 1)
  BY <1>1
<1>7. i > 1 => p[i-1] = h[i-1]
  BY <1>1
<1> QED BY <1>1, <1>4, <1>5, <1>6, <1>7 DEF p, q

(***************************************************************************)
(* The verifier against the appends.                                       *)
(***************************************************************************)
LEMMA CleanUnfolded ==
  ASSUME NEW h, NEW row, NEW store
  PROVE  is_clean(verify_history_against_store(h, row, store)) <=>
           /\ missing_objects(h, store) = {} /\ object_hash_mismatches(h, store) = {}
           /\ hash_mismatches(h) = {} /\ broken_parent_links(h) = {} /\ sequence_violations(h) = {}
           /\ ~head_mismatch(h, row)
           /\ Cardinality(SessionEnds(h)) = 1 /\ session_end_is_terminal(h)
BY DEF is_clean, verify_history_against_store

LEMMA CleanMeans ==
  ASSUME NEW h, IsHistory(h), NEW row
  PROVE  is_clean(verify_history_against_store(h, row, objects)) <=>
           /\ Linked(h) /\ ObjectsIntact(h) /\ SessionEnds(h) = {Len(h)}
           /\ h # <<>> /\ h[1].event.kind.tag = "SessionStart"
           /\ row \in {None, Some(h[Len(h)].hash)}
<1> DEFINE n == Len(h)
<1>1. n \in Nat /\ DOMAIN h = 1..n /\ ((h = <<>>) <=> (n = 0))
  BY SeqFacts DEF IsHistory
<1>2. (missing_objects(h, objects) = {} /\ object_hash_mismatches(h, objects) = {})
        <=> ObjectsIntact(h)
  BY DEF missing_objects, object_hash_mismatches, ObjectsIntact
<1>3. /\ hash_mismatches(h) = {} /\ broken_parent_links(h) = {} /\ sequence_violations(h) = {}
      /\ n > 0
      <=> Linked(h) /\ n > 0 /\ h[1].event.kind.tag = "SessionStart"
  BY <1>1 DEF hash_mismatches, broken_parent_links, sequence_violations, Linked, LinkedAt
<1>4. session_end_is_terminal(h) => Cardinality(SessionEnds(h)) = 1 /\ n > 0
  <2>1. ASSUME SessionEnds(h) = {n} PROVE Cardinality(SessionEnds(h)) = 1 /\ n > 0
    <3>1. n \in DOMAIN h
      BY <2>1 DEF SessionEnds
    <3>2. Cardinality({n}) = 1
      BY FS_Singleton
    <3> QED BY <1>1, <2>1, <3>1, <3>2
  <2> QED BY <2>1 DEF session_end_is_terminal
<1>5. n > 0 => (~head_mismatch(h, row) <=> row \in {None, Some(h[n].hash)})
  BY <1>1 DEF head_mismatch
<1>6. is_clean(verify_history_against_store(h, row, objects)) <=>
        /\ missing_objects(h, objects) = {} /\ object_hash_mismatches(h, objects) = {}
        /\ hash_mismatches(h) = {} /\ broken_parent_links(h) = {} /\ sequence_violations(h) = {}
        /\ ~head_mismatch(h, row)
        /\ Cardinality(SessionEnds(h)) = 1 /\ session_end_is_terminal(h)
  BY CleanUnfolded
<1> HIDE DEF n
<1>7. session_end_is_terminal(h) <=> SessionEnds(h) = {n}
  BY DEF session_end_is_terminal, n
<1>8. n > 0 <=> h # <<>>
  BY <1>1
<1> QED
  BY <1>2, <1>3, <1>4, <1>5, <1>6, <1>7, <1>8 DEF n

LEMMA AppendedMeans ==
  ASSUME NEW h, IsHistory(h)
  PROVE  Appended(h) <=>
           /\ Linked(h) /\ SessionEnds(h) = {Len(h)}
           /\ h # <<>> /\ h[1].event.kind.tag = "SessionStart"
<1>1. Len(h) \in Nat /\ DOMAIN h = 1..Len(h)
  BY SeqFacts DEF IsHistory
<1>2. ASSUME NEW i \in 1..Len(h)
      PROVE  (SubSeq(h, 1, i) = AppendTo(SubSeq(h, 1, i-1), h[i].event.kind,
                                         h[i].event.emitted_at)) <=> LinkedAt(h, i)
  <2> DEFINE p == SubSeq(h, 1, i-1)
             parents == IF p = <<>> THEN None ELSE Some(p[Len(p)].hash)
             e == h[i].event
             x == StoredEvent(Event(parents, e.kind, e.emitted_at, Len(p)))
  <2>1. /\ (SubSeq(h, 1, i) = Append(p, x)) <=> h[i] = x
        /\ Len(p) = i - 1 /\ ((p = <<>>) <=> (i = 1)) /\ (i > 1 => p[i-1] = h[i-1])
    <3>1. IsSeq(h)
      BY DEF IsHistory
    <3> HIDE DEF x
    <3>2. \A y : (SubSeq(h, 1, i) = Append(SubSeq(h, 1, i-1), y)) <=> h[i] = y
      BY <3>1, PrefixStep
    <3>3. /\ Len(SubSeq(h, 1, i-1)) = i - 1
          /\ (SubSeq(h, 1, i-1) = <<>>) <=> (i = 1)
          /\ i > 1 => SubSeq(h, 1, i-1)[i-1] = h[i-1]
      BY <3>1, PrefixStep
    <3> QED BY <3>2, <3>3
  <2>2. AppendTo(p, e.kind, e.emitted_at) = Append(p, x)
    BY DEF AppendTo
  <2>3. parents = IF i = 1 THEN None ELSE Some(h[i-1].hash)
    BY <2>1, <1>1
  <2> HIDE DEF parents, p
  <2>4. IsStored(h[i])
    BY DEF IsHistory
  <2>5. (h[i] = x) <=> h[i].hash = content_hash(e)
                       /\ e = Event(parents, e.kind, e.emitted_at, Len(p))
    BY <2>4 DEF StoredEvent, IsStored
  <2>6. (e = Event(parents, e.kind, e.emitted_at, Len(p))) <=>
          e.parents = parents /\ e.sequence = Len(p)
    BY <2>4 DEF Event, IsStored, IsEvent
  <2> QED BY <2>1, <2>2, <2>3, <2>5, <2>6 DEF LinkedAt, p
<1> QED BY <1>1, <1>2 DEF Appended, Linked

LEMMA CleanEquivalence == IsHistory(history) => CleanIffAppended
BY CleanMeans, AppendedMeans DEF CleanIffAppended

(***************************************************************************)
(* What every behaviour of JournalVerify keeps: both histories are made of *)
(* events with known kinds, and the one as written is linked.              *)
(***************************************************************************)
Kinds == {Kind(f, b) : f \in Forms, b \in Bytes}

IsKnown(x) == IsStored(x) /\ x.event.kind \in Kinds
AllKnown(h) == \A i \in 1..Len(h) : IsKnown(h[i])

VerifyInv ==
  /\ edits \in Nat
  /\ IsSeq(written) /\ AllKnown(written) /\ Linked(written)
  /\ IsSeq(history) /\ AllKnown(history)
  /\ edits = 0 => history = written

LEMMA StoredKnown ==
  ASSUME NEW e, IsEvent(e), e.kind \in Kinds
  PROVE  IsKnown(StoredEvent(e)) /\ StoredEvent(e).event = e
                                 /\ StoredEvent(e).hash = content_hash(e)
BY DEF IsKnown, IsStored, StoredEvent

LEMMA AppendToKeeps ==
  ASSUME NEW h, IsSeq(h), AllKnown(h), NEW kind \in Kinds, NEW now
  PROVE  /\ IsSeq(AppendTo(h, kind, now)) /\ AllKnown(AppendTo(h, kind, now))
         /\ Linked(h) => Linked(AppendTo(h, kind, now))
<1> DEFINE parents == IF h = <<>> THEN None ELSE Some(h[Len(h)].hash)
           e == Event(parents, kind, now, Len(h))
           x == StoredEvent(e)
           t == Append(h, x)
<1>1. AppendTo(h, kind, now) = t
  BY DEF AppendTo
<1>2. Len(h) \in Nat /\ ((h = <<>>) <=> (Len(h) = 0))
  BY SeqFacts
<1>3. IsEvent(e) /\ e.kind = kind /\ e.sequence = Len(h) /\ e.parents = parents
  BY DEF Event, IsEvent
<1> HIDE DEF e
<1>4. IsKnown(x) /\ x.event = e /\ x.hash = content_hash(e)
  BY <1>3, StoredKnown
<1> HIDE DEF x
<1>5. /\ IsSeq(t) /\ Len(t) = Len(h) + 1 /\ t[Len(h) + 1] = x
      /\ \A i \in 1..Len(h) : t[i] = h[i]
  BY SeqAppend
<1> HIDE DEF t
<1>6. AllKnown(t)
  BY <1>2, <1>4, <1>5 DEF AllKnown
<1>7. ASSUME Linked(h) PROVE Linked(t)
  <2>1. ASSUME NEW i \in 1..Len(h) PROVE LinkedAt(t, i)
    BY <1>2, <1>5, <1>7, <2>1 DEF Linked, LinkedAt
  <2>2. LinkedAt(t, Len(h) + 1)
    <3>1. CASE Len(h) = 0
      BY <1>2, <1>3, <1>4, <1>5, <3>1 DEF LinkedAt
    <3>2. CASE Len(h) # 0
      <4>1. t[Len(h)] = h[Len(h)] /\ parents = Some(h[Len(h)].hash)
        BY <1>2, <1>5, <3>2
      <4>2. Len(h) + 1 # 1 /\ Len(h) + 1 - 1 = Len(h)
        BY <1>2, <3>2
      <4> QED BY <1>2, <1>3, <1>4, <1>5, <4>1, <4>2 DEF LinkedAt
    <3> QED BY <3>1, <3>2
  <2>3. \A i \in 1..(Len(h) + 1) : i \in 1..Len(h) \/ i = Len(h) + 1
    BY <1>2
  <2> QED BY <1>5, <2>1, <2>2, <2>3 DEF Linked
<1> QED BY <1>1, <1>5, <1>6, <1>7

\* Known events in any order.
LEMMA KnownMade ==
  ASSUME NEW n \in Nat, NEW T, \A x \in T : IsKnown(x), NEW f \in [1..n -> T]
  PROVE  IsSeq(f) /\ AllKnown(f)
<1>1. IsSeq(f) /\ Len(f) = n
  BY SeqMade
<1> QED BY <1>1 DEF AllKnown

LEMMA HistoryEdits ==
  ASSUME VerifyInv,
         LoseEvent \/ SwapEvents \/ EditEvent \/ AddEvent
  PROVE  IsSeq(history') /\ AllKnown(history')
<1> DEFINE n == Len(history)
           T == {history[i] : i \in 1..n}
<1>1. /\ IsSeq(history) /\ AllKnown(history)
      /\ n \in Nat /\ DOMAIN history = 1..n /\ history = [i \in 1..n |-> history[i]]
  BY SeqFacts DEF VerifyInv
<1>2. \A x \in T : IsKnown(x)
  BY <1>1 DEF AllKnown
<1>3. history \in [1..n -> T]
  BY <1>1
<1> HIDE DEF T, n
<1>4. CASE LoseEvent
  <2>1. PICK i \in 1..n :
          history' = [k \in 1..(n - 1) |-> history[IF k < i THEN k ELSE k + 1]]
    BY <1>1, <1>4 DEF LoseEvent, n
  <2>2. n - 1 \in Nat /\ history' \in [1..(n - 1) -> T]
    BY <1>1, <1>3, <2>1
  <2> QED BY <1>2, <2>2, KnownMade
<1>5. CASE SwapEvents
  <2>1. PICK i, k \in 1..n : history' = [history EXCEPT ![i] = history[k], ![k] = history[i]]
    BY <1>1, <1>5 DEF SwapEvents
  <2>2. history' \in [1..n -> T]
    BY <1>3, <2>1
  <2> QED BY <1>1, <1>2, <2>2, KnownMade
<1>6. CASE EditEvent
  <2>1. PICK i \in DOMAIN history, rehash \in BOOLEAN :
          \E e \in EditsOf(history[i].event) :
            history' = [history EXCEPT ![i] = IF rehash THEN StoredEvent(e)
                                              ELSE [hash |-> history[i].hash, event |-> e]]
    BY <1>6 DEF EditEvent
  <2> DEFINE old == history[i].event
             x(e) == IF rehash THEN StoredEvent(e) ELSE [hash |-> history[i].hash, event |-> e]
  <2>e. PICK e \in EditsOf(old) : history' = [history EXCEPT ![i] = x(e)]
    BY <2>1
  <2>i. i \in 1..n
    BY <1>1
  <2>2. IsStored(history[i]) /\ IsEvent(old) /\ old.kind \in Kinds
    BY <1>1, <2>i DEF AllKnown, IsKnown, IsStored, n
  <2>3. IsEvent(e) /\ e.kind \in Kinds
    <3>1. CASE e \in {[old EXCEPT !.kind = Kind(f, b)] : f \in Forms, b \in Bytes}
      BY <2>2, <3>1 DEF IsEvent, Kinds
    <3>2. CASE e \in {[old EXCEPT !.emitted_at = now] : now \in Instants}
      BY <2>2, <3>2 DEF IsEvent
    <3>3. CASE e \in {[old EXCEPT !.sequence = q] : q \in 0..MaxEvents}
      BY <2>2, <3>3 DEF IsEvent
    <3>4. CASE e \in {[old EXCEPT !.parents = p] :
                       p \in {None} \cup {Some(history[k].hash) : k \in DOMAIN history}}
      BY <2>2, <3>4 DEF IsEvent
    <3> HIDE DEF old
    <3> QED BY <3>1, <3>2, <3>3, <3>4 DEF EditsOf
  <2>4. IsKnown(x(e))
    <3>1. IsKnown(StoredEvent(e))
      BY <2>3, StoredKnown
    <3>2. IsKnown([hash |-> history[i].hash, event |-> e])
      BY <2>3 DEF IsKnown, IsStored
    <3> QED BY <3>1, <3>2
  <2> HIDE DEF x
  <2>6. history' \in [1..n -> T \cup {x(e)}]
    BY <1>3, <2>e, <2>i
  <2>7. \A y \in T \cup {x(e)} : IsKnown(y)
    BY <1>2, <2>4
  <2> QED BY <1>1, <2>6, <2>7, KnownMade
<1>7. CASE AddEvent
  <2>1. PICK f \in Forms, b \in Bytes, now \in Clock :
          history' = AppendTo(history, Kind(f, b), now)
    BY <1>7 DEF AddEvent
  <2>2. Kind(f, b) \in Kinds
    BY DEF Kinds
  <2> QED BY <1>1, <2>1, <2>2, AppendToKeeps
<1> QED BY <1>4, <1>5, <1>6, <1>7

LEMMA WriteKeeps ==
  ASSUME VerifyInv, Write
  PROVE  VerifyInv'
<1>1. edits = 0 /\ edits' = 0 /\ history = written /\ written' = history'
  BY DEF VerifyInv, Write
<1>2. PICK f \in Forms, b \in Bytes, now \in Clock :
        history' = AppendTo(history, Kind(f, b), now)
  BY DEF Write
<1>3. Kind(f, b) \in Kinds
  BY DEF Kinds
<1>4. IsSeq(history') /\ AllKnown(history') /\ Linked(history')
  BY <1>1, <1>2, <1>3, AppendToKeeps DEF VerifyInv
<1> QED BY <1>1, <1>4 DEF VerifyInv

\* Whatever has been done to a history, it is one of known events, and what was
\* written is linked: the inductive invariant.
THEOREM VerifyInductive == VerifySpec => []VerifyInv
<1>1. VerifyInit => VerifyInv
  <2> SUFFICES ASSUME VerifyInit PROVE VerifyInv
    OBVIOUS
  <2>1. <<>> \in [1..0 -> {}] /\ Len(<<>>) = 0
    OBVIOUS
  <2>2. IsSeq(<<>>)
    BY <2>1, SeqMade
  <2> QED BY <2>1, <2>2 DEF VerifyInit, VerifyInv, AllKnown, Linked
<1>2. VerifyInv /\ [VerifyNext]_verifyVars => VerifyInv'
  <2> SUFFICES ASSUME VerifyInv, [VerifyNext]_verifyVars PROVE VerifyInv'
    OBVIOUS
  <2>1. CASE Write
    BY <2>1, WriteKeeps
  <2>2. CASE LoseEvent \/ SwapEvents \/ EditEvent \/ AddEvent
    <3>1. written' = written /\ edits' = edits + 1
      BY <2>2 DEF LoseEvent, SwapEvents, EditEvent, AddEvent, Edit
    <3>2. IsSeq(history') /\ AllKnown(history')
      BY <2>2, HistoryEdits
    <3> QED BY <3>1, <3>2 DEF VerifyInv
  <2>3. CASE LoseObject \/ OverwriteObject \/ OverwriteHead
    BY <2>3 DEF LoseObject, OverwriteObject, OverwriteHead, Edit, VerifyInv
  <2>4. CASE UNCHANGED verifyVars
    BY <2>4 DEF verifyVars, VerifyInv
  <2> QED BY <2>1, <2>2, <2>3, <2>4 DEF VerifyNext
<1> QED BY <1>1, <1>2, PTL DEF VerifySpec

\* The verifier accepts exactly the histories that appends could have made, with
\* their objects and head, whatever was done to the history before.
THEOREM CleanIsAppended == VerifySpec => []CleanIffAppended
<1>1. VerifyInv => CleanIffAppended
  BY CleanEquivalence DEF VerifyInv, AllKnown, IsKnown, IsHistory
<1> QED BY <1>1, VerifyInductive, PTL

(***************************************************************************)
(* A hash commits to all the events before it.                             *)
(***************************************************************************)
LessThan == {p \in Nat \X Nat : p[1] < p[2]}

LEMMA LeastNumber ==
  ASSUME NEW T \in SUBSET Nat, T # {}
  PROVE  \E m \in T : \A n \in T : m <= n
<1>1. IsWellFoundedOn(LessThan, Nat)
  <2>1. OpToRel(<, Nat) = LessThan
    BY DEF OpToRel, LessThan
  <2> QED BY <2>1, NatLessThanWellFounded
<1>2. PICK m \in T : \A n \in T : <<n, m>> \notin LessThan
  BY <1>1, WFMin, Zenon
<1>3. ASSUME NEW n \in T PROVE m <= n
  <2>1. <<n, m>> \in Nat \X Nat /\ <<n, m>>[1] = n /\ <<n, m>>[2] = m
    OBVIOUS
  <2> QED BY <1>2, <2>1 DEF LessThan
<1> QED BY <1>3

LEMMA SameHash ==
  ASSUME NEW e, NEW f, IsEvent(e), IsEvent(f), content_hash(e) = content_hash(f)
  PROVE  /\ WireEvent(e) = WireEvent(f) /\ wire_event(e) = wire_event(f)
         /\ e.parents = f.parents /\ e.kind = f.kind /\ e.sequence = f.sequence
<1> DEFINE W(x) == [parents |-> x.parents, kind |-> x.kind, emitted_at |-> x.emitted_at.sec,
                    sequence |-> x.sequence]
<1>1. WireEvent(e) = W(e) /\ WireEvent(f) = W(f)
  BY DEF WireEvent, IsEvent
<1>2. W(e) = W(f) /\ WireEvent(e) = WireEvent(f)
  <2>1. <<"sha256", WireEvent(e)>> = <<"sha256", WireEvent(f)>>
    BY DEF content_hash, digest_bytes
  <2> HIDE DEF W
  <2> QED BY <1>1, <2>1
<1>3. /\ e.parents = f.parents /\ e.kind = f.kind /\ e.sequence = f.sequence
      /\ e.emitted_at.sec = f.emitted_at.sec
  <2>1. W(e).parents = W(f).parents /\ W(e).kind = W(f).kind /\ W(e).sequence = W(f).sequence
        /\ W(e).emitted_at = W(f).emitted_at
    BY <1>2
  <2> QED BY <2>1
<1>4. wire_event(e) = wire_event(f)
  BY <1>3 DEF wire_event, IsEvent
<1> QED BY <1>2, <1>3, <1>4

\* The first event is a special case of the others.
ChainAt(es, i) ==
  /\ IsEvent(es[i]) /\ es[i].sequence = i - 1
  /\ i > 1 => es[i].parents = Some(content_hash(es[i-1]))

Chain(es, n) == \A i \in 1..n : ChainAt(es, i)

LEMMA HeadCommits ==
  ASSUME NEW es, NEW fs, NEW m \in Nat, NEW n \in Nat, m > 0, n > 0,
         Chain(es, m), Chain(fs, n), content_hash(es[m]) = content_hash(fs[n])
  PROVE  m = n /\ \A i \in 1..m : content_hash(es[i]) = content_hash(fs[i])
<1>1. m = n
  <2>1. ChainAt(es, m) /\ ChainAt(fs, n)
    BY DEF Chain
  <2>2. es[m].sequence = fs[n].sequence
    BY <2>1, SameHash DEF ChainAt
  <2> QED BY <2>1, <2>2 DEF ChainAt
<1> DEFINE T == {k \in 0..(m-1) : content_hash(es[m-k]) # content_hash(fs[m-k])}
<1>2. ASSUME T # {} PROVE FALSE
  <2>1. PICK k \in T : \A j \in T : k <= j
    <3>1. T \in SUBSET Nat
      OBVIOUS
    <3> HIDE DEF T
    <3> QED BY <1>2, <3>1, LeastNumber
  <2>2. k # 0
    BY <1>1
  <2>3. k - 1 \in 0..(m-1) /\ k - 1 \notin T
    BY <2>1, <2>2
  <2> DEFINE i == m - (k - 1)
  <2>4. content_hash(es[i]) = content_hash(fs[i])
    BY <2>3
  <2>5. i \in 1..m /\ i > 1 /\ i - 1 = m - k
    BY <2>2
  <2> HIDE DEF i
  <2>6. ChainAt(es, i) /\ ChainAt(fs, i)
    BY <1>1, <2>5 DEF Chain
  <2>7. es[i].parents = fs[i].parents
    BY <2>4, <2>6, SameHash DEF ChainAt
  <2>8. content_hash(es[i-1]) = content_hash(fs[i-1])
    BY <2>5, <2>6, <2>7 DEF ChainAt, Some
  <2> QED BY <2>5, <2>8
<1>3. ASSUME NEW i \in 1..m PROVE content_hash(es[i]) = content_hash(fs[i])
  <2>1. m - i \in 0..(m-1) /\ m - (m - i) = i
    OBVIOUS
  <2> QED BY <1>2, <2>1
<1> QED BY <1>1, <1>3

LEMMA HeadCommitsAt ==
  ASSUME NEW es, NEW fs, NEW m \in Nat, NEW n \in Nat, m > 0, n > 0,
         Chain(es, m), Chain(fs, n), content_hash(es[m]) = content_hash(fs[n]),
         NEW i \in 1..m
  PROVE  content_hash(es[i]) = content_hash(fs[i])
BY HeadCommits, SMTT(60)

HistoryEvents(h) == [i \in DOMAIN h |-> h[i].event]

LEMMA LinkedChain ==
  ASSUME NEW h, IsSeq(h), AllKnown(h), Linked(h), NEW i \in 1..Len(h)
  PROVE  ChainAt(HistoryEvents(h), i)
<1>1. DOMAIN h = 1..Len(h) /\ Len(h) \in Nat
  BY SeqFacts
<1>2. HistoryEvents(h)[i] = h[i].event /\ (i > 1 => HistoryEvents(h)[i-1] = h[i-1].event)
  BY <1>1 DEF HistoryEvents
<1>3. LinkedAt(h, i) /\ (i > 1 => LinkedAt(h, i-1))
  BY <1>1 DEF Linked
<1>4. IsEvent(h[i].event)
  BY DEF AllKnown, IsKnown, IsStored
<1> QED BY <1>1, <1>2, <1>3, <1>4 DEF ChainAt, LinkedAt

\* Two linked histories with the same last hash are the same, but for fractions of
\* a second.
LEMMA SameHistory ==
  ASSUME NEW h, NEW g, IsSeq(h), AllKnown(h), Linked(h), IsSeq(g), AllKnown(g), Linked(g),
         h # <<>>, g # <<>>, h[Len(h)].hash = g[Len(g)].hash
  PROVE  Wire(h) = Wire(g) /\ Referenced(h) = Referenced(g)
<1>1. /\ DOMAIN h = 1..Len(h) /\ Len(h) \in Nat \ {0}
      /\ DOMAIN g = 1..Len(g) /\ Len(g) \in Nat \ {0}
  BY SeqFacts
<1>2. content_hash(HistoryEvents(h)[Len(h)]) = content_hash(HistoryEvents(g)[Len(g)])
  BY <1>1 DEF HistoryEvents, Linked, LinkedAt
<1>3. Chain(HistoryEvents(h), Len(h)) /\ Chain(HistoryEvents(g), Len(g))
  BY LinkedChain DEF Chain
<1>4. Len(h) = Len(g) /\ \A i \in 1..Len(h) : content_hash(HistoryEvents(h)[i]) = content_hash(HistoryEvents(g)[i])
  <2> DEFINE es == HistoryEvents(h)  fs == HistoryEvents(g)  m == Len(h)  n == Len(g)
  <2>1. /\ m \in Nat /\ n \in Nat /\ m > 0 /\ n > 0 /\ content_hash(es[m]) = content_hash(fs[n])
        /\ Chain(es, m) /\ Chain(fs, n)
    BY <1>1, <1>2, <1>3
  <2> HIDE DEF es, fs, m, n
  <2>2. m = n
    BY <2>1, HeadCommits
  <2>3. ASSUME NEW i \in 1..m PROVE content_hash(es[i]) = content_hash(fs[i])
    BY <2>1, HeadCommitsAt
  <2> QED BY <2>2, <2>3 DEF es, fs, m, n
<1>5. ASSUME NEW i \in 1..Len(h)
      PROVE  WireEvent(h[i].event) = WireEvent(g[i].event) /\ h[i].event.kind = g[i].event.kind
  <2>1. IsEvent(h[i].event) /\ IsEvent(g[i].event)
    BY <1>4 DEF AllKnown, IsKnown, IsStored
  <2>2. content_hash(h[i].event) = content_hash(g[i].event)
    BY <1>1, <1>4 DEF HistoryEvents
  <2> QED BY <2>1, <2>2, SameHash
<1>6. Wire(h) = Wire(g)
  BY <1>1, <1>4, <1>5 DEF Wire
<1>7. Referenced(h) = Referenced(g)
  BY <1>1, <1>4, <1>5 DEF Referenced
<1> QED BY <1>6, <1>7

(***************************************************************************)
(* Bundles as values, and what the bundle's verifier calls clean.          *)
(***************************************************************************)
LEMMA OnWireIs ==
  ASSUME NEW b, IsBundle(b)
  PROVE  /\ IsBundle(OnWire(b))
         /\ OnWire(b).events = [i \in DOMAIN b.events |-> wire_event(b.events[i])]
         /\ OnWire(b).agef_version = b.agef_version /\ OnWire(b).session = b.session
         /\ OnWire(b).head = b.head /\ OnWire(b).objects = b.objects
         /\ OnWire(b).signatures = b.signatures /\ OnWire(b).attestations = b.attestations
         /\ OnWire(b).event_count = b.event_count /\ OnWire(b).object_count = b.object_count
BY DEF OnWire, IsBundle

LEMMA AssembledIs ==
  ASSUME NEW session, NEW row, NEW store
  PROVE  LET b == assemble_session_bundle(session, row, store)
         IN /\ IsBundle(b)
            /\ b.events = [i \in DOMAIN row.history |-> row.history[i].event]
            /\ b.agef_version = AGEF_SPEC_VERSION /\ b.session = session
            /\ b.head = row.head[1]
            /\ b.objects = [h \in Referenced(row.history) |-> store[h]]
            /\ b.signatures = <<>> /\ b.attestations = <<>>
            /\ b.event_count = Len(b.events)
            /\ b.object_count = Cardinality(DOMAIN b.objects)
BY SMTT(60) DEF assemble_session_bundle, Bundle, IsBundle

LEMMA SignedIs ==
  ASSUME NEW b, IsBundle(b), b.signatures = <<>>, b.attestations = <<>>,
         b.agef_version = AGEF_SPEC_VERSION, NEW key
  PROVE  LET s == add_head_signature(b, key)
         IN /\ IsBundle(s)
            /\ s.events = b.events /\ s.objects = b.objects
            /\ s.agef_version = b.agef_version /\ s.session = b.session /\ s.head = b.head
            /\ s.event_count = b.event_count /\ s.object_count = b.object_count
            /\ s.attestations = <<>>
            /\ s.signatures =
                 <<[key_id |-> key, signature |-> Signature(key, signing_statement(b))]>>
<1> DEFINE x == [key_id |-> key, signature |-> Signature(key, signing_statement(b))]
<1>1. Stamp(b) = b
  BY DEF Stamp, IsBundle
<1>2. Append(<<>>, x) = <<x>>
  <2> HIDE DEF x
  <2> QED OBVIOUS
<1>3. add_head_signature(b, key) = [b EXCEPT !.signatures = Append(b.signatures, x)]
  BY <1>1 DEF add_head_signature
<1> HIDE DEF x
<1>4. add_head_signature(b, key) = [b EXCEPT !.signatures = <<x>>]
  BY <1>2, <1>3
<1> QED BY <1>4 DEF IsBundle, x

EventClean(b, i) ==
  /\ b.events[i].sequence = i - 1
  /\ ~BrokenParent(b.events, i)
  /\ ~event_invariant_violation(b.events[i].kind)
  /\ referenced_object_hashes_for_kind(b.events[i].kind) \subseteq DOMAIN b.objects

LEMMA EventCleanIs ==
  ASSUME NEW b, NEW i
  PROVE  (EventViolations(b, i) = {}) <=> EventClean(b, i)
<1> DEFINE e == b.events[i]
           at(category, holds) == IF holds THEN {Violation(category, i, None)} ELSE {}
           M == {Violation("missing_object", i, Some(h)) :
                  h \in referenced_object_hashes_for_kind(e.kind) \ DOMAIN b.objects}
<1>1. EventViolations(b, i) =
        at("sequence", e.sequence # i - 1)
        \cup at("broken_parent_chain", BrokenParent(b.events, i))
        \cup at("event_invariant", event_invariant_violation(e.kind)) \cup M
  BY DEF EventViolations
<1>2. (M = {}) <=> referenced_object_hashes_for_kind(e.kind) \subseteq DOMAIN b.objects
  OBVIOUS
<1> HIDE DEF M
<1> QED BY <1>1, <1>2 DEF EventClean

LEMMA BundleCleanIs ==
  ASSUME NEW b, IsSeq(b.events)
  PROVE  BundleIsClean(b) <=>
           /\ b.object_count = Cardinality(DOMAIN b.objects)
           /\ b.event_count = Len(b.events)
           /\ \A x \in DOMAIN b.objects : digest_bytes(b.objects[x]) = x
           /\ Len(b.events) > 0
           /\ \A i \in 1..Len(b.events) : EventClean(b, i)
           /\ DOMAIN b.objects \subseteq EventReferences(b.events)
           /\ BundleSessionEnds(b.events) = {Len(b.events)}
           /\ b.head = content_hash(b.events[Len(b.events)])
<1> DEFINE n == Len(b.events)
           K == {Violation("object_key_hash_mismatch", 0, Some(h)) :
                   h \in {x \in DOMAIN b.objects : digest_bytes(b.objects[x]) # x}}
           C1 == Found("manifest_object_count_mismatch", b.object_count # Cardinality(DOMAIN b.objects))
           C2 == Found("manifest_event_count_mismatch", b.event_count # n)
           E == UNION {EventViolations(b, i) : i \in 1..n}
           U == {Violation("unreferenced_object", 0, Some(h)) :
                   h \in DOMAIN b.objects \ EventReferences(b.events)}
           S == SessionEndViolations(b.events)
           H == Found("head_mismatch", b.head # content_hash(b.events[n]))
<1>1. verify_bundle(b) = (C1 \cup C2 \cup K) \cup
        IF n = 0 THEN {Violation("no_events", 0, None)} ELSE ((E \cup U) \cup S) \cup H
  BY Zenon DEF verify_bundle
<1>2. /\ (C1 = {}) <=> b.object_count = Cardinality(DOMAIN b.objects)
      /\ (C2 = {}) <=> b.event_count = n
  BY DEF Found
<1>3. (K = {}) <=> \A x \in DOMAIN b.objects : digest_bytes(b.objects[x]) = x
  OBVIOUS
<1>4. (E = {}) <=> \A i \in 1..n : EventClean(b, i)
  <2>1. (E = {}) <=> \A i \in 1..n : EventViolations(b, i) = {}
    OBVIOUS
  <2> HIDE DEF E
  <2> QED BY <2>1, EventCleanIs
<1>5. (U = {}) <=> DOMAIN b.objects \subseteq EventReferences(b.events)
  OBVIOUS
<1>6. n > 0 => ((S = {}) <=> BundleSessionEnds(b.events) = {n})
  <2> DEFINE ends == BundleSessionEnds(b.events)
  <2>1. n \in Nat /\ DOMAIN b.events = 1..n
    BY SeqFacts
  <2>2. IsFiniteSet(ends) /\ Cardinality(ends) \in Nat
    <3>1. IsFiniteSet(1..n)
      BY <2>1, FS_Interval
    <3>2. ends \subseteq 1..n
      BY <2>1 DEF BundleSessionEnds
    <3> QED BY <3>1, <3>2, FS_Subset, FS_CardinalityType
  <2>3. (Cardinality(ends) = 0) <=> (ends = {})
    BY <2>2, FS_EmptySet
  <2>4. (ends = {n}) => Cardinality(ends) = 1
    <3>1. Cardinality({n}) = 1
      BY FS_Singleton
    <3> QED BY <3>1
  <2> HIDE DEF ends, n
  <2>5. (S = {}) <=> /\ ends # {} /\ ~(Cardinality(ends) > 1)
                    /\ ~(Cardinality(ends) = 1 /\ ends # {n})
    BY DEF SessionEndViolations, Found, ends, n
  <2>6. Cardinality(ends) = 0 \/ Cardinality(ends) = 1 \/ Cardinality(ends) > 1
    BY <2>2
  <2>7. (ends = {n}) => ends # {}
    OBVIOUS
  <2> QED BY <2>3, <2>4, <2>5, <2>6, <2>7 DEF ends, n
<1>7. (H = {}) <=> b.head = content_hash(b.events[n])
  BY DEF Found
<1>8. n \in Nat
  BY SeqFacts
<1> HIDE DEF C1, C2, K, E, U, S, H, n
<1>9. BundleIsClean(b) <=>
        /\ C1 = {} /\ C2 = {} /\ K = {} /\ n # 0
        /\ E = {} /\ U = {} /\ S = {} /\ H = {}
  BY <1>1 DEF BundleIsClean
<1> QED BY <1>2, <1>3, <1>4, <1>5, <1>6, <1>7, <1>8, <1>9 DEF n

(***************************************************************************)
(* The report on a bundle with one signature by the trusted key.           *)
(***************************************************************************)
\* No check of the bundle's verifier is called capture_requirement_unmet.
LEMMA NoCapture ==
  ASSUME NEW b, NEW v \in verify_bundle(b)
  PROVE  v.category # "capture_requirement_unmet"
<1> DEFINE Other(S) == \A w \in S : w.category # "capture_requirement_unmet"
           n == Len(b.events)
           K == {Violation("object_key_hash_mismatch", 0, Some(h)) :
                   h \in {x \in DOMAIN b.objects : digest_bytes(b.objects[x]) # x}}
           C1 == Found("manifest_object_count_mismatch", b.object_count # Cardinality(DOMAIN b.objects))
           C2 == Found("manifest_event_count_mismatch", b.event_count # n)
           E == UNION {EventViolations(b, i) : i \in 1..n}
           U == {Violation("unreferenced_object", 0, Some(h)) :
                   h \in DOMAIN b.objects \ EventReferences(b.events)}
           S == SessionEndViolations(b.events)
           H == Found("head_mismatch", b.head # content_hash(b.events[n]))
           N == {Violation("no_events", 0, None)}
<1>1. verify_bundle(b) = (C1 \cup C2 \cup K) \cup IF n = 0 THEN N ELSE ((E \cup U) \cup S) \cup H
  BY Zenon DEF verify_bundle
<1>2. Other(C1) /\ Other(C2) /\ Other(H) /\ Other(N)
  BY DEF Found, Violation
<1>3. Other(K) /\ Other(U)
  BY DEF Violation
<1>4. Other(S)
  BY DEF SessionEndViolations, Found, Violation
<1>5. Other(E)
  <2>1. ASSUME NEW i \in 1..n PROVE Other(EventViolations(b, i))
    BY DEF EventViolations, Violation
  <2> HIDE DEF Other, n
  <2>2. ASSUME NEW w \in E PROVE w.category # "capture_requirement_unmet"
    <3>1. PICK i \in 1..n : w \in EventViolations(b, i)
      OBVIOUS
    <3> QED BY <2>1, <3>1 DEF Other
  <2> HIDE DEF E
  <2> QED BY <2>2 DEF Other
<1> HIDE DEF C1, C2, K, E, U, S, H, N, n
<1> QED BY <1>1, <1>2, <1>3, <1>4, <1>5

TrustedReport(r, violations) ==
  /\ r.violations = violations
  /\ r.integrity_ok <=> violations = {}
  /\ r.signature_verified <=> violations = {}
  /\ r.passed <=> violations = {}
  /\ ~r.operator_key_verified
  /\ r.signatures # <<>>

LEMMA SignedReport ==
  ASSUME NEW b, b.attestations = <<>>,
         b.signatures = <<[key_id |-> "signer",
                           signature |-> Signature("signer", signing_statement(b))]>>
  PROVE  TrustedReport(evaluate_bundle(b, TrustSigner), verify_bundle(b))
<1> DEFINE found == verify_bundle(b)
           signatures == verify_manifest_signatures(b, {"signer"})
           operators == verify_operator_attestations(b, {})
           capture == otel_capture_info(b)
           integrity == \A v \in found : v.category = "capture_requirement_unmet"
           passed == ComputePassed(found, signatures, TrustSigner,
                       operator_requirements_ok(b, operators, TrustSigner),
                       capture_requirement_unmet(FALSE, capture))
           r == evaluate_bundle(b, TrustSigner)
<1>1. /\ TrustSigner.signers = {"signer"} /\ TrustSigner.operators = {}
      /\ TrustSigner.require_signature = FALSE /\ TrustSigner.require_operator = FALSE
      /\ TrustSigner.required_operators = {} /\ TrustSigner.require_capture = FALSE
  BY DEF TrustSigner, NoPolicy
<1>2. signatures = <<"verified">>
  <2>1. DOMAIN b.signatures = {1}
    OBVIOUS
  <2>2. Outcome(b.signatures[1], signing_statement(b), {"signer"}) = "verified"
    BY DEF Outcome
  <2>3. signatures = [i \in {1} |-> "verified"]
    BY <2>1, <2>2 DEF verify_manifest_signatures
  <2> QED BY <2>3
<1>3. operators = <<>>
  <2>1. DOMAIN b.attestations = {}
    OBVIOUS
  <2>2. operators = [i \in {} |-> Outcome(b.attestations[i],
                                 operator_statement(b, b.attestations[i].identity), {})]
    BY <2>1 DEF verify_operator_attestations
  <2> QED BY <2>2
<1>4. integrity <=> found = {}
  <2> HIDE DEF found
  <2> QED BY NoCapture DEF found
<1>5. /\ AnyOutcome(signatures, "verified") /\ ~AnyOutcome(signatures, "invalid")
      /\ ~AnyOutcome(operators, "verified") /\ ~AnyOutcome(operators, "invalid")
  BY <1>2, <1>3 DEF AnyOutcome
<1>6. capture_requirement_unmet(TrustSigner.require_capture, capture) = FALSE
  BY <1>1 DEF capture_requirement_unmet
<1>7. passed <=> found = {}
  <2>1. operator_requirements_ok(b, operators, TrustSigner)
    BY <1>1, <1>5 DEF operator_requirements_ok
  <2>2. ~capture_requirement_unmet(FALSE, capture)
    BY DEF capture_requirement_unmet
  <2> HIDE DEF operators, signatures, found, capture
  <2> QED BY <1>1, <1>5, <2>1, <2>2 DEF ComputePassed
<1> HIDE DEF found, signatures, operators, capture
<1>8. r = build_verify_report(b, passed, found, signatures, operators, capture)
  <2>1. ~capture_requirement_unmet(FALSE, capture)
    BY DEF capture_requirement_unmet
  <2> DEFINE V == found \cup (IF capture_requirement_unmet(FALSE, capture)
                             THEN {Violation("capture_requirement_unmet", 0, None)} ELSE {})
  <2>2. V = found
    BY <2>1
  <2>3. r = build_verify_report(b, passed, V, signatures, operators, capture)
    BY <1>1 DEF evaluate_bundle, found, signatures, operators, capture
  <2> HIDE DEF V, r, passed
  <2> QED BY <2>2, <2>3
<1> HIDE DEF r, passed
<1>9. /\ r.violations = found /\ r.signatures = signatures
      /\ r.passed = passed /\ r.integrity_ok = integrity
      /\ r.signature_verified = (integrity /\ AnyOutcome(signatures, "verified"))
      /\ r.operator_key_verified = (integrity /\ AnyOutcome(operators, "verified"))
  BY <1>8 DEF build_verify_report, FlagGated
<1>10. r.signatures # <<>>
  BY <1>2, <1>9
<1> HIDE DEF integrity
<1> QED BY <1>4, <1>5, <1>7, <1>9, <1>10 DEF TrustedReport, r, found

\* Every rendering of such a report makes the claims of its fields.
LEMMA ClaimsHold ==
  ASSUME NEW r, NEW violations, TrustedReport(r, violations),
         \A v \in violations : v.category # "capture_requirement_unmet"
  PROVE  ClaimsAgree(r)
<1> DEFINE md == markdown(r)
           shown == human_lines(r)
           V == {Violation("capture_requirement_unmet", 0, None)}
<1>1. shown.headline = headline(r) /\ shown.integrity = r.integrity_ok
      /\ shown.violations = violations
  BY DEF human_lines, TrustedReport
<1>2. headline(r) = IF violations = {} THEN "signature verified" ELSE "failed"
  BY DEF headline, TrustedReport
<1>3. md.verdict = IF violations = {} THEN "PASSED, signed" ELSE "FAILED"
  BY DEF markdown, TrustedReport
<1>4. md.signature = markdown_signature_cell(r)
  BY DEF markdown
<1>5. (markdown_signature_cell(r) = "VERIFIED") <=> violations = {}
  BY DEF markdown_signature_cell, TrustedReport
<1>6. ("contents as signed" \in md.proves) <=> violations = {}
  BY DEF markdown, TrustedReport
<1>7. violations \subseteq V <=> violations = {}
  BY DEF Violation
<1> HIDE DEF md, shown, V
<1>8. /\ (shown.headline = "signature verified") <=> (md.verdict = "PASSED, signed")
      /\ (shown.headline = "failed") <=> (md.verdict = "FAILED")
  BY <1>1, <1>2, <1>3
<1>9. shown.integrity <=> shown.violations \subseteq V
  BY <1>1, <1>7 DEF TrustedReport
<1>10. /\ (md.signature = "VERIFIED") <=> r.signature_verified
       /\ ("contents as signed" \in md.proves) <=> r.signature_verified
       /\ r.signature_verified \/ r.operator_key_verified => r.integrity_ok
       /\ r.passed => r.integrity_ok
  BY <1>4, <1>5, <1>6 DEF TrustedReport
<1> QED BY <1>8, <1>9, <1>10 DEF ClaimsAgree, md, shown, V

(***************************************************************************)
(* The bundle as signed and as it came out of the damage.                  *)
(***************************************************************************)
Digests == {digest_bytes(x) : x \in Bytes}

LEMMA KnownRefs ==
  ASSUME NEW h, IsSeq(h), AllKnown(h)
  PROVE  Referenced(h) \subseteq Digests
<1>1. DOMAIN h = 1..Len(h)
  BY SeqFacts
<1>2. ASSUME NEW i \in 1..Len(h)
      PROVE  referenced_object_hashes_for_kind(h[i].event.kind) \subseteq Digests
  <2>1. PICK f \in Forms, b \in Bytes : h[i].event.kind = Kind(f, b)
    BY DEF AllKnown, IsKnown, Kinds
  <2>2. h[i].event.kind.refs = <<digest_bytes(b)>>
    BY <2>1 DEF Kind, EventKind
  <2> QED BY <2>2 DEF referenced_object_hashes_for_kind, Digests
<1> QED BY <1>1, <1>2 DEF Referenced

WrittenEvents == [i \in DOMAIN written |-> wire_event(written[i].event)]
DamagedEvents == [i \in DOMAIN history |-> wire_event(history[i].event)]

LEMMA SignedAsWrittenIs ==
  LET s == SignedAsWritten
  IN /\ IsBundle(s) /\ s.attestations = <<>>
     /\ s.signatures = <<[key_id |-> "signer",
                          signature |-> Signature("signer", signing_statement(s))]>>
     /\ s.events = WrittenEvents
     /\ s.head = written[Len(written)].hash
     /\ s.objects = [h \in Referenced(written) |-> [x \in Digests |-> x[2]][h]]
<1> DEFINE head0 == Some(written[Len(written)].hash)
           row == [head |-> head0, history |-> written]
           store == [h \in Digests |-> h[2]]
           a == assemble_session_bundle("s", row, store)
           b == OnWire(a)
           s == add_head_signature(b, "signer")
<1>1. row.history = written /\ row.head[1] = written[Len(written)].hash
  BY DEF Some
<1>2. /\ IsBundle(a) /\ a.events = [i \in DOMAIN written |-> written[i].event]
      /\ a.agef_version = AGEF_SPEC_VERSION /\ a.head = written[Len(written)].hash
      /\ a.objects = [h \in Referenced(written) |-> store[h]]
      /\ a.signatures = <<>> /\ a.attestations = <<>>
  <2> HIDE DEF row, store
  <2> QED BY <1>1, AssembledIs
<1>3. SignedAsWritten = s
  BY DEF SignedAsWritten, Digests
<1> HIDE DEF a
<1>4. /\ IsBundle(b) /\ b.agef_version = AGEF_SPEC_VERSION /\ b.head = a.head
      /\ b.objects = a.objects /\ b.signatures = <<>> /\ b.attestations = <<>>
      /\ b.events = [i \in DOMAIN a.events |-> wire_event(a.events[i])]
  BY <1>2, OnWireIs
<1>5. b.events = WrittenEvents
  BY <1>2, <1>4 DEF WrittenEvents
<1> HIDE DEF b
<1>6. /\ IsBundle(s) /\ s.events = b.events /\ s.objects = b.objects
      /\ s.agef_version = b.agef_version /\ s.session = b.session /\ s.head = b.head
      /\ s.attestations = <<>>
      /\ s.signatures = <<[key_id |-> "signer",
                           signature |-> Signature("signer", signing_statement(b))]>>
  BY <1>4, SignedIs
<1> HIDE DEF s
<1>7. signing_statement(s) = signing_statement(b)
  BY <1>6 DEF signing_statement
<1> QED BY <1>2, <1>3, <1>4, <1>5, <1>6, <1>7

LEMMA DamagedIs ==
  ASSUME NEW recounted \in BOOLEAN
  PROVE  LET s == SignedAsWritten
             d == DamagedBundle(s, recounted)
         IN /\ d.events = DamagedEvents
            /\ d.head = s.head /\ d.attestations = <<>>
            /\ d.signatures = <<[key_id |-> "signer",
                                 signature |-> Signature("signer", signing_statement(d))]>>
            /\ d.objects = [h \in DOMAIN objects \cap Referenced(written) |-> objects[h]]
<1> DEFINE s == SignedAsWritten
           kept == DOMAIN objects \cap DOMAIN s.objects
           es == [i \in DOMAIN history |-> history[i].event]
           os == [h \in kept |-> objects[h]]
           c == [s EXCEPT !.events = es, !.objects = os,
                          !.event_count = IF recounted THEN Len(history) ELSE @,
                          !.object_count = IF recounted THEN Cardinality(kept) ELSE @]
           d == OnWire(c)
<1>1. /\ IsBundle(s) /\ s.attestations = <<>>
      /\ s.signatures = <<[key_id |-> "signer",
                           signature |-> Signature("signer", signing_statement(s))]>>
      /\ s.objects = [h \in Referenced(written) |-> [x \in Digests |-> x[2]][h]]
  BY SignedAsWrittenIs
<1>2. DamagedBundle(s, recounted) = d
  BY DEF DamagedBundle
<1>3. DOMAIN s.objects = Referenced(written)
  BY <1>1
<1>0. s = SignedAsWritten
  OBVIOUS
<1> HIDE DEF s, es, os
<1>4. /\ IsBundle(c) /\ c.events = es /\ c.objects = os /\ c.head = s.head
      /\ c.agef_version = s.agef_version /\ c.session = s.session
      /\ c.attestations = s.attestations /\ c.signatures = s.signatures
  <2> DEFINE n1 == IF recounted THEN Len(history) ELSE s.event_count
             n2 == IF recounted THEN Cardinality(kept) ELSE s.object_count
  <2>1. c = [s EXCEPT !.events = es, !.objects = os, !.event_count = n1, !.object_count = n2]
    OBVIOUS
  <2> HIDE DEF c, n1, n2
  <2> QED BY <1>1, <2>1 DEF IsBundle
<1> HIDE DEF c
<1>5. /\ d.events = [i \in DOMAIN c.events |-> wire_event(c.events[i])]
      /\ d.agef_version = c.agef_version /\ d.session = c.session /\ d.head = c.head
      /\ d.objects = c.objects /\ d.signatures = c.signatures /\ d.attestations = c.attestations
  BY <1>4, OnWireIs
<1>6. d.events = DamagedEvents
  BY <1>4, <1>5 DEF es, DamagedEvents
<1>7. d.objects = [h \in DOMAIN objects \cap Referenced(written) |-> objects[h]]
  BY <1>3, <1>4, <1>5 DEF os
<1> HIDE DEF d
<1>8. signing_statement(d) = signing_statement(s)
  BY <1>4, <1>5 DEF signing_statement
<1>9. d.signatures = <<[key_id |-> "signer",
                        signature |-> Signature("signer", signing_statement(d))]>>
  BY <1>1, <1>4, <1>5, <1>8
<1> QED BY <1>0, <1>1, <1>2, <1>4, <1>5, <1>6, <1>7, <1>9

LEMMA WireEvents ==
  ASSUME NEW h, IsSeq(h), AllKnown(h)
  PROVE  LET w == [i \in DOMAIN h |-> wire_event(h[i].event)]
         IN /\ IsSeq(w) /\ Len(w) = Len(h) /\ DOMAIN w = 1..Len(h)
            /\ \A i \in 1..Len(h) :
                 /\ w[i] = wire_event(h[i].event) /\ IsEvent(w[i])
                 /\ content_hash(w[i]) = content_hash(h[i].event)
                 /\ w[i].kind = h[i].event.kind /\ w[i].parents = h[i].event.parents
                 /\ w[i].sequence = h[i].event.sequence
            /\ EventReferences(w) = Referenced(h)
<1> DEFINE w == [i \in DOMAIN h |-> wire_event(h[i].event)]
           T == {wire_event(h[i].event) : i \in DOMAIN h}
<1>1. Len(h) \in Nat /\ DOMAIN h = 1..Len(h)
  BY SeqFacts
<1>2. w \in [1..Len(h) -> T]
  BY <1>1
<1>3. \A i \in 1..Len(h) : w[i] = wire_event(h[i].event)
  BY <1>1
<1> HIDE DEF w, T
<1>4. IsSeq(w) /\ Len(w) = Len(h) /\ DOMAIN w = 1..Len(h)
  BY <1>1, <1>2, SeqMade
<1>5. ASSUME NEW i \in 1..Len(h)
      PROVE  /\ IsEvent(w[i]) /\ content_hash(w[i]) = content_hash(h[i].event)
             /\ w[i].kind = h[i].event.kind /\ w[i].parents = h[i].event.parents
             /\ w[i].sequence = h[i].event.sequence
  <2>1. IsEvent(h[i].event)
    BY DEF AllKnown, IsKnown, IsStored
  <2>2. /\ IsEvent(w[i]) /\ w[i].kind = h[i].event.kind /\ w[i].parents = h[i].event.parents
        /\ w[i].sequence = h[i].event.sequence
        /\ w[i].emitted_at = [sec |-> h[i].event.emitted_at.sec, nanos |-> 0]
    BY <1>3, <2>1 DEF wire_event, IsEvent
  <2>3. WireEvent(w[i]) = WireEvent(h[i].event)
    <3>1. w[i].emitted_at.sec = h[i].event.emitted_at.sec
      BY <2>2
    <3>2. /\ WireEvent(w[i]) = [parents |-> w[i].parents, kind |-> w[i].kind,
                                emitted_at |-> w[i].emitted_at.sec, sequence |-> w[i].sequence]
          /\ WireEvent(h[i].event) =
               [parents |-> h[i].event.parents, kind |-> h[i].event.kind,
                emitted_at |-> h[i].event.emitted_at.sec, sequence |-> h[i].event.sequence]
      BY <2>1, <2>2 DEF WireEvent, IsEvent
    <3> QED BY <2>2, <3>1, <3>2
  <2> QED BY <2>2, <2>3 DEF content_hash
<1>6. EventReferences(w) = Referenced(h)
  BY <1>1, <1>4, <1>5 DEF EventReferences, Referenced
<1> QED BY <1>3, <1>4, <1>5, <1>6 DEF w

LEMMA WireEventAt ==
  ASSUME NEW h, IsSeq(h), AllKnown(h), NEW i \in 1..Len(h), NEW w,
         w = [k \in DOMAIN h |-> wire_event(h[k].event)]
  PROVE  /\ content_hash(w[i]) = content_hash(h[i].event)
         /\ w[i].kind = h[i].event.kind /\ w[i].parents = h[i].event.parents
         /\ w[i].sequence = h[i].event.sequence
BY WireEvents

LEMMA EndedNotEmpty ==
  ASSUME VerifyInv, Ended(written)
  PROVE  Len(written) \in Nat /\ Len(written) > 0 /\ DOMAIN written = 1..Len(written)
BY SeqFacts DEF VerifyInv, Ended

\* A damaged bundle that verifies is the bundle that was signed.
LEMMA DamageShows ==
  ASSUME VerifyInv, Ended(written), NEW recounted \in BOOLEAN,
         BundleIsClean(DamagedBundle(SignedAsWritten, recounted))
  PROVE  LET s == SignedAsWritten
             d == DamagedBundle(s, recounted)
         IN d.events = s.events /\ d.objects = s.objects
<1> DEFINE s == SignedAsWritten
           d == DamagedBundle(s, recounted)
           n == Len(history)
           m == Len(written)
           R == Referenced(written)
<1>1. /\ s.events = WrittenEvents /\ s.head = written[m].hash
      /\ s.objects = [h \in R |-> [x \in Digests |-> x[2]][h]]
  BY SignedAsWrittenIs
<1>2. /\ d.events = DamagedEvents /\ d.head = s.head
      /\ d.objects = [h \in DOMAIN objects \cap R |-> objects[h]]
  BY DamagedIs
<1>3. BundleIsClean(d)
  OBVIOUS
<1> HIDE DEF s, d
<1>4. /\ IsSeq(written) /\ AllKnown(written) /\ Linked(written) /\ m \in Nat /\ m > 0
      /\ IsSeq(history) /\ AllKnown(history) /\ n \in Nat
  BY EndedNotEmpty, SeqFacts DEF VerifyInv
<1>5. /\ IsSeq(DamagedEvents) /\ Len(DamagedEvents) = n /\ DOMAIN DamagedEvents = 1..n
      /\ \A i \in 1..n :
           /\ DamagedEvents[i] = wire_event(history[i].event) /\ IsEvent(DamagedEvents[i])
           /\ content_hash(DamagedEvents[i]) = content_hash(history[i].event)
           /\ DamagedEvents[i].kind = history[i].event.kind
      /\ EventReferences(DamagedEvents) = Referenced(history)
  BY <1>4, WireEvents DEF DamagedEvents
<1>6. /\ DOMAIN WrittenEvents = 1..m
      /\ \A i \in 1..m :
           /\ WrittenEvents[i] = wire_event(written[i].event) /\ IsEvent(WrittenEvents[i])
           /\ content_hash(WrittenEvents[i]) = content_hash(written[i].event)
           /\ WrittenEvents[i].parents = written[i].event.parents
           /\ WrittenEvents[i].sequence = written[i].event.sequence
  BY <1>4, WireEvents DEF WrittenEvents
<1>7. /\ n > 0 /\ \A i \in 1..n : EventClean(d, i)
      /\ \A x \in DOMAIN d.objects : digest_bytes(d.objects[x]) = x
      /\ d.head = content_hash(DamagedEvents[n])
  BY <1>2, <1>3, <1>5, BundleCleanIs
<1>8. Chain(DamagedEvents, n)
  <2> SUFFICES ASSUME NEW i \in 1..n PROVE ChainAt(DamagedEvents, i)
    BY DEF Chain
  <2>1. EventClean(d, i)
    BY <1>7
  <2>2. DamagedEvents[i].sequence = i - 1 /\ ~BrokenParent(DamagedEvents, i)
    BY <1>2, <2>1 DEF EventClean
  <2> QED BY <1>4, <1>5, <2>2 DEF ChainAt, BrokenParent
<1>9. Chain(WrittenEvents, m)
  <2> SUFFICES ASSUME NEW i \in 1..m PROVE ChainAt(WrittenEvents, i)
    BY DEF Chain
  <2>1. LinkedAt(written, i) /\ (i > 1 => LinkedAt(written, i - 1))
    BY <1>4 DEF Linked
  <2>2. i > 1 => written[i-1].hash = content_hash(WrittenEvents[i-1])
    BY <1>4, <1>6, <2>1 DEF LinkedAt
  <2> QED BY <1>4, <1>6, <2>1, <2>2 DEF ChainAt, LinkedAt
<1>10. content_hash(DamagedEvents[n]) = content_hash(WrittenEvents[m])
  <2>1. LinkedAt(written, m) /\ m \in 1..m
    BY <1>4 DEF Linked
  <2>2. written[m].hash = content_hash(written[m].event)
    BY <2>1 DEF LinkedAt
  <2>3. content_hash(WrittenEvents[m]) = content_hash(written[m].event)
    BY <1>6, <2>1
  <2> QED BY <1>1, <1>2, <1>7, <2>2, <2>3
<1>11. n = m
  BY <1>4, <1>7, <1>8, <1>9, <1>10, HeadCommits
<1>12. ASSUME NEW i \in 1..n
       PROVE  /\ DamagedEvents[i] = WrittenEvents[i]
              /\ history[i].event.kind = written[i].event.kind
  <2>1. content_hash(DamagedEvents[i]) = content_hash(WrittenEvents[i])
    BY <1>4, <1>7, <1>8, <1>9, <1>10, HeadCommitsAt
  <2>2. content_hash(history[i].event) = content_hash(written[i].event)
    BY <1>5, <1>6, <1>11, <2>1
  <2>3. IsEvent(history[i].event) /\ IsEvent(written[i].event)
    BY <1>4, <1>11 DEF AllKnown, IsKnown, IsStored
  <2>4. wire_event(history[i].event) = wire_event(written[i].event)
        /\ history[i].event.kind = written[i].event.kind
    BY <2>2, <2>3, SameHash
  <2> QED BY <1>5, <1>6, <1>11, <2>4
<1>13. DamagedEvents = WrittenEvents
  <2>1. DamagedEvents = [i \in 1..n |-> DamagedEvents[i]]
        /\ WrittenEvents = [i \in 1..n |-> WrittenEvents[i]]
    <3>1. DOMAIN written = 1..m /\ DOMAIN history = 1..n
      BY <1>4, SeqFacts
    <3>2. /\ DamagedEvents = [i \in 1..n |-> wire_event(history[i].event)]
          /\ WrittenEvents = [i \in 1..n |-> wire_event(written[i].event)]
      BY <1>11, <3>1 DEF DamagedEvents, WrittenEvents
    <3> QED BY <3>2
  <2> QED BY <1>12, <2>1
<1>14. Referenced(history) = R
  <2>1. DOMAIN written = 1..n /\ DOMAIN history = 1..n
    BY <1>4, <1>11, SeqFacts
  <2> QED BY <1>12, <2>1 DEF Referenced
<1>15. R \subseteq DOMAIN objects
  <2>1. \A i \in 1..n : referenced_object_hashes_for_kind(DamagedEvents[i].kind)
                           \subseteq DOMAIN d.objects
    BY <1>2, <1>7 DEF EventClean
  <2>2. EventReferences(DamagedEvents) \subseteq DOMAIN d.objects
    BY <1>5, <2>1 DEF EventReferences
  <2> QED BY <1>2, <1>5, <1>14, <2>2
<1>16. R \subseteq Digests
  BY <1>4, KnownRefs
<1> HIDE DEF R
<1>17. DOMAIN d.objects = R /\ DOMAIN s.objects = R
  BY <1>1, <1>2, <1>15
<1>18. ASSUME NEW h \in R PROVE objects[h] = [x \in Digests |-> x[2]][h]
  <2>1. digest_bytes(objects[h]) = h
    BY <1>2, <1>7, <1>15
  <2>2. h[2] = objects[h]
    BY <2>1 DEF digest_bytes
  <2> QED BY <1>16, <2>2
<1>19. d.objects = s.objects
  <2>1. DOMAIN objects \cap R = R
    BY <1>15
  <2>2. d.objects = [h \in R |-> objects[h]]
    BY <1>2, <2>1
  <2> QED BY <1>1, <1>18, <2>2
<1>20. d.events = s.events
  BY <1>1, <1>2, <1>13
<1> QED BY <1>19, <1>20 DEF d, s

LEMMA HeadCommitsHolds ==
  ASSUME VerifyInv, Ended(written)
  PROVE  HeadCommitsToSession
<1> DEFINE declared == Some(written[Len(written)].hash)
<1>1. ASSUME is_clean(verify_history_against_store(history, declared, objects))
      PROVE  Wire(history) = Wire(written) /\ ObjectsIntact(written)
  <2>0. IsHistory(history)
    BY DEF VerifyInv, AllKnown, IsKnown, IsHistory
  <2>1. /\ Linked(history) /\ ObjectsIntact(history) /\ history # <<>>
        /\ declared \in {None, Some(history[Len(history)].hash)}
    <3> HIDE DEF declared
    <3> QED BY <1>1, <2>0, CleanMeans
  <2>2. history[Len(history)].hash = written[Len(written)].hash
    BY <2>1 DEF Some, None
  <2>3. written # <<>>
    BY EndedNotEmpty, SeqFacts DEF VerifyInv
  <2>4. Wire(history) = Wire(written) /\ Referenced(history) = Referenced(written)
    BY <2>1, <2>2, <2>3, SameHistory DEF VerifyInv
  <2>5. ObjectsIntact(written)
    BY <2>1, <2>4 DEF ObjectsIntact
  <2> QED BY <2>4, <2>5
<1>2. ASSUME NEW recounted \in BOOLEAN
      PROVE  LET signed == SignedAsWritten
                 damaged == DamagedBundle(signed, recounted)
                 report == evaluate_bundle(damaged, TrustSigner)
                 refusal == exit_bundle_verify_failed(damaged)
             IN /\ report.signature_verified =>
                     damaged.events = signed.events /\ damaged.objects = signed.objects
                /\ report.passed <=> report.signature_verified
                /\ verify_bundle_strict(damaged) = None <=> report.integrity_ok
                /\ refusal.violations = report.violations
                /\ ~refusal.passed /\ ~refusal.signature_verified
                /\ ClaimsAgree(report)
  <2> DEFINE s == SignedAsWritten
             d == DamagedBundle(s, recounted)
             found == verify_bundle(d)
             report == evaluate_bundle(d, TrustSigner)
             refusal == exit_bundle_verify_failed(d)
  <2>1. d.attestations = <<>>
        /\ d.signatures = <<[key_id |-> "signer",
                             signature |-> Signature("signer", signing_statement(d))]>>
    BY DamagedIs
  <2>2. BundleIsClean(d) => d.events = s.events /\ d.objects = s.objects
    BY DamageShows
  <2> HIDE DEF d, s
  <2>3. TrustedReport(report, found)
    BY <2>1, SignedReport
  <2>4. ClaimsAgree(report)
    <3> HIDE DEF report
    <3> QED BY <2>3, NoCapture, ClaimsHold
  <2>5. (verify_bundle_strict(d) = None) <=> found = {}
    BY DEF verify_bundle_strict, None, Some
  <2>6. refusal.violations = found /\ ~refusal.passed /\ ~refusal.signature_verified
    <3> DEFINE ok == \A v \in found : v.category = "capture_requirement_unmet"
    <3>1. ~AnyOutcome(<<>>, "verified")
      BY DEF AnyOutcome
    <3> HIDE DEF d, found
    <3>2. refusal = build_verify_report(d, FALSE, found, <<>>, <<>>, None)
      BY DEF exit_bundle_verify_failed, found
    <3>3. /\ refusal.violations = found /\ refusal.passed = FALSE
          /\ refusal.signature_verified = (ok /\ AnyOutcome(<<>>, "verified"))
      <4> HIDE DEF refusal
      <4> QED BY <3>2 DEF build_verify_report, FlagGated
    <3> QED BY <3>1, <3>3
  <2> HIDE DEF found, report, refusal
  <2>7. /\ report.signature_verified => d.events = s.events /\ d.objects = s.objects
        /\ report.passed <=> report.signature_verified
        /\ verify_bundle_strict(d) = None <=> report.integrity_ok
        /\ refusal.violations = report.violations
    BY <2>2, <2>3, <2>5, <2>6 DEF TrustedReport, BundleIsClean, found
  <2> QED BY <2>4, <2>6, <2>7 DEF d, s, found, report, refusal
<1> QED BY <1>1, <1>2 DEF HeadCommitsToSession

\* A reader who holds the head of a session, or a bundle signed over it, sees any
\* damage done to its events or objects: SHA-256, taken as perfect, commits to all
\* of it.
THEOREM HeadCommitsAlways == VerifySpec => []HeadCommitsToSession
<1>1. VerifyInv => HeadCommitsToSession
  <2>1. CASE Ended(written)
    BY <2>1, HeadCommitsHolds
  <2>2. CASE ~Ended(written)
    BY <2>2 DEF HeadCommitsToSession
  <2> QED BY <2>1, <2>2
<1> QED BY <1>1, VerifyInductive, PTL

(***************************************************************************)
(* The journal's verifier and the bundle's.                                *)
(***************************************************************************)
Cat(category, holds) == IF holds THEN {category} ELSE {}

SessionEndCats(count, terminal) ==
  Cat("session_end_missing", count = 0) \cup Cat("session_end_duplicate", count > 1)
  \cup Cat("session_end_not_terminal", count = 1 /\ ~terminal)

\* The categories of the report of `session verify`.
LEMMA JsonCategories ==
  ASSUME NEW r
  PROVE  {v[1] : v \in verify_report_v1(r).violations} =
           Cat("missing_object", r.missing_objects # {})
           \cup Cat("object_hash_mismatch", r.object_hash_mismatches # {})
           \cup Cat("event_hash_mismatch", r.hash_mismatches # {})
           \cup Cat("parent_chain", r.broken_parent_links # {})
           \cup Cat("sequence", r.sequence_violations # {})
           \cup Cat("head_mismatch", r.head_mismatch)
           \cup SessionEndCats(r.session_end_count, r.session_end_is_terminal)
<1> DEFINE Of(c, S) == {<<c, x>> : x \in S}
           Single(c, holds) == IF holds THEN {<<c, None>>} ELSE {}
           First(S) == {v[1] : v \in S}
           ends == r.session_end_count
           A == Of("missing_object", r.missing_objects)
           B == Of("object_hash_mismatch", r.object_hash_mismatches)
           C == Of("event_hash_mismatch", r.hash_mismatches)
           D == Of("parent_chain", r.broken_parent_links)
           E == Of("sequence", r.sequence_violations)
           F == Single("head_mismatch", r.head_mismatch)
           G == Single("session_end_missing", ends = 0)
           H == Single("session_end_duplicate", ends > 1)
           J == Single("session_end_not_terminal", ends = 1 /\ ~r.session_end_is_terminal)
<1>1. verify_report_v1(r).violations =
        (((((((A \cup B) \cup C) \cup D) \cup E) \cup F) \cup G) \cup H) \cup J
  BY DEF verify_report_v1
<1>2. ASSUME NEW c, NEW S PROVE First(Of(c, S)) = Cat(c, S # {})
  <2>1. \A x : <<c, x>>[1] = c
    OBVIOUS
  <2>2. First(Of(c, S)) = {<<c, x>>[1] : x \in S}
    OBVIOUS
  <2>3. {<<c, x>>[1] : x \in S} = {c : x \in S}
    BY <2>1
  <2>4. CASE S = {}
    BY <2>2, <2>3, <2>4 DEF Cat
  <2>5. CASE S # {}
    <3>1. {c : x \in S} = {c}
      BY <2>5
    <3> QED BY <2>2, <2>3, <2>5, <3>1 DEF Cat
  <2> QED BY <2>4, <2>5
<1>3. ASSUME NEW c PROVE First({<<c, None>>}) = {c} /\ First({}) = {}
  <2>1. <<c, None>>[1] = c
    OBVIOUS
  <2> QED BY <2>1
<1>4. \A S, T : First(S \cup T) = First(S) \cup First(T)
  OBVIOUS
<1>5. /\ First(A) = Cat("missing_object", r.missing_objects # {})
      /\ First(B) = Cat("object_hash_mismatch", r.object_hash_mismatches # {})
      /\ First(C) = Cat("event_hash_mismatch", r.hash_mismatches # {})
      /\ First(D) = Cat("parent_chain", r.broken_parent_links # {})
      /\ First(E) = Cat("sequence", r.sequence_violations # {})
  <2> HIDE DEF First, Of
  <2> QED BY <1>2, Zenon
<1>6. /\ First(F) = Cat("head_mismatch", r.head_mismatch)
      /\ First(G) = Cat("session_end_missing", ends = 0)
      /\ First(H) = Cat("session_end_duplicate", ends > 1)
      /\ First(J) = Cat("session_end_not_terminal", ends = 1 /\ ~r.session_end_is_terminal)
  <2> HIDE DEF First
  <2> QED BY <1>3 DEF Cat
<1> HIDE DEF A, B, C, D, E, F, G, H, J
<1>7. First((((((((A \cup B) \cup C) \cup D) \cup E) \cup F) \cup G) \cup H) \cup J) =
        (((((((First(A) \cup First(B)) \cup First(C)) \cup First(D)) \cup First(E)) \cup First(F))
          \cup First(G)) \cup First(H)) \cup First(J)
  <2> HIDE DEF First
  <2> DEFINE U1 == A \cup B  U2 == U1 \cup C  U3 == U2 \cup D  U4 == U3 \cup E
             U5 == U4 \cup F  U6 == U5 \cup G  U7 == U6 \cup H
  <2>1. /\ First(U1) = First(A) \cup First(B) /\ First(U2) = First(U1) \cup First(C)
        /\ First(U3) = First(U2) \cup First(D) /\ First(U4) = First(U3) \cup First(E)
        /\ First(U5) = First(U4) \cup First(F) /\ First(U6) = First(U5) \cup First(G)
        /\ First(U7) = First(U6) \cup First(H) /\ First(U7 \cup J) = First(U7) \cup First(J)
    <3> HIDE DEF U1, U2, U3, U4, U5, U6, U7
    <3>1. ASSUME NEW S, NEW T PROVE First(S \cup T) = First(S) \cup First(T)
      BY <1>4
    <3> QED BY <3>1, Zenon DEF U1, U2, U3, U4, U5, U6, U7
  <2> HIDE DEF U7
  <2>2. First(U7 \cup J) = First(U7) \cup First(J)
    BY <2>1
  <2>3. First(U7) = (((((First(A) \cup First(B)) \cup First(C)) \cup First(D)) \cup First(E))
                      \cup First(F)) \cup First(G) \cup First(H)
    <3> HIDE DEF U1, U2, U3, U4, U5, U6
    <3> QED BY <2>1
  <2> QED BY <2>2, <2>3 DEF U7
<1> HIDE DEF First
<1> QED BY <1>1, <1>5, <1>6, <1>7 DEF SessionEndCats, First

LEMMA JsonPassed ==
  ASSUME NEW r, r.session_end_count \in Nat
  PROVE  /\ verify_report_v1(r).passed = is_clean(r)
         /\ (verify_report_v1(r).violations = {}) <=> is_clean(r)
<1>1. (verify_report_v1(r).violations = {}) <=>
        ({v[1] : v \in verify_report_v1(r).violations} = {})
  OBVIOUS
<1>2. verify_report_v1(r).passed = is_clean(r)
  BY DEF verify_report_v1
<1> DEFINE ends == r.session_end_count
<1>3. ({v[1] : v \in verify_report_v1(r).violations} = {}) <=>
        /\ Cat("missing_object", r.missing_objects # {}) = {}
        /\ Cat("object_hash_mismatch", r.object_hash_mismatches # {}) = {}
        /\ Cat("event_hash_mismatch", r.hash_mismatches # {}) = {}
        /\ Cat("parent_chain", r.broken_parent_links # {}) = {}
        /\ Cat("sequence", r.sequence_violations # {}) = {}
        /\ Cat("head_mismatch", r.head_mismatch) = {}
        /\ SessionEndCats(ends, r.session_end_is_terminal) = {}
  BY JsonCategories
<1>4. (SessionEndCats(ends, r.session_end_is_terminal) = {}) <=>
        ends = 1 /\ r.session_end_is_terminal
  BY DEF SessionEndCats, Cat
<1>5. is_clean(r) <=>
        /\ r.missing_objects = {} /\ r.object_hash_mismatches = {} /\ r.hash_mismatches = {}
        /\ r.broken_parent_links = {} /\ r.sequence_violations = {} /\ ~r.head_mismatch
        /\ ends = 1 /\ r.session_end_is_terminal
  BY DEF is_clean
<1> QED BY <1>1, <1>2, <1>3, <1>4, <1>5 DEF Cat

LEMMA HumanPassed ==
  ASSUME NEW r, r.session_end_count \in Nat
  PROVE  /\ (run_verify_exit(TRUE, r) = 0) <=> is_clean(r)
         /\ is_clean(r) <=> /\ run_verify_human(r).nonzero = {}
                           /\ run_verify_human(r).session_end = "present and terminal"
<1>1. (run_verify_exit(TRUE, r) = 0) <=> is_clean(r)
  BY DEF run_verify_exit
<1> DEFINE human == run_verify_human(r)
<1>2. CASE is_clean(r)
  <2>1. human.nonzero = {} /\ human.session_end = "present and terminal"
    BY <1>2 DEF run_verify_human
  <2> QED BY <1>1, <1>2, <2>1
<1>3. CASE ~is_clean(r)
  <2> DEFINE Lists == {c \in {"missing_objects", "object_hash_mismatches", "hash_mismatches",
                            "broken_parent_links", "sequence_violations"} : r[c] # {}}
             ending == CASE r.session_end_count = 0 -> "missing"
                          [] r.session_end_count = 1 /\ r.session_end_is_terminal
                               -> "present and terminal"
                          [] r.session_end_count = 1 -> "not terminal"
                          [] OTHER -> "duplicate"
  <2>1. human.nonzero = Lists \cup (IF r.head_mismatch THEN {"head_mismatch"} ELSE {})
        /\ human.session_end = ending
    BY <1>3 DEF run_verify_human
  <2> HIDE DEF human
  <2>2. (ending = "present and terminal") => r.session_end_count = 1 /\ r.session_end_is_terminal
    OBVIOUS
  <2>3. Lists = {} => /\ r.missing_objects = {} /\ r.object_hash_mismatches = {}
                      /\ r.hash_mismatches = {} /\ r.broken_parent_links = {}
                      /\ r.sequence_violations = {}
    OBVIOUS
  <2> HIDE DEF Lists, ending
  <2>4. ~(human.nonzero = {} /\ human.session_end = "present and terminal")
    BY <1>3, <2>1, <2>2, <2>3 DEF is_clean
  <2> QED BY <1>1, <1>3, <2>4 DEF human
<1> QED BY <1>2, <1>3

Image(S) == {JournalCategory(v.category) : v \in S}

LEMMA ImageUnion ==
  ASSUME NEW S, NEW T
  PROVE  Image(S \cup T) = Image(S) \cup Image(T)
BY DEF Image

LEMMA ImageFound ==
  ASSUME NEW c, NEW holds
  PROVE  Image(Found(c, holds)) = Cat(JournalCategory(c), holds)
<1>1. Violation(c, 0, None).category = c
  BY DEF Violation
<1>2. CASE holds
  BY <1>1, <1>2 DEF Image, Found, Cat
<1>3. CASE ~holds
  BY <1>3 DEF Image, Found, Cat
<1> QED BY <1>2, <1>3

LEMMA EndsCounted ==
  ASSUME NEW es, IsSeq(es)
  PROVE  /\ Cardinality(BundleSessionEnds(es)) \in Nat
         /\ (Cardinality(BundleSessionEnds(es)) = 0) <=> (BundleSessionEnds(es) = {})
<1>1. Len(es) \in Nat /\ DOMAIN es = 1..Len(es)
  BY SeqFacts
<1>2. IsFiniteSet(1..Len(es))
  BY <1>1, FS_Interval
<1>3. IsFiniteSet(BundleSessionEnds(es))
  <2>1. BundleSessionEnds(es) \subseteq 1..Len(es)
    BY <1>1 DEF BundleSessionEnds
  <2> QED BY <1>2, <2>1, FS_Subset
<1> QED BY <1>3, FS_CardinalityType, FS_EmptySet

LEMMA EndCategories ==
  ASSUME NEW es, IsSeq(es)
  PROVE  Image(SessionEndViolations(es)) =
           SessionEndCats(Cardinality(BundleSessionEnds(es)), BundleSessionEnds(es) = {Len(es)})
<1> DEFINE ends == BundleSessionEnds(es)
           M == Found("session_end_missing", ends = {})
           T == Found("session_end_not_terminal", Cardinality(ends) = 1 /\ ends # {Len(es)})
           D == Found("session_end_duplicate", Cardinality(ends) > 1)
<1>1. SessionEndViolations(es) = (M \cup T) \cup D
  BY Zenon DEF SessionEndViolations
<1>2. (Cardinality(ends) = 0) <=> (ends = {})
  BY EndsCounted
<1> HIDE DEF ends
<1>3. /\ Image(M) = Cat(JournalCategory("session_end_missing"), ends = {})
      /\ Image(T) = Cat(JournalCategory("session_end_not_terminal"),
                        Cardinality(ends) = 1 /\ ends # {Len(es)})
      /\ Image(D) = Cat(JournalCategory("session_end_duplicate"), Cardinality(ends) > 1)
  BY ImageFound, Zenon
<1>4. /\ JournalCategory("session_end_missing") = "session_end_missing"
      /\ JournalCategory("session_end_not_terminal") = "session_end_not_terminal"
      /\ JournalCategory("session_end_duplicate") = "session_end_duplicate"
  BY DEF JournalCategory
<1> HIDE DEF M, T, D
<1>5. Image((M \cup T) \cup D) = (Image(M) \cup Image(T)) \cup Image(D)
  <2>1. Image((M \cup T) \cup D) = Image(M \cup T) \cup Image(D)
    BY ImageUnion, Zenon
  <2>2. Image(M \cup T) = Image(M) \cup Image(T)
    BY ImageUnion, Zenon
  <2> QED BY <2>1, <2>2
<1> QED BY <1>1, <1>2, <1>3, <1>4, <1>5 DEF SessionEndCats, Cat, ends

LEMMA BundleCategories ==
  ASSUME NEW b, IsSeq(b.events), Len(b.events) > 0,
         b.object_count = Cardinality(DOMAIN b.objects), b.event_count = Len(b.events),
         DOMAIN b.objects = EventReferences(b.events)
  PROVE  Image(verify_bundle(b)) =
           Cat("event_invariant",
               \E i \in 1..Len(b.events) : event_invariant_violation(b.events[i].kind))
           \cup Cat("object_hash_mismatch", \E x \in DOMAIN b.objects : digest_bytes(b.objects[x]) # x)
           \cup Cat("parent_chain", \E i \in 1..Len(b.events) : BrokenParent(b.events, i))
           \cup Cat("sequence", \E i \in 1..Len(b.events) : b.events[i].sequence # i - 1)
           \cup Cat("head_mismatch", b.head # content_hash(b.events[Len(b.events)]))
           \cup SessionEndCats(Cardinality(BundleSessionEnds(b.events)),
                              BundleSessionEnds(b.events) = {Len(b.events)})
<1> DEFINE n == Len(b.events)
           K == {Violation("object_key_hash_mismatch", 0, Some(h)) :
                   h \in {x \in DOMAIN b.objects : digest_bytes(b.objects[x]) # x}}
           C1 == Found("manifest_object_count_mismatch", b.object_count # Cardinality(DOMAIN b.objects))
           C2 == Found("manifest_event_count_mismatch", b.event_count # n)
           E == UNION {EventViolations(b, i) : i \in 1..n}
           U == {Violation("unreferenced_object", 0, Some(h)) :
                   h \in DOMAIN b.objects \ EventReferences(b.events)}
           S == SessionEndViolations(b.events)
           H == Found("head_mismatch", b.head # content_hash(b.events[n]))
           N == {Violation("no_events", 0, None)}
<1>1. verify_bundle(b) = (C1 \cup C2 \cup K) \cup IF n = 0 THEN N ELSE ((E \cup U) \cup S) \cup H
  BY Zenon DEF verify_bundle
<1>2. C1 = {} /\ C2 = {} /\ U = {} /\ n # 0
  BY DEF Found
<1>3. Image(K) = Cat("object_hash_mismatch", \E x \in DOMAIN b.objects : digest_bytes(b.objects[x]) # x)
  <2> DEFINE X == {x \in DOMAIN b.objects : digest_bytes(b.objects[x]) # x}
             V(h) == Violation("object_key_hash_mismatch", 0, Some(h))
  <2>1. \A h : JournalCategory(V(h).category) = "object_hash_mismatch"
    BY DEF Violation, JournalCategory
  <2>2. K = {V(h) : h \in X}
    OBVIOUS
  <2>3. X # {} <=> \E x \in DOMAIN b.objects : digest_bytes(b.objects[x]) # x
    OBVIOUS
  <2> HIDE DEF X, V, K
  <2>4. CASE X = {}
    BY <2>2, <2>3, <2>4 DEF Image, Cat
  <2>5. CASE X # {}
    <3>1. Image(K) = {"object_hash_mismatch"}
      BY <2>1, <2>2, <2>5 DEF Image
    <3> QED BY <2>3, <2>5, <3>1 DEF Cat
  <2> QED BY <2>4, <2>5
<1>4. Image(E) = Cat("parent_chain", \E i \in 1..n : BrokenParent(b.events, i))
                 \cup Cat("sequence", \E i \in 1..n : b.events[i].sequence # i - 1)
                 \cup Cat("event_invariant", \E i \in 1..n : event_invariant_violation(b.events[i].kind))
  <2> DEFINE at(category, i, holds) == IF holds THEN {Violation(category, i, None)} ELSE {}
             P(i) == at("broken_parent_chain", i, BrokenParent(b.events, i))
             Q(i) == at("sequence", i, b.events[i].sequence # i - 1)
             R(i) == at("event_invariant", i, event_invariant_violation(b.events[i].kind))
  <2>1. ASSUME NEW i \in 1..n PROVE EventViolations(b, i) = (Q(i) \cup P(i)) \cup R(i)
    <3>2. DOMAIN b.events = 1..n
      BY SeqFacts
    <3>3. referenced_object_hashes_for_kind(b.events[i].kind) \ DOMAIN b.objects = {}
      BY <3>2 DEF EventReferences
    <3>4. {Violation("missing_object", i, Some(h)) :
             h \in referenced_object_hashes_for_kind(b.events[i].kind) \ DOMAIN b.objects} = {}
      BY <3>3
    <3> QED BY <3>4 DEF EventViolations
  <2> DEFINE F == {i \in 1..n : BrokenParent(b.events, i)}
             G == {i \in 1..n : b.events[i].sequence # i - 1}
             J == {i \in 1..n : event_invariant_violation(b.events[i].kind)}
             VJ(i) == Violation("event_invariant", i, None)
             VF(i) == Violation("broken_parent_chain", i, None)
             VG(i) == Violation("sequence", i, None)
  <2>2. E = ({VF(i) : i \in F} \cup {VG(i) : i \in G}) \cup {VJ(i) : i \in J}
    <3> HIDE DEF n, VF, VG, VJ
    <3>1. ASSUME NEW i \in 1..n
          PROVE  /\ P(i) = IF i \in F THEN {VF(i)} ELSE {}
                 /\ Q(i) = IF i \in G THEN {VG(i)} ELSE {}
                 /\ R(i) = IF i \in J THEN {VJ(i)} ELSE {}
      BY DEF VF, VG, VJ
    <3> HIDE DEF P, Q, R, F, G, J, at
    <3>2. F \subseteq 1..n /\ G \subseteq 1..n /\ J \subseteq 1..n
      BY DEF F, G, J
    <3>3. ASSUME NEW v \in E
          PROVE  v \in ({VF(i) : i \in F} \cup {VG(i) : i \in G}) \cup {VJ(i) : i \in J}
      <4>1. PICK i \in 1..n : v \in EventViolations(b, i)
        OBVIOUS
      <4> QED BY <2>1, <3>1, <4>1
    <3>4. ASSUME NEW i \in F PROVE VF(i) \in E
      BY <2>1, <3>1, <3>2
    <3>5. ASSUME NEW i \in G PROVE VG(i) \in E
      BY <2>1, <3>1, <3>2
    <3>6. ASSUME NEW i \in J PROVE VJ(i) \in E
      BY <2>1, <3>1, <3>2
    <3> HIDE DEF E
    <3> QED BY <3>3, <3>4, <3>5, <3>6
  <2>3. /\ \A i : JournalCategory(VF(i).category) = "parent_chain"
        /\ \A i : JournalCategory(VG(i).category) = "sequence"
        /\ \A i : JournalCategory(VJ(i).category) = "event_invariant"
    BY DEF Violation, JournalCategory
  <2>4. /\ (F # {}) <=> \E i \in 1..n : BrokenParent(b.events, i)
        /\ (G # {}) <=> \E i \in 1..n : b.events[i].sequence # i - 1
        /\ (J # {}) <=> \E i \in 1..n : event_invariant_violation(b.events[i].kind)
    OBVIOUS
  <2> HIDE DEF F, G, J, VF, VG, VJ, n, E
  <2>5. Image({VF(i) : i \in F}) = Cat("parent_chain", F # {})
    BY <2>3 DEF Image, Cat
  <2>6. Image({VG(i) : i \in G}) = Cat("sequence", G # {})
    BY <2>3 DEF Image, Cat
  <2>7. Image({VJ(i) : i \in J}) = Cat("event_invariant", J # {})
    BY <2>3 DEF Image, Cat
  <2>8. Image(E) = (Image({VF(i) : i \in F}) \cup Image({VG(i) : i \in G}))
                     \cup Image({VJ(i) : i \in J})
    <3> DEFINE A == {VF(i) : i \in F}  B == {VG(i) : i \in G}  C == {VJ(i) : i \in J}
    <3> HIDE DEF A, B, C
    <3>1. Image((A \cup B) \cup C) = Image(A \cup B) \cup Image(C)
      BY ImageUnion, Zenon
    <3>2. Image(A \cup B) = Image(A) \cup Image(B)
      BY ImageUnion, Zenon
    <3> QED BY <2>2, <3>1, <3>2 DEF A, B, C
  <2> QED BY <2>4, <2>5, <2>6, <2>7, <2>8 DEF Cat
<1>5. Image(S) = SessionEndCats(Cardinality(BundleSessionEnds(b.events)),
                               BundleSessionEnds(b.events) = {n})
  BY EndCategories
<1>6. Image(H) = Cat("head_mismatch", b.head # content_hash(b.events[n]))
  <2>1. JournalCategory("head_mismatch") = "head_mismatch"
    BY DEF JournalCategory
  <2> QED BY <2>1, ImageFound
<1> HIDE DEF n, K, C1, C2, E, U, S, H, N
<1>7. verify_bundle(b) = (K \cup E) \cup (S \cup H)
  BY <1>1, <1>2
<1>8. Image(verify_bundle(b)) = (Image(K) \cup Image(E)) \cup (Image(S) \cup Image(H))
  <2>1. Image((K \cup E) \cup (S \cup H)) = Image(K \cup E) \cup Image(S \cup H)
    BY ImageUnion, Zenon
  <2>2. Image(K \cup E) = Image(K) \cup Image(E)
    BY ImageUnion, Zenon
  <2>3. Image(S \cup H) = Image(S) \cup Image(H)
    BY ImageUnion, Zenon
  <2> QED BY <1>7, <2>1, <2>2, <2>3
<1> DEFINE c1 == Cat("object_hash_mismatch", \E x \in DOMAIN b.objects : digest_bytes(b.objects[x]) # x)
           c2 == Cat("parent_chain", \E i \in 1..n : BrokenParent(b.events, i))
           c3 == Cat("sequence", \E i \in 1..n : b.events[i].sequence # i - 1)
           c4 == Cat("head_mismatch", b.head # content_hash(b.events[n]))
           c5 == SessionEndCats(Cardinality(BundleSessionEnds(b.events)),
                               BundleSessionEnds(b.events) = {n})
           c6 == Cat("event_invariant", \E i \in 1..n : event_invariant_violation(b.events[i].kind))
<1>9. Image(K) = c1 /\ Image(E) = c2 \cup c3 \cup c6 /\ Image(S) = c5 /\ Image(H) = c4
  BY <1>3, <1>4, <1>5, <1>6, Zenon
<1> HIDE DEF c1, c2, c3, c4, c5, c6
<1>10. Image(verify_bundle(b)) = c6 \cup c1 \cup c2 \cup c3 \cup c4 \cup c5
  BY <1>8, <1>9
<1> QED BY <1>10, Zenon DEF c1, c2, c3, c4, c5, c6, n

LEMMA ImportedHistory ==
  ASSUME NEW b, IsSeq(b.events)
  PROVE  LET g == bundle_import_history(b)
         IN /\ IsSeq(g) /\ Len(g) = Len(b.events) /\ DOMAIN g = 1..Len(b.events)
            /\ \A i \in 1..Len(b.events) :
                 g[i].event = b.events[i] /\ g[i].hash = content_hash(b.events[i])
<1> DEFINE g == bundle_import_history(b)
           T == {StoredEvent(b.events[i]) : i \in DOMAIN b.events}
<1>1. Len(b.events) \in Nat /\ DOMAIN b.events = 1..Len(b.events)
  BY SeqFacts
<1>2. g \in [1..Len(b.events) -> T]
  BY <1>1 DEF bundle_import_history
<1>3. \A i \in 1..Len(b.events) : g[i] = StoredEvent(b.events[i])
  BY <1>1 DEF bundle_import_history
<1> HIDE DEF g, T
<1>4. IsSeq(g) /\ Len(g) = Len(b.events) /\ DOMAIN g = 1..Len(b.events)
  BY <1>1, <1>2, SeqMade
<1>5. ASSUME NEW i \in 1..Len(b.events)
      PROVE  g[i].event = b.events[i] /\ g[i].hash = content_hash(b.events[i])
  <2>1. g[i] = StoredEvent(b.events[i])
    BY <1>3
  <2>2. \A e : StoredEvent(e).event = e /\ StoredEvent(e).hash = content_hash(e)
    BY DEF StoredEvent
  <2> QED BY <2>1, <2>2
<1> QED BY <1>4, <1>5 DEF g

\* The categories that the journal's verifier finds in what is imported.
LEMMA ImportedCategories ==
  ASSUME NEW b, IsSeq(b.events), Len(b.events) > 0,
         DOMAIN b.objects = EventReferences(b.events)
  PROVE  LET r == verify_history_against_store(bundle_import_history(b), Some(b.head), b.objects)
         IN {v[1] : v \in verify_report_v1(r).violations} =
              Cat("object_hash_mismatch", \E x \in DOMAIN b.objects : digest_bytes(b.objects[x]) # x)
              \cup Cat("parent_chain", \E i \in 1..Len(b.events) : BrokenParent(b.events, i))
              \cup Cat("sequence", \E i \in 1..Len(b.events) : b.events[i].sequence # i - 1)
              \cup Cat("head_mismatch", b.head # content_hash(b.events[Len(b.events)]))
              \cup SessionEndCats(Cardinality(BundleSessionEnds(b.events)),
                                 BundleSessionEnds(b.events) = {Len(b.events)})
<1> DEFINE n == Len(b.events)
           g == bundle_import_history(b)
           r == verify_history_against_store(g, Some(b.head), b.objects)
<1>1. /\ IsSeq(g) /\ Len(g) = n /\ DOMAIN g = 1..n
      /\ \A i \in 1..n : g[i].event = b.events[i] /\ g[i].hash = content_hash(b.events[i])
  BY ImportedHistory
<1>2. n \in Nat /\ n > 0 /\ DOMAIN b.events = 1..n
  BY SeqFacts
<1> HIDE DEF g
<1>3. Referenced(g) = DOMAIN b.objects
  BY <1>1, <1>2 DEF Referenced, EventReferences
<1>4. r.missing_objects = {}
  BY <1>3 DEF verify_history_against_store, missing_objects
<1>5. (r.object_hash_mismatches # {}) <=> \E x \in DOMAIN b.objects : digest_bytes(b.objects[x]) # x
  BY <1>3 DEF verify_history_against_store, object_hash_mismatches
<1>6. r.hash_mismatches = {}
  BY <1>1 DEF verify_history_against_store, hash_mismatches
<1>7. (r.broken_parent_links # {}) <=> \E i \in 1..n : BrokenParent(b.events, i)
  <2>1. r.broken_parent_links = broken_parent_links(g)
    BY DEF verify_history_against_store
  <2>2. ASSUME NEW i \in 1..n PROVE (i \in broken_parent_links(g)) <=> BrokenParent(b.events, i)
    <3>1. CASE i = 1
      BY <1>1, <1>2, <3>1 DEF broken_parent_links, BrokenParent
    <3>2. CASE i # 1
      <4>1. i - 1 \in 1..n
        BY <1>2, <3>2
      <4>2. g[i-1].hash = content_hash(b.events[i-1]) /\ g[i].event = b.events[i]
        BY <1>1, <4>1
      <4> QED BY <1>1, <3>2, <4>2 DEF broken_parent_links, BrokenParent
    <3> QED BY <3>1, <3>2
  <2>3. broken_parent_links(g) \subseteq 1..n
    BY <1>1 DEF broken_parent_links
  <2> QED BY <2>1, <2>2, <2>3
<1>8. (r.sequence_violations # {}) <=> \E i \in 1..n : b.events[i].sequence # i - 1
  BY <1>1 DEF verify_history_against_store, sequence_violations
<1>9. r.head_mismatch <=> b.head # content_hash(b.events[n])
  <2>1. g # <<>> /\ g[n].hash = content_hash(b.events[n])
    BY <1>1, <1>2, SeqFacts
  <2>2. r.head_mismatch = head_mismatch(g, Some(b.head))
    BY DEF verify_history_against_store
  <2>3. Some(b.head) # None /\ ((Some(b.head) # Some(g[n].hash)) <=> b.head # g[n].hash)
    BY DEF Some, None
  <2> QED BY <1>1, <2>1, <2>2, <2>3 DEF head_mismatch
<1>10. SessionEnds(g) = BundleSessionEnds(b.events)
  BY <1>1, <1>2 DEF SessionEnds, BundleSessionEnds
<1>11. /\ r.session_end_count = Cardinality(BundleSessionEnds(b.events))
       /\ r.session_end_is_terminal <=> BundleSessionEnds(b.events) = {n}
  BY <1>1, <1>10 DEF verify_history_against_store, session_end_is_terminal
<1> HIDE DEF r, n
<1>12. {v[1] : v \in verify_report_v1(r).violations} =
         Cat("missing_object", r.missing_objects # {})
         \cup Cat("object_hash_mismatch", r.object_hash_mismatches # {})
         \cup Cat("event_hash_mismatch", r.hash_mismatches # {})
         \cup Cat("parent_chain", r.broken_parent_links # {})
         \cup Cat("sequence", r.sequence_violations # {})
         \cup Cat("head_mismatch", r.head_mismatch)
         \cup SessionEndCats(r.session_end_count, r.session_end_is_terminal)
  BY JsonCategories
<1> DEFINE c1 == Cat("object_hash_mismatch", \E x \in DOMAIN b.objects : digest_bytes(b.objects[x]) # x)
           c2 == Cat("parent_chain", \E i \in 1..n : BrokenParent(b.events, i))
           c3 == Cat("sequence", \E i \in 1..n : b.events[i].sequence # i - 1)
           c4 == Cat("head_mismatch", b.head # content_hash(b.events[n]))
           c5 == SessionEndCats(Cardinality(BundleSessionEnds(b.events)),
                               BundleSessionEnds(b.events) = {n})
<1>13. Cat("missing_object", r.missing_objects # {}) = {}
       /\ Cat("event_hash_mismatch", r.hash_mismatches # {}) = {}
  BY <1>4, <1>6 DEF Cat
<1>14. Cat("object_hash_mismatch", r.object_hash_mismatches # {}) = c1
  BY <1>5 DEF Cat
<1>15. Cat("parent_chain", r.broken_parent_links # {}) = c2
  BY <1>7 DEF Cat
<1>16. Cat("sequence", r.sequence_violations # {}) = c3
  BY <1>8 DEF Cat
<1>17. Cat("head_mismatch", r.head_mismatch) = c4
  BY <1>9 DEF Cat
<1>18. SessionEndCats(r.session_end_count, r.session_end_is_terminal) = c5
  BY <1>11 DEF SessionEndCats, Cat
<1> HIDE DEF c1, c2, c3, c4, c5
<1>19. {v[1] : v \in verify_report_v1(r).violations} = c1 \cup c2 \cup c3 \cup c4 \cup c5
  BY <1>12, <1>13, <1>14, <1>15, <1>16, <1>17, <1>18
<1> QED BY <1>19, Zenon DEF c1, c2, c3, c4, c5, n, r, g

\* A truncated event stream is refused, or holds fewer events than the manifest says.
LEMMA Truncated ==
  ASSUME NEW b, IsBundle(b), IsSeq(b.events), b.event_count = Len(b.events)
  PROVE  TruncationShows(b)
<1> DEFINE N == Len(b.events)
           frames == [i \in DOMAIN b.events |-> Frame(b.events[i], "whole")]
           T == {Frame(b.events[i], f) : i \in 1..N, f \in FrameForms \cup {"whole"}}
<1>1. N \in Nat /\ DOMAIN b.events = 1..N
  BY SeqFacts
<1>2. frames \in [1..N -> T]
  BY <1>1
<1> HIDE DEF frames
<1>3. Len(frames) = N /\ DOMAIN frames = 1..N
  BY <1>1, <1>2, SeqMade
<1> SUFFICES ASSUME NEW n \in 0..(N-1), NEW form \in FrameForms,
                    read_events(SubSeq(frames, 1, n) \o
                      (IF form = "whole" THEN <<>> ELSE <<Frame(b.events[n+1], form)>>)).error = None
             PROVE  ~BundleIsClean([b EXCEPT !.events =
                      read_events(SubSeq(frames, 1, n) \o
                        (IF form = "whole" THEN <<>> ELSE <<Frame(b.events[n+1], form)>>)).events])
  BY <1>3, Zenon DEF TruncationShows, frames
<1> DEFINE s == SubSeq(frames, 1, n)
           rest == IF form = "whole" THEN <<>> ELSE <<Frame(b.events[n+1], form)>>
           t == s \o rest
           read == read_events(t)
<1>4. n \in Nat /\ n + 1 \in 1..N
  BY <1>1
<1>5. s \in Seq(T) /\ Len(s) = n
  <2> HIDE DEF T
  <2>1. \A i \in 1..n : frames[i] \in T
    BY <1>1, <1>2, <1>4, SMTT(60)
  <2> QED BY <1>4, <2>1, SubSeqProperties
<1>0. read.error = None
  OBVIOUS
<1>6. CASE form = "whole"
  <2>1. rest = <<>> /\ t = s
    <3>1. rest = <<>>
      BY <1>6
    <3> HIDE DEF s, T, rest
    <3> QED BY <1>5, <3>1, ConcatEmptySeq
  <2> HIDE DEF t, s, T
  <2>2. DOMAIN t = 1..n
    BY <1>5, <2>1
  <2>3. read.events = [i \in 1..n |-> t[i].event]
    <3> DEFINE bad == {i \in DOMAIN t : t[i].form # "whole"}
               fine == [i \in DOMAIN t |-> t[i].event]
    <3> HIDE DEF bad
    <3>1. read = IF bad = {} THEN [error |-> None, events |-> fine]
                 ELSE [error |-> Some(FrameError(t[FirstOf(bad)].form)), events |-> <<>>]
      BY Zenon DEF read_events, bad
    <3> HIDE DEF read, fine
    <3>2. bad = {}
      BY <1>0, <3>1 DEF Some, None
    <3>3. read.events = fine
      BY <3>1, <3>2
    <3> QED BY <2>2, <3>3 DEF fine
  <2> DEFINE c == [b EXCEPT !.events = read.events]
             E == {t[i].event : i \in 1..n}
  <2>4. c.events = read.events /\ c.event_count = N
    BY DEF IsBundle
  <2>5. IsSeq(c.events) /\ Len(c.events) = n
    <3> HIDE DEF read
    <3>1. c.events \in [1..n -> E]
      BY <2>3, <2>4
    <3> HIDE DEF c, E
    <3> QED BY <1>4, <3>1, SeqMade
  <2> HIDE DEF c
  <2>6. BundleIsClean(c) => c.event_count = Len(c.events)
    BY <2>5, BundleCleanIs
  <2> QED BY <1>4, <2>4, <2>5, <2>6 DEF c, t, s
<1>7. CASE form # "whole"
  <2> DEFINE last == Frame(b.events[n+1], form)
  <2>1. rest = <<last>> /\ last \in T
    BY <1>4, <1>7
  <2>2. last.form = form
    BY DEF Frame
  <2> HIDE DEF s, T, rest, last
  <2>3. Len(rest) = 1 /\ rest[1] = last /\ rest \in Seq(T)
    BY <2>1
  <2>4. t \in Seq(T) /\ Len(t) = n + 1 /\ t[n+1] = last
    <3> DEFINE k == n + 1
    <3>1. t \in Seq(T) /\ Len(t) = Len(s) + Len(rest)
      BY <1>5, <2>3, ConcatProperties
    <3>2. k \in 1..(Len(s) + Len(rest)) /\ ~(k <= Len(s)) /\ k - Len(s) = 1
      BY <1>4, <1>5, <2>3
    <3> HIDE DEF k
    <3>3. t[k] = IF k <= Len(s) THEN s[k] ELSE rest[k - Len(s)]
      <4>1. \A i \in 1..(Len(s) + Len(rest)) :
              (s \o rest)[i] = IF i <= Len(s) THEN s[i] ELSE rest[i - Len(s)]
        <5>1. s \in Seq(T) /\ rest \in Seq(T)
          BY <1>5, <2>3
        <5> QED BY <5>1, ConcatProperties
      <4> QED BY <3>2, <4>1
    <3> HIDE DEF t
    <3> QED BY <1>4, <1>5, <2>3, <3>1, <3>2, <3>3 DEF k
  <2> HIDE DEF t
  <2>5. {i \in DOMAIN t : t[i].form # "whole"} # {}
    BY <1>4, <1>7, <2>2, <2>4
  <2>6. read.error # None
    <3> DEFINE bad == {i \in DOMAIN t : t[i].form # "whole"}
    <3>1. bad # {}
      BY <2>5
    <3>2. read.error = Some(FrameError(t[FirstOf(bad)].form))
      <4> HIDE DEF bad
      <4>1. read = IF bad = {} THEN [error |-> None, events |-> [i \in DOMAIN t |-> t[i].event]]
                   ELSE [error |-> Some(FrameError(t[FirstOf(bad)].form)), events |-> <<>>]
        BY Zenon DEF read_events, bad
      <4> QED BY <3>1, <4>1
    <3> QED BY <3>2 DEF Some, None
  <2> QED BY <2>6 DEF t, s, rest, last
<1> QED BY <1>6, <1>7

Row == [head |-> head, history |-> history]
Exported == OnWire(assemble_session_bundle("s", Row, objects))

LEMMA ExportedIs ==
  LET b == Exported
  IN /\ IsBundle(b) /\ b.events = DamagedEvents
     /\ b.head = head[1] /\ b.objects = [h \in Referenced(history) |-> objects[h]]
     /\ b.object_count = Cardinality(DOMAIN b.objects)
     /\ b.event_count = Len(HistoryEvents(history))
<1> DEFINE a == assemble_session_bundle("s", Row, objects)
           b == OnWire(a)
<1>1. Row.history = history /\ Row.head = head
  BY DEF Row
<1>2. /\ IsBundle(a) /\ a.events = [i \in DOMAIN history |-> history[i].event]
      /\ a.head = head[1] /\ a.objects = [h \in Referenced(history) |-> objects[h]]
      /\ a.event_count = Len(a.events) /\ a.object_count = Cardinality(DOMAIN a.objects)
  BY <1>1, AssembledIs
<1> HIDE DEF a
<1>3. /\ IsBundle(b) /\ b.events = [i \in DOMAIN a.events |-> wire_event(a.events[i])]
      /\ b.head = a.head /\ b.objects = a.objects /\ b.object_count = a.object_count
      /\ b.event_count = a.event_count
  BY <1>2, OnWireIs
<1>4. b.events = DamagedEvents
  BY <1>2, <1>3 DEF DamagedEvents
<1> HIDE DEF b
<1> QED BY <1>2, <1>3, <1>4 DEF Exported, a, b, HistoryEvents

LEMMA ExportedCount ==
  ASSUME VerifyInv
  PROVE  Exported.event_count = Len(history)
<1> DEFINE T == {history[i].event : i \in DOMAIN history}
<1>1. Len(history) \in Nat /\ DOMAIN history = 1..Len(history)
  BY SeqFacts DEF VerifyInv
<1>2. HistoryEvents(history) \in [1..Len(history) -> T]
  BY <1>1 DEF HistoryEvents
<1> HIDE DEF T
<1>3. Len(HistoryEvents(history)) = Len(history)
  BY <1>1, <1>2, SeqMade
<1> QED BY <1>3, ExportedIs

\* What the exported bundle of any session of this model is like.
\* An attempt starts before the one before it, or it does not.
LEMMA StartsOrdered ==
  ASSUME NEW A, \A r \in A : r.started_at \in Int, NEW tries \in Seq(A)
  PROVE  \A i \in DOMAIN tries : i > 1 =>
           (tries[i].started_at < tries[i-1].started_at
              <=> ~(tries[i-1].started_at <= tries[i].started_at))
<1> SUFFICES ASSUME NEW i \in DOMAIN tries, i > 1
             PROVE  tries[i].started_at < tries[i-1].started_at
                      <=> ~(tries[i-1].started_at <= tries[i].started_at)
  OBVIOUS
<1>1. i \in 1..Len(tries) /\ Len(tries) \in Nat
  OBVIOUS
<1>2. i - 1 \in 1..Len(tries)
  BY <1>1
<1>3. tries[i] \in A /\ tries[i-1] \in A
  BY <1>1, <1>2
<1>4. tries[i].started_at \in Int /\ tries[i-1].started_at \in Int
  BY <1>3
<1> QED BY <1>4

\* verify_bundle's own check of a kind refuses what append refuses.
LEMMA SameInvariant ==
  ASSUME NEW kind \in Kinds
  PROVE  event_invariant_violation(kind) <=> ~validate_event_kind_invariants(kind)
<1>1. PICK f \in Forms, x \in Bytes : kind = Kind(f, x)
  BY DEF Kinds
<1>2. kind.tag = f.tag /\ kind.attempts = f.attempts
  BY <1>1 DEF Kind, EventKind
<1> DEFINE A == [attempt_number : Nat, started_at : Int]
<1>3. kind.attempts \in Seq(A)
  BY <1>2, FormsAssumption
<1>4. \A r \in A : r.started_at \in Int
  OBVIOUS
<1> HIDE DEF A
<1>5. \A i \in DOMAIN kind.attempts : i > 1 =>
        (kind.attempts[i].started_at < kind.attempts[i-1].started_at
           <=> ~(kind.attempts[i-1].started_at <= kind.attempts[i].started_at))
  BY <1>3, <1>4, StartsOrdered
<1> QED BY <1>5 DEF event_invariant_violation, validate_event_kind_invariants

LEMMA ExportedFacts ==
  ASSUME VerifyInv, Exportable(Row, objects)
  PROVE  LET b == Exported
         IN /\ IsSeq(b.events) /\ Len(b.events) = Len(history) /\ Len(history) > 0
            /\ b.event_count = Len(b.events) /\ b.object_count = Cardinality(DOMAIN b.objects)
            /\ DOMAIN b.objects = Referenced(history)
            /\ EventReferences(b.events) = Referenced(history)
            /\ KindsAccepted(history) <=>
                 \A i \in 1..Len(history) : ~event_invariant_violation(b.events[i].kind)
<1> DEFINE b == Exported
           n == Len(history)
<1>1. IsSeq(history) /\ AllKnown(history) /\ n \in Nat /\ DOMAIN history = 1..n
  BY SeqFacts DEF VerifyInv
<1>2. /\ b.events = DamagedEvents /\ b.objects = [h \in Referenced(history) |-> objects[h]]
      /\ b.object_count = Cardinality(DOMAIN b.objects) /\ b.event_count = n
  BY ExportedIs, ExportedCount
<1> HIDE DEF b
<1>3. n > 0
  <2>1. \E i \in DOMAIN history : history[i].event.kind.tag = "SessionStart"
    BY DEF Exportable, Row
  <2> QED BY <1>1, <2>1
<1>4. /\ IsSeq(b.events) /\ Len(b.events) = n /\ EventReferences(b.events) = Referenced(history)
  BY <1>1, <1>2, WireEvents DEF DamagedEvents
<1>5. KindsAccepted(history) <=>
        \A i \in 1..n : ~event_invariant_violation(b.events[i].kind)
  <2>1. ASSUME NEW i \in 1..n
        PROVE  ~event_invariant_violation(b.events[i].kind)
                 <=> validate_event_kind_invariants(history[i].event.kind)
    <3>1. b.events[i].kind = history[i].event.kind
      BY <1>1, <1>2, WireEventAt DEF DamagedEvents
    <3>2. history[i].event.kind \in Kinds
      BY <1>1 DEF AllKnown, IsKnown
    <3> QED BY <3>1, <3>2, SameInvariant
  <2> QED BY <1>1, <2>1 DEF KindsAccepted
<1>6. DOMAIN b.objects = Referenced(history)
  BY <1>2
<1> QED BY <1>2, <1>3, <1>4, <1>5, <1>6 DEF b, n

LEMMA CategoriesAgree ==
  ASSUME VerifyInv, Exportable(Row, objects)
  PROVE  LET b == Exported
             r == verify_history_against_store(bundle_import_history(b), Some(b.head), b.objects)
         IN {JournalCategory(v.category) : v \in verify_bundle(b)} =
              {v[1] : v \in verify_report_v1(r).violations}
                \cup (IF KindsAccepted(history) THEN {} ELSE {"event_invariant"})
<1> DEFINE b == Exported
<1>1. /\ IsSeq(b.events) /\ Len(b.events) > 0
      /\ b.event_count = Len(b.events) /\ b.object_count = Cardinality(DOMAIN b.objects)
      /\ DOMAIN b.objects = EventReferences(b.events)
      /\ KindsAccepted(history) <=>
           ~\E i \in 1..Len(b.events) : event_invariant_violation(b.events[i].kind)
  BY ExportedFacts
<1> HIDE DEF b
<1> DEFINE refused ==
             Cat("event_invariant",
                 \E i \in 1..Len(b.events) : event_invariant_violation(b.events[i].kind))
           found ==
             Cat("object_hash_mismatch", \E x \in DOMAIN b.objects : digest_bytes(b.objects[x]) # x)
             \cup Cat("parent_chain", \E i \in 1..Len(b.events) : BrokenParent(b.events, i))
             \cup Cat("sequence", \E i \in 1..Len(b.events) : b.events[i].sequence # i - 1)
             \cup Cat("head_mismatch", b.head # content_hash(b.events[Len(b.events)]))
             \cup SessionEndCats(Cardinality(BundleSessionEnds(b.events)),
                                BundleSessionEnds(b.events) = {Len(b.events)})
           imported_ == verify_history_against_store(
                          bundle_import_history(b), Some(b.head), b.objects)
<1>3. Image(verify_bundle(b)) = refused \cup found
  <2> DEFINE c1 == Cat("object_hash_mismatch", \E x \in DOMAIN b.objects : digest_bytes(b.objects[x]) # x)
             c2 == Cat("parent_chain", \E i \in 1..Len(b.events) : BrokenParent(b.events, i))
             c3 == Cat("sequence", \E i \in 1..Len(b.events) : b.events[i].sequence # i - 1)
             c4 == Cat("head_mismatch", b.head # content_hash(b.events[Len(b.events)]))
             c5 == SessionEndCats(Cardinality(BundleSessionEnds(b.events)),
                                 BundleSessionEnds(b.events) = {Len(b.events)})
  <2>1. Image(verify_bundle(b)) = refused \cup c1 \cup c2 \cup c3 \cup c4 \cup c5
    BY <1>1, BundleCategories
  <2>2. found = c1 \cup c2 \cup c3 \cup c4 \cup c5
    BY Zenon
  <2> HIDE DEF c1, c2, c3, c4, c5, found, refused
  <2> QED BY <2>1, <2>2
<1>5. refused = IF KindsAccepted(history) THEN {} ELSE {"event_invariant"}
  BY <1>1 DEF Cat
<1>4. {v[1] : v \in verify_report_v1(imported_).violations} = found
  BY <1>1, ImportedCategories
<1> HIDE DEF found, refused
<1>2. Image(verify_bundle(b)) =
        {v[1] : v \in verify_report_v1(imported_).violations}
          \cup (IF KindsAccepted(history) THEN {} ELSE {"event_invariant"})
  BY <1>3, <1>4, <1>5
<1> QED BY <1>2, Zenon DEF Image, b

\* A clean session whose provider calls append accepts has a clean bundle.
LEMMA CleanExport ==
  ASSUME VerifyInv, Exportable(Row, objects), KindsAccepted(history),
         is_clean(verify_history_against_store(history, head, objects))
  PROVE  BundleIsClean(Exported)
<1> DEFINE b == Exported
           n == Len(history)
<1>1. /\ IsSeq(b.events) /\ Len(b.events) = n /\ n > 0
      /\ b.event_count = Len(b.events) /\ b.object_count = Cardinality(DOMAIN b.objects)
      /\ DOMAIN b.objects = Referenced(history)
      /\ EventReferences(b.events) = Referenced(history)
      /\ \A i \in 1..n : ~event_invariant_violation(b.events[i].kind)
  BY ExportedFacts
<1>2. /\ b.events = DamagedEvents /\ b.head = head[1]
      /\ b.objects = [h \in Referenced(history) |-> objects[h]]
  BY ExportedIs
<1> HIDE DEF b
<1>3. /\ Linked(history) /\ ObjectsIntact(history) /\ SessionEnds(history) = {n}
      /\ history[1].event.kind.tag = "SessionStart"
      /\ head \in {None, Some(history[n].hash)}
  <2>1. IsHistory(history)
    BY DEF VerifyInv, AllKnown, IsKnown, IsHistory
  <2> QED BY <2>1, CleanMeans
<1>4. /\ IsSeq(history) /\ AllKnown(history) /\ n \in Nat /\ DOMAIN history = 1..n
  BY SeqFacts DEF VerifyInv
<1>5. ASSUME NEW i \in 1..n
      PROVE  /\ content_hash(b.events[i]) = history[i].hash
             /\ b.events[i].kind = history[i].event.kind
             /\ b.events[i].parents = IF i = 1 THEN None ELSE Some(history[i-1].hash)
             /\ b.events[i].sequence = i - 1
  <2>1. /\ content_hash(b.events[i]) = content_hash(history[i].event)
        /\ b.events[i].kind = history[i].event.kind /\ b.events[i].parents = history[i].event.parents
        /\ b.events[i].sequence = history[i].event.sequence
    BY <1>2, <1>4, WireEventAt DEF DamagedEvents
  <2> QED BY <1>3, <2>1 DEF Linked, LinkedAt
<1>6. b.head = content_hash(b.events[n])
  <2>1. head = Some(history[n].hash)
    BY <1>3 DEF Exportable, Row
  <2>2. head[1] = history[n].hash
    BY <2>1 DEF Some
  <2> QED BY <1>1, <1>2, <1>4, <1>5, <2>2
<1>7. \A x \in DOMAIN b.objects : digest_bytes(b.objects[x]) = x
  BY <1>1, <1>2, <1>3 DEF ObjectsIntact
<1>8. BundleSessionEnds(b.events) = {Len(b.events)}
  <2>1. DOMAIN b.events = 1..n
    BY <1>1, SeqFacts
  <2>2. BundleSessionEnds(b.events) = {i \in 1..n : b.events[i].kind.tag = "SessionEnd"}
    BY <2>1 DEF BundleSessionEnds
  <2>3. SessionEnds(history) = {i \in 1..n : history[i].event.kind.tag = "SessionEnd"}
    BY <1>4 DEF SessionEnds
  <2>4. \A i \in 1..n : b.events[i].kind = history[i].event.kind
    BY <1>5
  <2> HIDE DEF n
  <2>5. BundleSessionEnds(b.events) = SessionEnds(history)
    BY <2>2, <2>3, <2>4
  <2> QED BY <1>1, <1>3, <2>5
<1>9. ASSUME NEW i \in 1..n PROVE EventClean(b, i)
  <2>1. ~BrokenParent(b.events, i)
    <3>1. CASE i = 1
      BY <1>3, <1>5, <3>1 DEF BrokenParent
    <3>2. CASE i # 1
      <4>1. i - 1 \in 1..n
        BY <1>4, <3>2
      <4>2. content_hash(b.events[i-1]) = history[i-1].hash
        BY <1>5, <4>1
      <4> QED BY <1>5, <3>2, <4>2 DEF BrokenParent
    <3> QED BY <3>1, <3>2
  <2>2. referenced_object_hashes_for_kind(b.events[i].kind) \subseteq DOMAIN b.objects
    BY <1>1, <1>4, <1>5 DEF Referenced
  <2> QED BY <1>1, <1>5, <2>1, <2>2 DEF EventClean
<1>10. BundleIsClean(b)
  BY <1>1, <1>6, <1>7, <1>8, <1>9, BundleCleanIs
<1> QED BY <1>10 DEF b

\* Both verifiers, their reports and their exit codes agree on every session, but
\* for a ProviderCall whose attempts append would refuse, which verify_bundle alone
\* reports, and reports of every such session.
THEOREM VerifiersAlwaysAgree == VerifySpec => []VerifiersAgree
<1>1. ASSUME VerifyInv PROVE VerifiersAgree
  <2> DEFINE report == verify_history_against_store(history, head, objects)
             json == verify_report_v1(report)
             human == run_verify_human(report)
             imported_ == verify_history_against_store(bundle_import_history(Exported),
                            Some(Exported.head), Exported.objects)
  <2>1. report.session_end_count \in Nat
    <3>1. IsFiniteSet(1..Len(history)) /\ DOMAIN history = 1..Len(history)
      <4>1. Len(history) \in Nat /\ DOMAIN history = 1..Len(history)
        BY <1>1, SeqFacts DEF VerifyInv
      <4> QED BY <4>1, FS_Interval
    <3>2. SessionEnds(history) \subseteq 1..Len(history)
      BY <3>1 DEF SessionEnds
    <3>3. Cardinality(SessionEnds(history)) \in Nat
      BY <3>1, <3>2, FS_Subset, FS_CardinalityType
    <3>4. report.session_end_count = Cardinality(SessionEnds(history))
      BY DEF verify_history_against_store
    <3> QED BY <3>3, <3>4
  <2>2. (json.violations = {}) <=> json.passed
    <3> HIDE DEF report
    <3>1. json.passed = is_clean(report) /\ ((json.violations = {}) <=> is_clean(report))
      BY <2>1, JsonPassed
    <3> QED BY <3>1
  <2>3. /\ json.passed <=> run_verify_exit(TRUE, report) = 0
        /\ json.passed <=> human.nonzero = {} /\ human.session_end = "present and terminal"
    <3> HIDE DEF report
    <3>1. json.passed = is_clean(report)
      BY <2>1, JsonPassed
    <3>2. (run_verify_exit(TRUE, report) = 0) <=> is_clean(report)
      BY <2>1, HumanPassed
    <3>3. is_clean(report) <=> human.nonzero = {} /\ human.session_end = "present and terminal"
      BY <2>1, HumanPassed
    <3> HIDE DEF json, human
    <3> QED BY <3>1, <3>2, <3>3
  <2>4. ASSUME Exportable(Row, objects)
        PROVE  /\ {JournalCategory(v.category) : v \in verify_bundle(Exported)} =
                    {v[1] : v \in verify_report_v1(imported_).violations}
                      \cup (IF KindsAccepted(history) THEN {} ELSE {"event_invariant"})
               /\ is_clean(report) =>
                    /\ TruncationShows(Exported)
                    /\ BundleIsClean(Exported) <=> KindsAccepted(history)
    <3>1. {JournalCategory(v.category) : v \in verify_bundle(Exported)} =
            {v[1] : v \in verify_report_v1(imported_).violations}
              \cup (IF KindsAccepted(history) THEN {} ELSE {"event_invariant"})
      BY <1>1, <2>4, CategoriesAgree
    <3>2. is_clean(report) /\ KindsAccepted(history) => BundleIsClean(Exported)
      BY <1>1, <2>4, CleanExport
    <3>3. BundleIsClean(Exported) => KindsAccepted(history)
      <4>1. ASSUME verify_bundle(Exported) = {}
            PROVE  {JournalCategory(v.category) : v \in verify_bundle(Exported)} = {}
        BY <4>1
      <4>2. ASSUME ~KindsAccepted(history)
            PROVE  {JournalCategory(v.category) : v \in verify_bundle(Exported)} # {}
        BY <3>1, <4>2
      <4> QED BY <4>1, <4>2 DEF BundleIsClean
    <3>4. is_clean(report) => (BundleIsClean(Exported) <=> KindsAccepted(history))
      BY <3>2, <3>3
    <3>5. TruncationShows(Exported)
      <4>1. IsBundle(Exported) /\ IsSeq(Exported.events)
            /\ Exported.event_count = Len(Exported.events)
        BY <1>1, <2>4, ExportedIs, ExportedFacts
      <4> QED BY <4>1, Truncated
    <3> QED BY <3>1, <3>4, <3>5
  <2> QED BY <2>2, <2>3, <2>4, Zenon DEF VerifiersAgree, Exported, Row
<1> QED BY <1>1, VerifyInductive, PTL

(***************************************************************************)
(* Entries that are signed and attested one after the other.               *)
(***************************************************************************)
\* A further entry, of either kind.
Added(b, c) ==
  \/ \E key : c = add_head_signature(b, key)
  \/ \E identity, key : c = add_operator_attestation(b, identity, key)

\* All but the entries, and the version while nothing covers it, stays.
SameContents(b, c) ==
  /\ c.session = b.session /\ c.head = b.head /\ c.events = b.events
  /\ c.objects = b.objects /\ c.event_count = b.event_count
  /\ c.object_count = b.object_count

Covered(b) == b.signatures # <<>> \/ b.attestations # <<>>

LEMMA StampIs ==
  ASSUME NEW b, IsBundle(b)
  PROVE  /\ IsBundle(Stamp(b)) /\ SameContents(b, Stamp(b))
         /\ Stamp(b).signatures = b.signatures /\ Stamp(b).attestations = b.attestations
         /\ Covered(b) => Stamp(b) = b
BY DEF Stamp, IsBundle, SameContents, Covered, manifest_unsigned_and_unattested

\* Of a bundle that nothing covers, the version does not matter.
LEMMA StampGenuine ==
  ASSUME NEW b, Genuine(b)
  PROVE  Genuine(Stamp(b))
<1>1. CASE Covered(b)
  BY <1>1, StampIs DEF Genuine
<1>2. CASE ~Covered(b)
  <2>1. Stamp(b).signatures = <<>> /\ Stamp(b).attestations = <<>>
        /\ IsBundle(Stamp(b)) /\ Stamp(b).events = b.events /\ Stamp(b).objects = b.objects
    BY <1>2, StampIs DEF Genuine, Covered, SameContents
  <2>2. IsSeq(b.events) /\ IsMap(b.objects) /\ IsSeq(<<>>) /\ DOMAIN <<>> = {}
    BY DEF Genuine, IsSeq
  <2> QED BY <2>1, <2>2 DEF Genuine
<1> QED BY <1>1, <1>2

LEMMA SignedOneMore ==
  ASSUME NEW b, Genuine(b), NEW key
  PROVE  LET c == add_head_signature(b, key)
         IN /\ Genuine(c) /\ SameContents(b, c)
            /\ c.attestations = b.attestations
            /\ Len(c.signatures) = Len(b.signatures) + 1
            /\ \A i \in 1..Len(b.signatures) : c.signatures[i] = b.signatures[i]
            /\ c.signatures[Len(b.signatures) + 1].key_id = key
            /\ Covered(b) => c.agef_version = b.agef_version
<1> DEFINE s == Stamp(b)
           x == [key_id |-> key, signature |-> Signature(key, signing_statement(s))]
           c == add_head_signature(b, key)
<1>1. Genuine(s) /\ SameContents(b, s) /\ s.signatures = b.signatures
      /\ s.attestations = b.attestations /\ (Covered(b) => s = b)
  BY StampGenuine, StampIs DEF Genuine
<1> HIDE DEF s
<1>2. c = [s EXCEPT !.signatures = Append(s.signatures, x)]
  BY DEF add_head_signature, s
<1> HIDE DEF x, c
<1>3. IsBundle(c) /\ c.signatures = Append(s.signatures, x)
      /\ c.attestations = s.attestations /\ c.events = s.events
      /\ SameContents(s, c) /\ c.agef_version = s.agef_version
  BY <1>1, <1>2 DEF Genuine, IsBundle, SameContents
<1>4. /\ IsSeq(c.signatures) /\ Len(c.signatures) = Len(s.signatures) + 1
      /\ \A i \in 1..Len(s.signatures) : c.signatures[i] = s.signatures[i]
      /\ c.signatures[Len(s.signatures) + 1] = x
  BY <1>1, <1>3, SeqAppend DEF Genuine
<1>5. Len(s.signatures) \in Nat /\ DOMAIN s.signatures = 1..Len(s.signatures)
      /\ DOMAIN c.signatures = 1..(Len(s.signatures) + 1)
  BY <1>1, <1>4, SeqFacts DEF Genuine
<1>6. signing_statement(c) = signing_statement(s)
      /\ \A identity : operator_statement(c, identity) = operator_statement(s, identity)
  BY <1>3 DEF signing_statement, operator_statement, SameContents
<1>7. ASSUME NEW i \in DOMAIN c.signatures
      PROVE  LET k == c.signatures[i].key_id
             IN c.signatures[i] =
                  [key_id |-> k, signature |-> Signature(k, signing_statement(c))]
  <2>1. CASE i = Len(s.signatures) + 1
    BY <1>4, <1>6, <2>1 DEF x
  <2>2. CASE i # Len(s.signatures) + 1
    <3>1. i \in DOMAIN s.signatures /\ c.signatures[i] = s.signatures[i]
      BY <1>4, <1>5, <2>2
    <3> QED BY <1>1, <1>6, <3>1 DEF Genuine
  <2> QED BY <2>1, <2>2
<1>8. Genuine(c)
  <2>1. IsSeq(c.events) /\ IsMap(c.objects) /\ IsSeq(c.attestations)
    BY <1>1, <1>3 DEF Genuine, SameContents
  <2>2. \A i \in DOMAIN c.attestations :
          LET k == c.attestations[i].key_id  identity == c.attestations[i].identity
          IN c.attestations[i] = [key_id |-> k, identity |-> identity,
                               signature |-> Signature(k, operator_statement(c, identity))]
    <3> SUFFICES ASSUME NEW i \in DOMAIN c.attestations
                 PROVE  LET k == c.attestations[i].key_id
                            identity == c.attestations[i].identity
                        IN c.attestations[i] = [key_id |-> k, identity |-> identity,
                             signature |-> Signature(k, operator_statement(c, identity))]
      OBVIOUS
    <3>1. LET k == s.attestations[i].key_id  identity == s.attestations[i].identity
          IN s.attestations[i] = [key_id |-> k, identity |-> identity,
                               signature |-> Signature(k, operator_statement(s, identity))]
      BY <1>1, <1>3 DEF Genuine
    <3> QED BY <1>3, <1>6, <3>1
  <2> QED BY <1>3, <1>4, <1>7, <2>1, <2>2 DEF Genuine
<1>9. x.key_id = key
  BY DEF x
<1>10. SameContents(b, c)
  BY <1>1, <1>3 DEF SameContents
<1>11. Covered(b) => c.agef_version = b.agef_version
  BY <1>1, <1>3
<1> QED BY <1>1, <1>3, <1>4, <1>8, <1>9, <1>10, <1>11 DEF c

LEMMA AttestedOneMore ==
  ASSUME NEW b, Genuine(b), NEW name, NEW key
  PROVE  LET c == add_operator_attestation(b, name, key)
         IN /\ Genuine(c) /\ SameContents(b, c)
            /\ c.signatures = b.signatures
            /\ Len(c.attestations) = Len(b.attestations) + 1
            /\ \A i \in 1..Len(b.attestations) : c.attestations[i] = b.attestations[i]
            /\ c.attestations[Len(b.attestations) + 1].key_id = key
            /\ Covered(b) => c.agef_version = b.agef_version
<1> DEFINE s == Stamp(b)
           x == [key_id |-> key, identity |-> name,
                signature |-> Signature(key, operator_statement(s, name))]
           c == add_operator_attestation(b, name, key)
<1>1. Genuine(s) /\ SameContents(b, s) /\ s.attestations = b.attestations
      /\ s.signatures = b.signatures /\ (Covered(b) => s = b)
  BY StampGenuine, StampIs DEF Genuine
<1> HIDE DEF s
<1>2. c = [s EXCEPT !.attestations = Append(s.attestations, x)]
  BY DEF add_operator_attestation, s
<1> HIDE DEF x, c
<1>3. IsBundle(c) /\ c.attestations = Append(s.attestations, x)
      /\ c.signatures = s.signatures /\ c.events = s.events
      /\ SameContents(s, c) /\ c.agef_version = s.agef_version
  BY <1>1, <1>2 DEF Genuine, IsBundle, SameContents
<1>4. /\ IsSeq(c.attestations) /\ Len(c.attestations) = Len(s.attestations) + 1
      /\ \A i \in 1..Len(s.attestations) : c.attestations[i] = s.attestations[i]
      /\ c.attestations[Len(s.attestations) + 1] = x
  BY <1>1, <1>3, SeqAppend DEF Genuine
<1>5. Len(s.attestations) \in Nat /\ DOMAIN s.attestations = 1..Len(s.attestations)
      /\ DOMAIN c.attestations = 1..(Len(s.attestations) + 1)
  BY <1>1, <1>4, SeqFacts DEF Genuine
<1>6. signing_statement(c) = signing_statement(s)
      /\ \A identity : operator_statement(c, identity) = operator_statement(s, identity)
  BY <1>3 DEF signing_statement, operator_statement, SameContents
<1>7. ASSUME NEW i \in DOMAIN c.attestations
      PROVE  LET k == c.attestations[i].key_id  identity == c.attestations[i].identity
             IN c.attestations[i] = [key_id |-> k, identity |-> identity,
                               signature |-> Signature(k, operator_statement(c, identity))]
  <2>1. CASE i = Len(s.attestations) + 1
    BY <1>4, <1>6, <2>1 DEF x
  <2>2. CASE i # Len(s.attestations) + 1
    <3>1. i \in DOMAIN s.attestations /\ c.attestations[i] = s.attestations[i]
      BY <1>4, <1>5, <2>2
    <3>2. LET k == s.attestations[i].key_id  identity == s.attestations[i].identity
          IN s.attestations[i] = [key_id |-> k, identity |-> identity,
                               signature |-> Signature(k, operator_statement(s, identity))]
      BY <1>1, <3>1 DEF Genuine
    <3> QED BY <1>6, <3>1, <3>2
  <2> QED BY <2>1, <2>2
<1>8. Genuine(c)
  <2>1. IsSeq(c.events) /\ IsMap(c.objects) /\ IsSeq(c.signatures)
    BY <1>1, <1>3 DEF Genuine, SameContents
  <2>2. \A i \in DOMAIN c.signatures :
          LET k == c.signatures[i].key_id
          IN c.signatures[i] = [key_id |-> k, signature |-> Signature(k, signing_statement(c))]
    <3> SUFFICES ASSUME NEW i \in DOMAIN c.signatures
                 PROVE  LET k == c.signatures[i].key_id
                        IN c.signatures[i] =
                             [key_id |-> k, signature |-> Signature(k, signing_statement(c))]
      OBVIOUS
    <3>1. LET k == s.signatures[i].key_id
          IN s.signatures[i] = [key_id |-> k, signature |-> Signature(k, signing_statement(s))]
      BY <1>1, <1>3 DEF Genuine
    <3> QED BY <1>3, <1>6, <3>1
  <2> QED BY <1>3, <1>4, <1>7, <2>1, <2>2 DEF Genuine
<1>9. x.key_id = key
  BY DEF x
<1>10. SameContents(b, c)
  BY <1>1, <1>3 DEF SameContents
<1>11. Covered(b) => c.agef_version = b.agef_version
  BY <1>1, <1>3
<1> QED BY <1>1, <1>3, <1>4, <1>8, <1>9, <1>10, <1>11 DEF c

(***************************************************************************)
(* What a verifier says of genuine entries.                                *)
(***************************************************************************)
Said(key, trusted) == IF key \in trusted THEN "verified" ELSE "unverified_no_key"

LEMMA SaidOfSignature ==
  ASSUME NEW b, Genuine(b), NEW trusted, NEW i \in DOMAIN b.signatures
  PROVE  verify_manifest_signatures(b, trusted)[i] = Said(b.signatures[i].key_id, trusted)
<1> DEFINE k == b.signatures[i].key_id
           st == signing_statement(b)
<1>1. b.signatures[i] = [key_id |-> k, signature |-> Signature(k, st)]
  BY DEF Genuine
<1>2. b.signatures[i].signature = Signature(k, st)
  <2> HIDE DEF k, st
  <2> QED BY <1>1
<1>3. verify_manifest_signatures(b, trusted)[i] = Outcome(b.signatures[i], st, trusted)
  BY DEF verify_manifest_signatures
<1> HIDE DEF st
<1>4. \A key : (Signature(k, st) = Signature(key, st)) => key = k
  <2>1. \A key : Signature(key, st).key = key
    BY DEF Signature
  <2> QED BY <2>1
<1>5. (\E key \in trusted : b.signatures[i].signature = Signature(key, st)) <=> k \in trusted
  BY <1>2, <1>4
<1> QED BY <1>3, <1>5 DEF Outcome, Said

LEMMA SaidOfAttestation ==
  ASSUME NEW b, Genuine(b), NEW trusted, NEW i \in DOMAIN b.attestations
  PROVE  verify_operator_attestations(b, trusted)[i] = Said(b.attestations[i].key_id, trusted)
<1> DEFINE k == b.attestations[i].key_id
           identity == b.attestations[i].identity
           st == operator_statement(b, identity)
<1>1. b.attestations[i] = [key_id |-> k, identity |-> identity, signature |-> Signature(k, st)]
  BY DEF Genuine
<1>2. b.attestations[i].signature = Signature(k, st)
  <2> HIDE DEF k, st, identity
  <2> QED BY <1>1
<1>3. verify_operator_attestations(b, trusted)[i] = Outcome(b.attestations[i], st, trusted)
  BY DEF verify_operator_attestations
<1> HIDE DEF st
<1>4. \A key : (Signature(k, st) = Signature(key, st)) => key = k
  <2>1. \A key : Signature(key, st).key = key
    BY DEF Signature
  <2> QED BY <2>1
<1>5. (\E key \in trusted : b.attestations[i].signature = Signature(key, st)) <=> k \in trusted
  BY <1>2, <1>4
<1> QED BY <1>3, <1>5 DEF Outcome, Said

\* Someone with a trusted key has signed (attested).
SignedBy(b, trusted) == \E i \in DOMAIN b.signatures : b.signatures[i].key_id \in trusted
AttestedBy(b, trusted) == \E i \in DOMAIN b.attestations : b.attestations[i].key_id \in trusted

LEMMA OutcomesSay ==
  ASSUME NEW b, Genuine(b), NEW trusted
  PROVE  LET s == verify_manifest_signatures(b, trusted)
             o == verify_operator_attestations(b, trusted)
         IN /\ AnyOutcome(s, "verified") <=> SignedBy(b, trusted)
            /\ AnyOutcome(o, "verified") <=> AttestedBy(b, trusted)
            /\ ~AnyOutcome(s, "invalid") /\ ~AnyOutcome(o, "invalid")
            /\ DOMAIN s = DOMAIN b.signatures /\ DOMAIN o = DOMAIN b.attestations
<1> DEFINE s == verify_manifest_signatures(b, trusted)
           o == verify_operator_attestations(b, trusted)
<1>1. DOMAIN s = DOMAIN b.signatures /\ DOMAIN o = DOMAIN b.attestations
  BY DEF verify_manifest_signatures, verify_operator_attestations
<1>2. \A i \in DOMAIN b.signatures : s[i] = Said(b.signatures[i].key_id, trusted)
  BY SaidOfSignature
<1>3. \A i \in DOMAIN b.attestations : o[i] = Said(b.attestations[i].key_id, trusted)
  BY SaidOfAttestation
<1> HIDE DEF s, o
<1>4. /\ AnyOutcome(s, "verified") <=> SignedBy(b, trusted)
      /\ ~AnyOutcome(s, "invalid")
  BY <1>1, <1>2 DEF AnyOutcome, SignedBy, Said
<1>5. /\ AnyOutcome(o, "verified") <=> AttestedBy(b, trusted)
      /\ ~AnyOutcome(o, "invalid")
  BY <1>1, <1>3 DEF AnyOutcome, AttestedBy, Said
<1> QED BY <1>1, <1>4, <1>5 DEF s, o

\* The policy of a seal's own verification.
ElementsOf(operator) == {operator[i] : i \in DOMAIN operator}

LEMMA SealPasses ==
  ASSUME NEW b, Genuine(b), NEW signer, NEW operator
  PROVE  (BundleVerifyExit(SealFlags(signer, operator), Keys, None, b) = 0) <=>
           /\ signer \in Keys /\ ElementsOf(operator) \subseteq Keys
           /\ BundleIsClean(b) /\ SignedBy(b, {signer})
           /\ \A key \in ElementsOf(operator) : AttestedBy(b, {key})
<1> DEFINE flags == SealFlags(signer, operator)
           ops == ElementsOf(operator)
           policy == [flags EXCEPT !.operators = {} \cup ops]
           loaded == load_policy(flags, Keys)
           found == verify_bundle(b)
           s == verify_manifest_signatures(b, {signer})
           o == verify_operator_attestations(b, ops)
           r == evaluate_bundle(b, policy)
<1>1. flags.signers = {signer} /\ flags.operators = {} /\ flags.required_operators = ops
  BY DEF SealFlags, NoPolicy, ElementsOf
<1>2. /\ policy.signers = {signer} /\ policy.required_operators = ops
      /\ policy.operators = ops /\ policy.require_signature = TRUE
      /\ policy.require_operator = FALSE /\ policy.require_capture = FALSE
  <2>1. {} \cup ops = ops
    OBVIOUS
  <2>2. policy = [NoPolicy EXCEPT !.signers = {signer}, !.require_signature = TRUE,
                                  !.required_operators = ops, !.operators = ops]
    BY <2>1 DEF SealFlags, ElementsOf
  <2> HIDE DEF policy, ops
  <2> QED BY <2>2 DEF NoPolicy
<1> HIDE DEF flags, ops
<1>3. CASE ~(signer \in Keys /\ ops \subseteq Keys)
  <2>1. loaded.error # None
    BY <1>1, <1>3 DEF load_policy, None, Some
  <2>2. BundleVerifyExit(flags, Keys, None, b) = 3
    BY <2>1 DEF BundleVerifyExit
  <2> QED BY <1>3, <2>2 DEF flags, ops
<1>4. CASE signer \in Keys /\ ops \subseteq Keys
  <2>1. loaded = [error |-> None, policy |-> policy]
    <3>1. flags.operators \cup flags.required_operators = ops
      BY <1>1
    <3>2. policy = [flags EXCEPT !.operators = @ \cup flags.required_operators]
      BY <1>1
    <3> HIDE DEF policy
    <3> QED BY <1>1, <1>4, <3>1, <3>2 DEF load_policy
  <2> HIDE DEF loaded, policy
  <2>2. loaded.error = None /\ loaded.policy = policy
    BY <2>1
  <2>3. BundleVerifyExit(flags, Keys, None, b) = IF r.passed THEN 0 ELSE 1
    BY <2>2 DEF BundleVerifyExit, loaded
  <2>4. policy.signers = {signer} /\ policy.operators = ops
        /\ policy.require_signature = TRUE /\ policy.require_operator = FALSE
        /\ policy.required_operators = ops /\ policy.require_capture = FALSE
    BY <1>2
  <2>5. capture_requirement_unmet(policy.require_capture, otel_capture_info(b)) = FALSE
    BY <2>4 DEF capture_requirement_unmet
  <2>6. r.passed = ComputePassed(found, s, policy, operator_requirements_ok(b, o, policy), FALSE)
    BY <2>4, <2>5, Zenon DEF evaluate_bundle, build_verify_report
  <2>7. /\ AnyOutcome(s, "verified") <=> SignedBy(b, {signer})
        /\ ~AnyOutcome(s, "invalid")
    BY OutcomesSay
  <2>8. ~AnyOutcome(o, "invalid") /\ DOMAIN o = DOMAIN b.attestations
        /\ \A i \in DOMAIN b.attestations : o[i] = Said(b.attestations[i].key_id, ops)
    BY OutcomesSay, SaidOfAttestation
  <2>9. operator_requirements_ok(b, o, policy) <=> \A key \in ops : AttestedBy(b, {key})
    <3> HIDE DEF o
    <3>1. \A key \in ops : (\E i \in DOMAIN o : o[i] = "verified" /\ b.attestations[i].key_id = key)
                          <=> AttestedBy(b, {key})
      BY <2>8 DEF AttestedBy, Said
    <3> QED BY <2>4, <2>8, <3>1 DEF operator_requirements_ok
  <2>10. (found = {}) <=> BundleIsClean(b)
    BY DEF BundleIsClean
  <2> HIDE DEF r, s, o, found
  <2>11. r.passed <=> /\ BundleIsClean(b) /\ SignedBy(b, {signer})
                     /\ \A key \in ops : AttestedBy(b, {key})
    BY <2>4, <2>6, <2>7, <2>9, <2>10 DEF ComputePassed
  <2> QED BY <1>4, <2>3, <2>11 DEF flags, ops
<1> QED BY <1>3, <1>4

LEMMA SameClean ==
  ASSUME NEW b, NEW c, Genuine(b), Genuine(c), SameContents(b, c)
  PROVE  BundleIsClean(c) <=> BundleIsClean(b)
<1>1. \A i : EventClean(b, i) <=> EventClean(c, i)
  BY DEF SameContents, EventClean
<1>2. IsSeq(b.events) /\ IsSeq(c.events)
  BY DEF Genuine
<1> QED BY <1>1, <1>2, BundleCleanIs DEF SameContents

\* A further entry keeps every entry, and who has signed what.
LEMMA OneMoreIs ==
  ASSUME NEW b, Genuine(b), NEW c, Added(b, c)
  PROVE  /\ Genuine(c) /\ SameContents(b, c)
         /\ \A trusted : SignedBy(b, trusted) => SignedBy(c, trusted)
         /\ \A trusted : AttestedBy(b, trusted) => AttestedBy(c, trusted)
<1>1. ASSUME NEW key, c = add_head_signature(b, key)
      PROVE  /\ Genuine(c) /\ SameContents(b, c)
             /\ \A trusted : SignedBy(b, trusted) => SignedBy(c, trusted)
             /\ \A trusted : AttestedBy(b, trusted) => AttestedBy(c, trusted)
  <2>1. Genuine(c) /\ SameContents(b, c) /\ c.attestations = b.attestations
        /\ Len(c.signatures) = Len(b.signatures) + 1
        /\ \A i \in 1..Len(b.signatures) : c.signatures[i] = b.signatures[i]
    BY <1>1, SignedOneMore
  <2>2. DOMAIN b.signatures = 1..Len(b.signatures) /\ Len(b.signatures) \in Nat
        /\ DOMAIN c.signatures = 1..Len(c.signatures)
    BY <2>1, SeqFacts DEF Genuine
  <2>3. DOMAIN b.signatures \subseteq DOMAIN c.signatures
    BY <2>1, <2>2
  <2> QED BY <2>1, <2>2, <2>3 DEF SignedBy, AttestedBy
<1>2. ASSUME NEW name, NEW key, c = add_operator_attestation(b, name, key)
      PROVE  /\ Genuine(c) /\ SameContents(b, c)
             /\ \A trusted : SignedBy(b, trusted) => SignedBy(c, trusted)
             /\ \A trusted : AttestedBy(b, trusted) => AttestedBy(c, trusted)
  <2>1. Genuine(c) /\ SameContents(b, c) /\ c.signatures = b.signatures
        /\ Len(c.attestations) = Len(b.attestations) + 1
        /\ \A i \in 1..Len(b.attestations) : c.attestations[i] = b.attestations[i]
    BY <1>2, AttestedOneMore
  <2>2. DOMAIN b.attestations = 1..Len(b.attestations) /\ Len(b.attestations) \in Nat
        /\ DOMAIN c.attestations = 1..Len(c.attestations)
    BY <2>1, SeqFacts DEF Genuine
  <2>3. DOMAIN b.attestations \subseteq DOMAIN c.attestations
    BY <2>1, <2>2
  <2> QED BY <2>1, <2>2, <2>3 DEF SignedBy, AttestedBy
<1> QED BY <1>1, <1>2 DEF Added

\* What verifies under the key files of a seal still does with one entry more.
LEMMA SealStays ==
  ASSUME NEW b, Genuine(b), NEW c, Added(b, c), NEW signer, NEW operator,
         BundleVerifyExit(SealFlags(signer, operator), Keys, None, b) = 0
  PROVE  BundleVerifyExit(SealFlags(signer, operator), Keys, None, c) = 0
<1>1. Genuine(c) /\ SameContents(b, c)
      /\ (\A trusted : SignedBy(b, trusted) => SignedBy(c, trusted))
      /\ (\A trusted : AttestedBy(b, trusted) => AttestedBy(c, trusted))
  BY OneMoreIs
<1>2. BundleIsClean(c) <=> BundleIsClean(b)
  BY <1>1, SameClean
<1>3. /\ signer \in Keys /\ ElementsOf(operator) \subseteq Keys
      /\ BundleIsClean(b) /\ SignedBy(b, {signer})
      /\ \A key \in ElementsOf(operator) : AttestedBy(b, {key})
  BY SealPasses
<1>4. /\ BundleIsClean(c) /\ SignedBy(c, {signer})
      /\ \A key \in ElementsOf(operator) : AttestedBy(c, {key})
  BY <1>1, <1>2, <1>3
<1> QED BY <1>1, <1>3, <1>4, SealPasses

(***************************************************************************)
(* prove-openssl hands out what `bundle verify` finds.                     *)
(***************************************************************************)
LEMMA FirstIsOne ==
  ASSUME NEW S \in SUBSET Nat, S # {}
  PROVE  FirstOf(S) \in S
<1>1. \E i \in S : \A k \in S : i <= k
  BY LeastNumber
<1> QED BY <1>1 DEF FirstOf

LEMMA HeadProof ==
  ASSUME NEW b, Genuine(b), NEW key
  PROVE  LET p == prepare_head_proof(b, key)
         IN /\ p.refused = None <=> SignedBy(b, {key})
            /\ p.refused = None => openssl_accepts(p)
<1> DEFINE of == {i \in DOMAIN b.signatures : b.signatures[i].key_id = key}
           st == signing_statement(b)
<1>1. DOMAIN b.signatures \subseteq Nat
  BY SeqFacts DEF Genuine
<1>2. (of = {}) <=> ~SignedBy(b, {key})
  BY DEF SignedBy
<1>3. CASE of = {}
  <2>1. prepare_head_proof(b, key) = Refused("no_matching_signature")
    BY <1>3 DEF prepare_head_proof, FirstEntryOf
  <2> QED BY <1>2, <1>3, <2>1 DEF Refused, Some, None
<1>4. CASE of # {}
  <2> DEFINE i == FirstOf(of)
             e == b.signatures[i]
  <2>1. i \in of
    BY <1>1, <1>4, FirstIsOne
  <2>2. e = [key_id |-> key, signature |-> Signature(key, st)]
    BY <2>1 DEF Genuine
  <2>3. FirstEntryOf(b.signatures, key) = Some(e)
    BY <1>4 DEF FirstEntryOf
  <2> HIDE DEF e, i, of, st
  <2>4. Some(e) # None /\ Some(e)[1] = e /\ e.signature = Signature(key, st)
    BY <2>2 DEF Some, None
  <2>5. prepare_head_proof(b, key) =
          [refused |-> None, statement |-> st, signature |-> Signature(key, st), pubkey |-> key]
    BY <2>3, <2>4 DEF prepare_head_proof, st
  <2> QED BY <1>2, <1>4, <2>5 DEF openssl_accepts
<1> QED BY <1>3, <1>4

LEMMA OperatorProof ==
  ASSUME NEW b, Genuine(b), NEW key
  PROVE  LET p == prepare_operator_proof(b, key)
         IN /\ p.refused = None <=> AttestedBy(b, {key})
            /\ p.refused = None => openssl_accepts(p)
<1> DEFINE of == {i \in DOMAIN b.attestations : b.attestations[i].key_id = key}
<1>1. DOMAIN b.attestations \subseteq Nat
  BY SeqFacts DEF Genuine
<1>2. (of = {}) <=> ~AttestedBy(b, {key})
  BY DEF AttestedBy
<1>3. CASE of = {}
  <2>1. prepare_operator_proof(b, key) = Refused("no_matching_operator_attestation")
    BY <1>3 DEF prepare_operator_proof, FirstEntryOf
  <2> QED BY <1>2, <1>3, <2>1 DEF Refused, Some, None
<1>4. CASE of # {}
  <2> DEFINE i == FirstOf(of)
             e == b.attestations[i]
             st == operator_statement(b, e.identity)
  <2>1. i \in of
    BY <1>1, <1>4, FirstIsOne
  <2>2. e = [key_id |-> key, identity |-> e.identity, signature |-> Signature(key, st)]
    BY <2>1 DEF Genuine
  <2>3. FirstEntryOf(b.attestations, key) = Some(e)
    BY <1>4 DEF FirstEntryOf
  <2> HIDE DEF e, i, of
  <2>4. Some(e) # None /\ Some(e)[1] = e
    BY DEF Some, None
  <2>5. e.signature = Signature(key, st)
    <3> HIDE DEF st
    <3> QED BY <2>2
  <2>6. prepare_operator_proof(b, key) =
          [refused |-> None, statement |-> st, signature |-> e.signature, pubkey |-> key]
    BY <2>3, <2>4, <2>5 DEF prepare_operator_proof
  <2> HIDE DEF st
  <2> QED BY <1>2, <1>4, <2>5, <2>6 DEF openssl_accepts
<1> QED BY <1>3, <1>4

Requested(key, operator) ==
  [NoPolicy EXCEPT !.signers = {key}, !.operators = ElementsOf(operator)]

LEMMA ReportOf ==
  ASSUME NEW b, Genuine(b), NEW key, NEW operator
  PROVE  LET report == evaluate_bundle(b, Requested(key, operator))
         IN /\ report.signature_verified <=> BundleIsClean(b) /\ SignedBy(b, {key})
            /\ report.operator_key_verified <=>
                 BundleIsClean(b) /\ AttestedBy(b, ElementsOf(operator))
<1> DEFINE policy == Requested(key, operator)
           ops == ElementsOf(operator)
           found == verify_bundle(b)
           s == verify_manifest_signatures(b, {key})
           o == verify_operator_attestations(b, ops)
           r == evaluate_bundle(b, policy)
           V == found \cup {}
           integrity == \A v \in V : v.category = "capture_requirement_unmet"
<1>1. policy.signers = {key} /\ policy.operators = ops /\ policy.require_capture = FALSE
  <2> HIDE DEF ops
  <2> QED BY DEF Requested, NoPolicy, ops
<1> HIDE DEF policy, ops
<1>2. capture_requirement_unmet(policy.require_capture, otel_capture_info(b)) = FALSE
  BY <1>1 DEF capture_requirement_unmet
<1>3. /\ r.signature_verified = FlagGated(integrity, s)
      /\ r.operator_key_verified = FlagGated(integrity, o)
  BY <1>1, <1>2, Zenon DEF evaluate_bundle, build_verify_report
<1>4. integrity <=> BundleIsClean(b)
  <2> HIDE DEF found
  <2> QED BY NoCapture DEF found, BundleIsClean
<1>5. /\ AnyOutcome(s, "verified") <=> SignedBy(b, {key})
      /\ AnyOutcome(o, "verified") <=> AttestedBy(b, ops)
  BY OutcomesSay
<1> HIDE DEF integrity, s, o, r
<1>6. /\ r.signature_verified <=> BundleIsClean(b) /\ SignedBy(b, {key})
      /\ r.operator_key_verified <=> BundleIsClean(b) /\ AttestedBy(b, ops)
  BY <1>3, <1>4, <1>5 DEF FlagGated
<1> QED BY <1>6 DEF r, policy, ops

Options == {None} \cup {Some(k) : k \in Keys}

LEMMA OptionIs ==
  /\ ElementsOf(None) = {}
  /\ \A k : ElementsOf(Some(k)) = {k} /\ Some(k)[1] = k /\ Some(k) # None
BY DEF ElementsOf, None, Some

LEMMA ProofsAgree ==
  ASSUME NEW b, Genuine(b), NEW key, NEW operator \in Options
  PROVE  LET proofs == prove(b, key, operator)
             operators == {operator[i] : i \in DOMAIN operator}
             report == evaluate_bundle(b, [NoPolicy EXCEPT !.signers = {key}, !.operators = operators])
         IN /\ proofs.refused = None <=>
                 report.signature_verified /\ (operator = None \/ report.operator_key_verified)
            /\ proofs.refused = None =>
                 /\ openssl_accepts(proofs.head)
                 /\ operator = None \/ openssl_accepts(proofs.operator[1])
<1> DEFINE r == evaluate_bundle(b, Requested(key, operator))
           p == prove(b, key, operator)
           h == prepare_head_proof(b, key)
           a == prepare_operator_proof(b, operator[1])
<1>1. /\ r.signature_verified <=> BundleIsClean(b) /\ SignedBy(b, {key})
      /\ r.operator_key_verified <=> BundleIsClean(b) /\ AttestedBy(b, ElementsOf(operator))
  BY ReportOf
<1>2. /\ h.refused = None <=> SignedBy(b, {key})
      /\ h.refused = None => openssl_accepts(h)
  BY HeadProof
<1>3. operator # None =>
        /\ a.refused = None <=> AttestedBy(b, ElementsOf(operator))
        /\ a.refused = None => openssl_accepts(a)
  <2>1. SUFFICES ASSUME NEW k, operator = Some(k)
                 PROVE  /\ a.refused = None <=> AttestedBy(b, {k})
                        /\ a.refused = None => openssl_accepts(a)
    BY OptionIs DEF Options
  <2>2. a = prepare_operator_proof(b, k)
    BY <2>1, OptionIs
  <2> HIDE DEF a
  <2> QED BY <2>2, OperatorProof
<1>4. p = IF ~BundleIsClean(b) THEN Refused("integrity_failed")
          ELSE IF h.refused # None THEN h
          ELSE IF operator # None /\ a.refused # None THEN a
          ELSE [refused |-> None, head |-> h,
                operator |-> IF operator = None THEN None ELSE Some(a)]
  <2> DEFINE att == IF operator = None THEN None ELSE Some(a)
  <2> HIDE DEF h, a
  <2>1. att # None /\ att[1].refused # None <=> operator # None /\ a.refused # None
    BY OptionIs
  <2>2. operator # None => att[1] = a
    BY OptionIs
  <2>3. p = IF ~BundleIsClean(b) THEN Refused("integrity_failed")
            ELSE IF h.refused # None THEN h
            ELSE IF att # None /\ att[1].refused # None THEN att[1]
            ELSE [refused |-> None, head |-> h, operator |-> att]
    BY Zenon DEF prove, h, a
  <2> QED BY <2>1, <2>2, <2>3
<1>5. Refused("integrity_failed").refused # None
  BY DEF Refused, Some, None
<1> HIDE DEF h, a, r, p
<1>6. p.refused = None <=>
        BundleIsClean(b) /\ h.refused = None /\ (operator = None \/ a.refused = None)
  BY <1>4, <1>5
<1>7. p.refused = None => p.head = h /\ (operator # None => p.operator = Some(a))
  BY <1>4, <1>5
<1>8. p.refused = None =>
        openssl_accepts(p.head) /\ (operator = None \/ openssl_accepts(p.operator[1]))
  BY <1>2, <1>3, <1>6, <1>7, OptionIs
<1>9. p.refused = None <=>
        r.signature_verified /\ (operator = None \/ r.operator_key_verified)
  BY <1>1, <1>2, <1>3, <1>6
<1> QED BY <1>8, <1>9, Zenon DEF p, r, Requested, ElementsOf

\* Every entry verifies under its own key.
LEMMA EntriesVerify ==
  ASSUME NEW b, Genuine(b)
  PROVE  /\ \A i \in DOMAIN b.signatures :
              verify_manifest_signatures(b, {b.signatures[i].key_id})[i] = "verified"
         /\ \A i \in DOMAIN b.attestations :
              verify_operator_attestations(b, {b.attestations[i].key_id})[i] = "verified"
BY SaidOfSignature, SaidOfAttestation DEF Said

(***************************************************************************)
(* The inductive invariant of the commands.                                *)
(***************************************************************************)
Journals == {"here", "there"}

JournalsOK ==
  /\ journals = [j \in Journals |-> journals[j]]
  /\ \A j \in Journals :
       /\ journals[j] = [objects |-> journals[j].objects, sessions |-> journals[j].sessions]
       /\ \A s \in SessionsOf(j) : IsSeq(Session(j, s).history)

\* A bundle that was written is genuine.
FileOK(file) ==
  /\ file = [bundle |-> file.bundle, pub |-> file.pub, operator_pub |-> file.operator_pub]
  /\ \/ file.bundle \in {None, Partial}
     \/ /\ file.bundle = Whole(file.bundle[1].contents)
        /\ Genuine(file.bundle[1].contents)

FilesOK ==
  /\ files = [p \in Paths |-> files[p]]
  /\ \A p \in Paths : FileOK(files[p])

SealedOK ==
  \A p \in sealed :
    /\ p \in Paths /\ IsWhole(files[p].bundle) /\ files[p].pub # None
    /\ SealVerifies(files[p])

\* The objects of a bundle are in a journal.
Holds(objs, S, b) == \A h \in S : h \in DOMAIN objs /\ objs[h] = b.objects[h]

Importable(b) == Genuine(b) /\ BundleIsClean(b)

CreateOK ==
  /\ Running("create")
  /\ cmd = [op |-> "create", path |-> cmd.path, bundle |-> cmd.bundle, hides |-> cmd.hides]
  /\ cmd.path \in Paths /\ Genuine(OnWire(cmd.bundle))
  /\ files[cmd.path].bundle = Partial

\* Signed in place, a sealed bundle still verifies.
ReplaceOK ==
  /\ Running("replace")
  /\ cmd = [op |-> "replace", from |-> cmd.from, path |-> cmd.path, bundle |-> cmd.bundle]
  /\ cmd.from \in Paths /\ cmd.path \in Paths /\ Genuine(cmd.bundle)
  /\ cmd.path = cmd.from /\ cmd.path \in sealed =>
       SealVerifies([files[cmd.path] EXCEPT !.bundle = Whole(cmd.bundle)])

SealTempOK ==
  /\ Running("seal_temp")
  /\ cmd = [op |-> "seal_temp", path |-> cmd.path, signer |-> cmd.signer,
            operator |-> cmd.operator, bundle |-> cmd.bundle]
  /\ cmd.path \in Paths /\ cmd.signer \in Keys /\ cmd.operator \in Options
  /\ Genuine(cmd.bundle)

\* What is left of the renames.
ToDo(operator_pub) ==
  IF operator_pub = None THEN {<<"bundle", "pub">>, <<"pub">>}
  ELSE {<<"bundle", "pub", "operator_pub">>, <<"pub", "operator_pub">>, <<"operator_pub">>}

\* What a seal has placed stands, the old operator's key is gone, and nothing
\* half placed is taken for sealed.
SealOK ==
  /\ Running("seal")
  /\ cmd = [op |-> "seal", path |-> cmd.path, stale |-> cmd.stale, place |-> cmd.place,
            todo |-> cmd.todo, placed |-> cmd.placed]
  /\ cmd.path \in Paths /\ cmd.stale \in BOOLEAN
  /\ FileOK(cmd.place) /\ IsWhole(cmd.place.bundle) /\ cmd.place.pub # None
  /\ SealVerifies(cmd.place)
  /\ cmd.todo \in ToDo(cmd.place.operator_pub)
  /\ cmd.placed \subseteq {"bundle", "pub", "operator_pub"}
  /\ cmd.stale = FALSE /\ cmd.place.operator_pub = None =>
       files[cmd.path].operator_pub = None
  /\ cmd.todo[1] # "bundle" => files[cmd.path].bundle = cmd.place.bundle
  /\ cmd.todo[1] = "operator_pub" => files[cmd.path].pub = cmd.place.pub
  /\ cmd.placed # {} => cmd.path \notin sealed

ImportOK ==
  /\ Running("import")
  /\ cmd = [op |-> "import", journal |-> cmd.journal, target |-> cmd.target,
            bundle |-> cmd.bundle, todo |-> cmd.todo]
  /\ cmd.journal \in Journals /\ cmd.target \notin SessionsOf(cmd.journal)
  /\ Importable(cmd.bundle) /\ cmd.todo \subseteq DOMAIN cmd.bundle.objects
  /\ Holds(journals[cmd.journal].objects, DOMAIN cmd.bundle.objects \ cmd.todo, cmd.bundle)

ImportEventsOK ==
  /\ Running("import_events")
  /\ cmd = [op |-> "import_events", journal |-> cmd.journal, target |-> cmd.target,
            bundle |-> cmd.bundle, todo |-> cmd.todo]
  /\ cmd.journal \in Journals /\ cmd.target \in SessionsOf(cmd.journal)
  /\ Importable(cmd.bundle)
  /\ Holds(journals[cmd.journal].objects, DOMAIN cmd.bundle.objects, cmd.bundle)
  /\ Session(cmd.journal, cmd.target) = NewRow
  /\ \A r \in imported : r.from = "bundle" /\ r.journal = cmd.journal /\ r.session = cmd.target
       => r.what = cmd.bundle

\* A trace has a session of its own.
TraceOK ==
  /\ Running("trace")
  /\ cmd = [op |-> "trace", journal |-> cmd.journal, target |-> cmd.target, todo |-> cmd.todo]
  /\ cmd.journal \in Journals /\ cmd.target \in SessionsOf(cmd.journal)
  /\ \A r \in imported : r.from = "bundle" /\ r.journal = cmd.journal => r.session # cmd.target

CmdOK ==
  \/ cmd = NoCommand
  \/ CreateOK \/ ReplaceOK \/ SealTempOK \/ SealOK \/ ImportOK \/ ImportEventsOK \/ TraceOK

\* The row that an import of a bundle leaves.
ImportedRow(b) ==
  LET history_ == bundle_import_history(b)
  IN [head |-> Some(history_[Len(history_)].hash), history |-> history_]

ImportedOK ==
  \A r \in imported : r.from = "bundle" =>
    /\ r.journal \in Journals /\ r.session \in SessionsOf(r.journal)
    /\ Importable(r.what)
    /\ Holds(journals[r.journal].objects, DOMAIN r.what.objects, r.what)
    /\ \/ Session(r.journal, r.session) = ImportedRow(r.what)
       \/ /\ Session(r.journal, r.session) = NewRow
          /\ \/ faults > 0
             \/ Running("import_events") /\ cmd.journal = r.journal /\ cmd.target = r.session

BundleInv ==
  /\ JournalsOK /\ FilesOK /\ SealedOK /\ CmdOK /\ ImportedOK /\ faults \in Nat

(***************************************************************************)
(* What the invariant says of the properties.                              *)
(***************************************************************************)
LEMMA InvSurvive == BundleInv => SignaturesSurvive
<1> SUFFICES ASSUME BundleInv, NEW p \in WholePaths
             PROVE  LET b == ContentsOf(p)
    IN /\ \A i \in DOMAIN b.signatures :
            verify_manifest_signatures(b, {b.signatures[i].key_id})[i] = "verified"
       /\ \A i \in DOMAIN b.attestations :
            verify_operator_attestations(b, {b.attestations[i].key_id})[i] = "verified"
       /\ \A key \in Keys, operator \in {None} \cup {Some(k) : k \in Keys} :
            LET proofs == prove(b, key, operator)
                operators == {operator[i] : i \in DOMAIN operator}
                report == evaluate_bundle(b, [NoPolicy EXCEPT !.signers = {key}, !.operators = operators])
            IN /\ proofs.refused = None <=>
                    report.signature_verified /\ (operator = None \/ report.operator_key_verified)
               /\ proofs.refused = None =>
                    /\ openssl_accepts(proofs.head)
                    /\ operator = None \/ openssl_accepts(proofs.operator[1])
  BY DEF SignaturesSurvive
<1>1. Genuine(ContentsOf(p))
  <2>1. FileOK(files[p]) /\ IsWhole(files[p].bundle)
    BY DEF BundleInv, FilesOK, WholePaths
  <2>2. ~IsWhole(None) /\ ~IsWhole(Partial)
    BY DEF IsWhole, Partial, None, Some
  <2> QED BY <2>1, <2>2 DEF FileOK, ContentsOf
<1> DEFINE b == ContentsOf(p)
<1> HIDE DEF b
<1>2. Genuine(b)
  BY <1>1 DEF b
<1>3. /\ \A i \in DOMAIN b.signatures :
            verify_manifest_signatures(b, {b.signatures[i].key_id})[i] = "verified"
      /\ \A i \in DOMAIN b.attestations :
            verify_operator_attestations(b, {b.attestations[i].key_id})[i] = "verified"
  BY <1>2, EntriesVerify
<1>4. ASSUME NEW key \in Keys, NEW operator \in {None} \cup {Some(k) : k \in Keys}
      PROVE LET proofs == prove(b, key, operator)
                operators == {operator[i] : i \in DOMAIN operator}
                report == evaluate_bundle(b, [NoPolicy EXCEPT !.signers = {key}, !.operators = operators])
            IN /\ proofs.refused = None <=>
                    report.signature_verified /\ (operator = None \/ report.operator_key_verified)
               /\ proofs.refused = None =>
                    /\ openssl_accepts(proofs.head)
                    /\ operator = None \/ openssl_accepts(proofs.operator[1])
  <2>1. operator \in Options
    BY DEF Options
  <2> QED BY <1>2, <2>1, ProofsAgree, Zenon
<1> QED BY <1>3, <1>4, Zenon DEF b

LEMMA InvSealed == BundleInv => SealedSetVerifies
BY DEF BundleInv, SealedOK, SealedSetVerifies, SealVerifies, WholePaths, ContentsOf

\* Where its objects are, what a clean bundle's import leaves verifies.
LEMMA CleanImport ==
  ASSUME NEW b, Importable(b), NEW store, Holds(store, DOMAIN b.objects, b),
         NEW row \in {None, Some(b.head)}
  PROVE  /\ bundle_import_history(b) # <<>>
         /\ is_clean(verify_history_against_store(bundle_import_history(b), row, store))
<1> DEFINE n == Len(b.events)
           g == bundle_import_history(b)
<1>1. /\ IsSeq(g) /\ Len(g) = n /\ DOMAIN g = 1..n
      /\ \A i \in 1..n : g[i].event = b.events[i] /\ g[i].hash = content_hash(b.events[i])
  BY ImportedHistory DEF Importable, Genuine
<1>2. n \in Nat /\ DOMAIN b.events = 1..n
  BY SeqFacts DEF Importable, Genuine
<1>3. /\ \A x \in DOMAIN b.objects : digest_bytes(b.objects[x]) = x
      /\ n > 0
      /\ \A i \in 1..n : EventClean(b, i)
      /\ BundleSessionEnds(b.events) = {n}
      /\ b.head = content_hash(b.events[n])
  BY BundleCleanIs DEF Importable, Genuine
<1> HIDE DEF g
<1>4. Referenced(g) \subseteq DOMAIN b.objects
  BY <1>1, <1>3 DEF Referenced, EventClean
<1>5. missing_objects(g, store) = {} /\ object_hash_mismatches(g, store) = {}
  BY <1>3, <1>4 DEF missing_objects, object_hash_mismatches, Holds
<1>6. hash_mismatches(g) = {}
  BY <1>1 DEF hash_mismatches
<1>7. broken_parent_links(g) = {}
  <2> SUFFICES ASSUME NEW i \in 1..n
               PROVE  IF i = 1
                      THEN ~(g[i].event.kind.tag # "SessionStart" \/ g[i].event.parents # None)
                      ELSE g[i].event.parents = Some(g[i-1].hash)
    BY <1>1 DEF broken_parent_links
  <2>1. ~BrokenParent(b.events, i)
    BY <1>3 DEF EventClean
  <2>2. CASE i = 1
    BY <1>1, <2>1, <2>2 DEF BrokenParent
  <2>3. CASE i # 1
    <3>1. i - 1 \in 1..n
      BY <1>2, <2>3
    <3>2. g[i-1].hash = content_hash(b.events[i-1]) /\ g[i].event = b.events[i]
      BY <1>1, <3>1
    <3> QED BY <2>1, <2>3, <3>2 DEF BrokenParent
  <2> QED BY <2>2, <2>3
<1>8. sequence_violations(g) = {}
  BY <1>1, <1>3 DEF sequence_violations, EventClean
<1>9. g # <<>> /\ ~head_mismatch(g, row)
  <2>1. g # <<>> /\ g[n].hash = content_hash(b.events[n])
    BY <1>1, <1>2, <1>3, SeqFacts
  <2>2. row = None \/ row = Some(g[Len(g)].hash)
    BY <1>1, <1>3, <2>1
  <2> QED BY <2>1, <2>2 DEF head_mismatch
<1>10. SessionEnds(g) = {n}
  BY <1>1, <1>2, <1>3 DEF SessionEnds, BundleSessionEnds
<1>11. Cardinality(SessionEnds(g)) = 1 /\ session_end_is_terminal(g)
  BY <1>1, <1>10, FS_Singleton DEF session_end_is_terminal
<1>12. is_clean(verify_history_against_store(g, row, store))
  BY <1>5, <1>6, <1>7, <1>8, <1>9, <1>11, CleanUnfolded
<1> QED BY <1>9, <1>12 DEF g

\* The row that it leaves, and what would be exported of it.
LEMMA ImportedRowIs ==
  ASSUME NEW b, Importable(b), NEW store, Holds(store, DOMAIN b.objects, b)
  PROVE  LET row == ImportedRow(b)
             c == assemble_session_bundle(b.session, row, store)
         IN /\ row.history = bundle_import_history(b) /\ row.head = Some(b.head)
            /\ IsSeq(row.history) /\ row # NewRow
            /\ c.session = b.session /\ c.head = b.head
            /\ c.events = b.events /\ c.objects = b.objects
<1> DEFINE n == Len(b.events)
           g == bundle_import_history(b)
           row == ImportedRow(b)
           c == assemble_session_bundle(b.session, row, store)
<1>1. /\ IsSeq(g) /\ Len(g) = n /\ DOMAIN g = 1..n
      /\ \A i \in 1..n : g[i].event = b.events[i] /\ g[i].hash = content_hash(b.events[i])
  BY ImportedHistory DEF Importable, Genuine
<1>2. n \in Nat /\ DOMAIN b.events = 1..n /\ b.events = [i \in 1..n |-> b.events[i]]
  BY SeqFacts DEF Importable, Genuine
<1>3. /\ DOMAIN b.objects \subseteq EventReferences(b.events)
      /\ n > 0 /\ b.head = content_hash(b.events[n])
      /\ \A i \in 1..n : EventClean(b, i)
  BY BundleCleanIs DEF Importable, Genuine
<1>4. row.history = g /\ row.head = Some(g[Len(g)].hash)
  BY DEF ImportedRow
<1> HIDE DEF g, row
<1>5. row.head = Some(b.head) /\ row.head[1] = b.head
  BY <1>1, <1>2, <1>3, <1>4 DEF Some
<1>6. row # NewRow
  BY <1>5 DEF NewRow, None, Some
<1>7. Referenced(g) = EventReferences(b.events)
  BY <1>1, <1>2 DEF Referenced, EventReferences
<1>8. EventReferences(b.events) = DOMAIN b.objects
  BY <1>2, <1>3 DEF EventClean, EventReferences
<1>9. /\ c.session = b.session /\ c.head = row.head[1]
      /\ c.events = [i \in DOMAIN row.history |-> row.history[i].event]
      /\ c.objects = [h \in Referenced(row.history) |-> store[h]]
  BY AssembledIs
<1> HIDE DEF c, n
<1>10. c.events = b.events
  BY <1>1, <1>2, <1>4, <1>9
<1>11. c.objects = b.objects
  <2>1. b.objects = [h \in DOMAIN b.objects |-> b.objects[h]]
    BY DEF Importable, Genuine, IsMap
  <2> QED BY <1>4, <1>7, <1>8, <1>9, <2>1 DEF Holds
<1> QED BY <1>1, <1>4, <1>5, <1>6, <1>9, <1>10, <1>11 DEF g, c, row

(***************************************************************************)
(* A bundle that is created carries no entries.  The events of a redacted  *)
(* one are defined by a recursion, which is shown to have a solution.      *)
(***************************************************************************)
Rewrite(history_, redacted, r, n) ==
  IF n = 0 THEN <<>>
  ELSE LET old == history_[n].event
           parents == IF n = 1 THEN old.parents ELSE Some(content_hash(r[n-1][n-1]))
       IN Append(r[n-1], [old EXCEPT !.parents = parents,
                                     !.kind = rewrite_event_kind_hashes(@, redacted)])

Solves(history_, redacted, r, m) == r = [n \in 0..m |-> Rewrite(history_, redacted, r, n)]

LEMMA SolutionGrows ==
  ASSUME NEW h, NEW redacted, NEW m \in Nat, m > 0, NEW f, Solves(h, redacted, f, m - 1)
  PROVE  \E g : Solves(h, redacted, g, m)
<1> DEFINE B(r, n) == Rewrite(h, redacted, r, n)
           x == B(f, m)
           g == [n \in 0..m |-> IF n = m THEN x ELSE f[n]]
<1>1. f = [n \in 0..(m-1) |-> B(f, n)]
  BY DEF Solves
<1>2. \A n \in 0..(m-1) : g[n] = f[n]
  <2> HIDE DEF x
  <2> QED OBVIOUS
<1>3. DOMAIN g = 0..m /\ g[m] = x /\ g = [n \in 0..m |-> g[n]]
  <2> HIDE DEF x
  <2> QED OBVIOUS
<1> HIDE DEF g
<1>4. ASSUME NEW n \in 0..m PROVE B(g, n) = B(f, n)
  <2>1. CASE n = 0
    BY <2>1 DEF Rewrite
  <2>2. CASE n # 0
    <3>1. g[n-1] = f[n-1]
      BY <1>2, <2>2
    <3> QED BY <3>1 DEF Rewrite
  <2> QED BY <2>1, <2>2
<1>5. ASSUME NEW n \in 0..m PROVE g[n] = B(g, n)
  <2>1. CASE n = m
    BY <1>3, <1>4, <2>1
  <2>2. CASE n # m
    <3>1. n \in 0..(m-1)
      BY <2>2
    <3>2. f[n] = B(f, n)
      <4> HIDE DEF B
      <4> QED BY <1>1, <3>1
    <3> QED BY <1>2, <1>4, <3>1, <3>2
  <2> QED BY <2>1, <2>2
<1>6. g = [n \in 0..m |-> B(g, n)]
  <2> HIDE DEF B
  <2> QED BY <1>3, <1>5
<1>7. Solves(h, redacted, g, m)
  BY <1>6 DEF Solves
<1> QED BY <1>7

LEMMA SolutionExists ==
  ASSUME NEW h, NEW redacted, NEW m \in Nat
  PROVE  \E f : Solves(h, redacted, f, m)
<1> DEFINE T == {k \in Nat : ~\E f : Solves(h, redacted, f, k)}
<1>1. ASSUME T # {} PROVE FALSE
  <2>1. PICK k \in T : \A n \in T : k <= n
    <3>1. T \in SUBSET Nat
      OBVIOUS
    <3> HIDE DEF T
    <3> QED BY <1>1, <3>1, LeastNumber
  <2>2. k \in Nat /\ ~\E f : Solves(h, redacted, f, k)
    OBVIOUS
  <2>3. CASE k = 0
    <3> DEFINE f == [n \in 0..0 |-> <<>>]
    <3>1. \A n \in 0..0 : Rewrite(h, redacted, f, n) = <<>>
      BY DEF Rewrite
    <3> HIDE DEF f
    <3>2. [n \in 0..0 |-> Rewrite(h, redacted, f, n)] = [n \in 0..0 |-> <<>>]
      BY <3>1
    <3>3. Solves(h, redacted, f, 0)
      BY <3>2 DEF Solves, f
    <3> QED BY <2>2, <2>3, <3>3
  <2>4. CASE k # 0
    <3>1. k - 1 \in Nat /\ k > 0
      BY <2>2, <2>4
    <3>2. k - 1 \notin T
      <4> HIDE DEF T
      <4> QED BY <2>1, <2>2, <3>1
    <3>3. PICK f : Solves(h, redacted, f, k - 1)
      BY <3>1, <3>2
    <3>4. \E g : Solves(h, redacted, g, k)
      BY <2>2, <3>1, <3>3, SolutionGrows
    <3> QED BY <2>2, <3>4
  <2> QED BY <2>3, <2>4
<1> QED BY <1>1

LEMMA SolutionIsSeq ==
  ASSUME NEW h, NEW redacted, NEW m \in Nat, NEW f, Solves(h, redacted, f, m), NEW i \in 0..m
  PROVE  IsSeq(f[i]) /\ Len(f[i]) = i
<1> DEFINE T == {k \in 0..m : ~(IsSeq(f[k]) /\ Len(f[k]) = k)}
           B(r, n) == Rewrite(h, redacted, r, n)
<1>1. \A n \in 0..m : f[n] = B(f, n)
  <2>1. f = [n \in 0..m |-> B(f, n)]
    BY DEF Solves
  <2> HIDE DEF B
  <2> QED BY <2>1
<1>2. ASSUME T # {} PROVE FALSE
  <2>1. PICK k \in T : \A n \in T : k <= n
    <3>1. T \in SUBSET Nat
      OBVIOUS
    <3> HIDE DEF T
    <3> QED BY <1>2, <3>1, LeastNumber
  <2>2. k \in 0..m /\ ~(IsSeq(f[k]) /\ Len(f[k]) = k)
    OBVIOUS
  <2>3. CASE k = 0
    <3>1. f[0] = <<>>
      BY <1>1, <2>2, <2>3 DEF Rewrite
    <3>2. IsSeq(<<>>) /\ Len(<<>>) = 0
      BY DEF IsSeq
    <3> QED BY <2>2, <2>3, <3>1, <3>2
  <2>4. CASE k # 0
    <3>1. k - 1 \in 0..m /\ k \in Nat
      BY <2>2, <2>4
    <3>2. k - 1 \notin T
      <4> HIDE DEF T
      <4> QED BY <2>1, <3>1
    <3>3. IsSeq(f[k-1]) /\ Len(f[k-1]) = k - 1
      BY <3>1, <3>2
    <3> DEFINE old == h[k].event
               parents == IF k = 1 THEN old.parents ELSE Some(content_hash(f[k-1][k-1]))
               x == [old EXCEPT !.parents = parents,
                                !.kind = rewrite_event_kind_hashes(@, redacted)]
    <3>4. f[k] = Append(f[k-1], x)
      BY <1>1, <2>2, <2>4 DEF Rewrite
    <3> HIDE DEF x
    <3>5. IsSeq(f[k]) /\ Len(f[k]) = k
      BY <3>1, <3>3, <3>4, SeqAppend
    <3> QED BY <2>2, <3>5
  <2> QED BY <2>3, <2>4
<1> QED BY <1>2

LEMMA RewrittenIsSeq ==
  ASSUME NEW h, IsSeq(h), NEW redacted
  PROVE  IsSeq(Rewritten(h, redacted))
<1> DEFINE n == Len(h)
           r == CHOOSE f : Solves(h, redacted, f, n)
<1>1. n \in Nat
  BY SeqFacts
<1>2. Rewritten(h, redacted) = r[n]
  BY DEF Rewritten, Solves, Rewrite
<1>3. Solves(h, redacted, r, n)
  <2>1. \E f : Solves(h, redacted, f, n)
    BY <1>1, SolutionExists
  <2> QED BY <2>1
<1> HIDE DEF r, n
<1>4. IsSeq(r[n])
  BY <1>1, <1>3, SolutionIsSeq
<1> QED BY <1>2, <1>4

LEMMA FreshGenuine ==
  ASSUME NEW b, IsBundle(b), IsSeq(b.events), IsMap(b.objects),
         b.signatures = <<>>, b.attestations = <<>>
  PROVE  Genuine(OnWire(b))
<1> DEFINE T == {wire_event(b.events[i]) : i \in DOMAIN b.events}
           es == [i \in DOMAIN b.events |-> wire_event(b.events[i])]
<1>1. Len(b.events) \in Nat /\ DOMAIN b.events = 1..Len(b.events)
  BY SeqFacts
<1>2. es \in [1..Len(b.events) -> T]
  BY <1>1
<1> HIDE DEF T, es
<1>3. IsSeq(es)
  BY <1>1, <1>2, SeqMade
<1>4. IsSeq(<<>>) /\ DOMAIN <<>> = {}
  BY DEF IsSeq
<1>5. /\ IsBundle(OnWire(b)) /\ OnWire(b).events = es /\ OnWire(b).objects = b.objects
      /\ OnWire(b).signatures = <<>> /\ OnWire(b).attestations = <<>>
  BY OnWireIs DEF es
<1> QED BY <1>3, <1>4, <1>5 DEF Genuine

LEMMA ExportGenuine ==
  ASSUME NEW session, NEW row, IsSeq(row.history), NEW store
  PROVE  Genuine(OnWire(assemble_session_bundle(session, row, store)))
<1> DEFINE b == assemble_session_bundle(session, row, store)
           T == {row.history[i].event : i \in DOMAIN row.history}
           es == [i \in DOMAIN row.history |-> row.history[i].event]
<1>1. Len(row.history) \in Nat /\ DOMAIN row.history = 1..Len(row.history)
  BY SeqFacts
<1>2. es \in [1..Len(row.history) -> T]
  BY <1>1
<1> HIDE DEF T, es
<1>3. IsSeq(es)
  BY <1>1, <1>2, SeqMade
<1>4. /\ IsBundle(b) /\ b.events = es /\ b.signatures = <<>> /\ b.attestations = <<>>
      /\ b.objects = [h \in Referenced(row.history) |-> store[h]]
  BY AssembledIs DEF es
<1>5. IsMap(b.objects)
  BY <1>4 DEF IsMap
<1> HIDE DEF b
<1>6. Genuine(OnWire(b))
  BY <1>3, <1>4, <1>5, FreshGenuine
<1> QED BY <1>6 DEF b

LEMMA RedactedGenuine ==
  ASSUME NEW session, NEW row, IsSeq(row.history), NEW store, NEW redacted
  PROVE  Genuine(OnWire(RedactedBundle(session, row, store, redacted)))
<1> DEFINE b == RedactedBundle(session, row, store, redacted)
           es == Rewritten(row.history, redacted)
           sentinels == {digest_bytes(sentinel(h)) : h \in redacted}
           os == [h \in EventReferences(es) |-> IF h \in sentinels THEN h[2] ELSE store[h]]
<1>1. IsSeq(es)
  BY RewrittenIsSeq
<1> HIDE DEF es, sentinels
<1>2. IsMap(os)
  BY DEF IsMap
<1>3. b = Bundle(session, content_hash(es[Len(es)]), es, os)
  BY DEF RedactedBundle, es, sentinels
<1> HIDE DEF b, os
<1>4. IsBundle(b) /\ b.events = es /\ b.objects = os /\ b.signatures = <<>> /\ b.attestations = <<>>
  BY <1>3 DEF Bundle, IsBundle
<1>5. Genuine(OnWire(b))
  BY <1>1, <1>2, <1>4, FreshGenuine
<1> QED BY <1>5 DEF b

(***************************************************************************)
(* What each step keeps.                                                   *)
(***************************************************************************)
LEMMA CmdIs ==
  ASSUME CmdOK
  PROVE  /\ Running("create") => CreateOK
         /\ Running("replace") => ReplaceOK
         /\ Running("seal_temp") => SealTempOK
         /\ Running("seal") => SealOK
         /\ Running("import") => ImportOK
         /\ Running("import_events") => ImportEventsOK
         /\ Running("trace") => TraceOK
<1>1. CreateOK => Running("create")
  BY DEF CreateOK
<1>2. ReplaceOK => Running("replace")
  BY DEF ReplaceOK
<1>3. SealTempOK => Running("seal_temp")
  BY DEF SealTempOK
<1>4. SealOK => Running("seal")
  BY DEF SealOK
<1>5. ImportOK => Running("import")
  BY DEF ImportOK
<1>6. ImportEventsOK => Running("import_events")
  BY DEF ImportEventsOK
<1>7. TraceOK => Running("trace")
  BY DEF TraceOK
<1> QED BY <1>1, <1>2, <1>3, <1>4, <1>5, <1>6, <1>7 DEF CmdOK, Running

LEMMA IdleIs ==
  ASSUME cmd = NoCommand, NEW op PROVE ~Running(op)
BY DEF Running

\* A file with another bundle, in a project where all other files are kept.
LEMMA OtherBundle ==
  ASSUME FilesOK, NEW p \in Paths, NEW x,
         x \in {None, Partial} \/ \E b : x = Whole(b) /\ Genuine(b),
         files' = [files EXCEPT ![p].bundle = x]
  PROVE  /\ FilesOK'
         /\ \A q \in Paths : q # p => files'[q] = files[q]
         /\ files'[p] = [bundle |-> x, pub |-> files[p].pub,
                         operator_pub |-> files[p].operator_pub]
<1>1. /\ files = [q \in Paths |-> files[q]]
      /\ files[p] = [bundle |-> files[p].bundle, pub |-> files[p].pub,
                     operator_pub |-> files[p].operator_pub]
  BY DEF FilesOK, FileOK
<1>2. files'[p] = [files[p] EXCEPT !.bundle = x]
  BY <1>1
<1> DEFINE f == [bundle |-> x, pub |-> files[p].pub, operator_pub |-> files[p].operator_pub]
<1>3. files'[p] = f
  BY <1>1, <1>2
<1>4. \A q \in Paths : q # p => files'[q] = files[q]
  BY <1>1
<1>5. files' = [q \in Paths |-> files'[q]]
  BY <1>1
<1>6. FileOK(f)
  <2>1. f.bundle = x /\ f = [bundle |-> f.bundle, pub |-> f.pub, operator_pub |-> f.operator_pub]
    OBVIOUS
  <2> HIDE DEF f
  <2>2. \A b : Whole(b)[1].contents = b
    BY DEF Whole, Some
  <2> QED BY <2>1, <2>2 DEF FileOK
<1>7. \A q \in Paths : FileOK(files'[q])
  <2> HIDE DEF f
  <2> QED BY <1>3, <1>4, <1>6 DEF FilesOK
<1>8. FilesOK'
  BY <1>5, <1>7 DEF FilesOK
<1> QED BY <1>3, <1>4, <1>8

LEMMA ImportedStays ==
  ASSUME ImportedOK, UNCHANGED <<journals, imported>>, faults \in Nat,
         faults' = faults \/ faults' = faults + 1,
         ~Running("import_events") \/ faults' > 0
  PROVE  ImportedOK'
<1>1. SUFFICES ASSUME NEW r \in imported, r.from = "bundle"
               PROVE  /\ r.journal \in Journals /\ r.session \in SessionsOf(r.journal)'
                      /\ Importable(r.what)
                      /\ Holds(journals[r.journal].objects, DOMAIN r.what.objects, r.what)'
                      /\ \/ Session(r.journal, r.session)' = ImportedRow(r.what)
                         \/ Session(r.journal, r.session)' = NewRow /\ faults' > 0
  BY Zenon DEF ImportedOK
<1>2. /\ r.journal \in Journals /\ r.session \in SessionsOf(r.journal)
      /\ Importable(r.what)
      /\ Holds(journals[r.journal].objects, DOMAIN r.what.objects, r.what)
      /\ \/ Session(r.journal, r.session) = ImportedRow(r.what)
         \/ /\ Session(r.journal, r.session) = NewRow
            /\ \/ faults > 0
               \/ Running("import_events") /\ cmd.journal = r.journal /\ cmd.target = r.session
  BY <1>1, Zenon DEF ImportedOK
<1>3. SessionsOf(r.journal)' = SessionsOf(r.journal)
      /\ Session(r.journal, r.session)' = Session(r.journal, r.session)
      /\ journals' = journals
  BY DEF SessionsOf, Session
<1>4. faults > 0 => faults' > 0
  OBVIOUS
<1> QED BY <1>2, <1>3, <1>4

LEMMA JournalsStay == ASSUME JournalsOK, UNCHANGED journals PROVE JournalsOK'
BY DEF JournalsOK, SessionsOf, Session

LEMMA SealedStays ==
  ASSUME SealedOK, NEW p, sealed' \subseteq sealed, p \notin sealed',
         \A q \in Paths : q # p => files'[q] = files[q]
  PROVE  SealedOK'
<1> SUFFICES ASSUME NEW q \in sealed'
             PROVE  /\ q \in Paths /\ IsWhole(files'[q].bundle) /\ files'[q].pub # None
                    /\ SealVerifies(files'[q])
  BY DEF SealedOK
<1>1. /\ q \in Paths /\ IsWhole(files[q].bundle) /\ files[q].pub # None
      /\ SealVerifies(files[q])
  BY DEF SealedOK
<1>2. files'[q] = files[q]
  BY <1>1
<1> QED BY <1>1, <1>2

LEMMA AllStay == ASSUME FilesOK, SealedOK, UNCHANGED <<files, sealed>> PROVE FilesOK' /\ SealedOK'
BY DEF FilesOK, SealedOK

-----------------------------------------------------------------------------
(* Files that are created and written.                                       *)

LEMMA CreateKeeps ==
  ASSUME BundleInv, Idle, NEW p \in Paths, NEW b, NEW hides, Genuine(OnWire(b)), Create(p, b, hides)
  PROVE  BundleInv'
<1>0. JournalsOK /\ FilesOK /\ SealedOK /\ CmdOK /\ ImportedOK /\ faults \in Nat
  BY DEF BundleInv
<1>1. /\ files[p].bundle = None /\ files' = [files EXCEPT ![p].bundle = Partial]
      /\ cmd' = [op |-> "create", path |-> p, bundle |-> b, hides |-> hides]
      /\ UNCHANGED <<journals, imported, sealed, faults>> /\ cmd = NoCommand
  BY DEF Create, Begin, Idle
<1>2. /\ FilesOK' /\ files'[p].bundle = Partial
      /\ \A q \in Paths : q # p => files'[q] = files[q]
  <2>1. /\ FilesOK' /\ \A q \in Paths : q # p => files'[q] = files[q]
        /\ files'[p] = [bundle |-> Partial, pub |-> files[p].pub,
                        operator_pub |-> files[p].operator_pub]
    BY <1>0, <1>1, OtherBundle
  <2> QED BY <2>1
<1>3. p \notin sealed
  BY <1>0, <1>1 DEF SealedOK, IsWhole
<1>4. SealedOK'
  BY <1>0, <1>1, <1>2, <1>3, SealedStays
<1>5. CreateOK'
  BY <1>1, <1>2 DEF CreateOK, Running, NoCommand
<1>6. ImportedOK'
  <2>1. ~Running("import_events")
    BY <1>1, IdleIs
  <2> QED BY <1>0, <1>1, <2>1, ImportedStays
<1> QED BY <1>0, <1>1, <1>2, <1>4, <1>5, <1>6, JournalsStay DEF BundleInv, CmdOK

LEMMA SessionIs ==
  ASSUME JournalsOK, NEW j \in DOMAIN journals
  PROVE  j \in Journals /\ \A s \in SessionsOf(j) : IsSeq(Session(j, s).history)
BY DEF JournalsOK

LEMMA ExportKeeps == ASSUME BundleInv, Export PROVE BundleInv'
<1>1. PICK j \in DOMAIN journals : \E s \in SessionsOf(j), p \in Paths :
        Create(p, assemble_session_bundle(s, Session(j, s), journals[j].objects),
               Source(Session(j, s), journals[j].objects, {}))
  BY DEF Export
<1>2. PICK s \in SessionsOf(j), p \in Paths :
        Create(p, assemble_session_bundle(s, Session(j, s), journals[j].objects),
               Source(Session(j, s), journals[j].objects, {}))
  BY <1>1
<1>3. IsSeq(Session(j, s).history)
  BY SessionIs DEF BundleInv
<1>4. Idle
  BY DEF Export
<1> QED BY <1>2, <1>3, <1>4, ExportGenuine, CreateKeeps

LEMMA RedactKeeps == ASSUME BundleInv, Redact PROVE BundleInv'
<1>1. PICK j \in DOMAIN journals : \E s \in SessionsOf(j), p \in Paths : \E redacted :
        Create(p, RedactedBundle(s, Session(j, s), journals[j].objects, redacted),
               Source(Session(j, s), journals[j].objects, redacted))
  BY DEF Redact
<1>2. PICK s \in SessionsOf(j), p \in Paths : \E redacted :
        Create(p, RedactedBundle(s, Session(j, s), journals[j].objects, redacted),
               Source(Session(j, s), journals[j].objects, redacted))
  BY <1>1
<1>3. IsSeq(Session(j, s).history)
  BY SessionIs DEF BundleInv
<1>4. Idle
  BY DEF Redact
<1> QED BY <1>2, <1>3, <1>4, RedactedGenuine, CreateKeeps

LEMMA WriteKeepsAll == ASSUME BundleInv, WriteBundle PROVE BundleInv'
<1>0. JournalsOK /\ FilesOK /\ SealedOK /\ CmdOK /\ ImportedOK /\ faults \in Nat
  BY DEF BundleInv
<1>1. /\ Running("create") /\ cmd' = NoCommand
      /\ files' = [files EXCEPT ![cmd.path].bundle = Whole(OnWire(cmd.bundle))]
      /\ UNCHANGED <<journals, imported, sealed, faults>>
  BY DEF WriteBundle, Continue
<1>2. cmd.path \in Paths /\ Genuine(OnWire(cmd.bundle)) /\ files[cmd.path].bundle = Partial
  BY <1>0, <1>1, CmdIs DEF CreateOK
<1>3. FilesOK' /\ \A q \in Paths : q # cmd.path => files'[q] = files[q]
  BY <1>0, <1>1, <1>2, OtherBundle
<1>4. cmd.path \notin sealed
  BY <1>0, <1>2 DEF SealedOK, IsWhole, Partial, Some
<1>5. SealedOK'
  BY <1>0, <1>1, <1>3, <1>4, SealedStays
<1>6. ImportedOK'
  <2>1. ~Running("import_events")
    BY <1>1 DEF Running
  <2> QED BY <1>0, <1>1, <2>1, ImportedStays
<1> QED BY <1>0, <1>1, <1>3, <1>5, <1>6, JournalsStay DEF BundleInv, CmdOK

-----------------------------------------------------------------------------
(* Entries.                                                                  *)

LEMMA ReadableIs ==
  ASSUME FilesOK, NEW p \in Paths, Readable(p)
  PROVE  Importable(ContentsOf(p)) /\ files[p].bundle = Whole(ContentsOf(p))
<1>1. FileOK(files[p]) /\ IsWhole(files[p].bundle)
  BY DEF FilesOK, Readable
<1>2. ~IsWhole(None) /\ ~IsWhole(Partial)
  BY DEF IsWhole, Partial, None, Some
<1> QED BY <1>1, <1>2 DEF FileOK, ContentsOf, Importable, Readable

LEMMA AddKeeps ==
  ASSUME BundleInv, Idle, NEW p \in Paths, NEW q \in Paths, NEW c, Readable(p),
         Added(ContentsOf(p), c), AddEntry(p, q, c)
  PROVE  BundleInv'
<1>0. JournalsOK /\ FilesOK /\ SealedOK /\ CmdOK /\ ImportedOK /\ faults \in Nat
  BY DEF BundleInv
<1>1. /\ cmd' = [op |-> "replace", from |-> p, path |-> q, bundle |-> c]
      /\ UNCHANGED <<journals, files, imported, sealed, faults>> /\ cmd = NoCommand
  BY DEF AddEntry, Begin, Idle
<1>2. Genuine(ContentsOf(p)) /\ files[p].bundle = Whole(ContentsOf(p))
  BY <1>0, ReadableIs DEF Importable
<1>3. Genuine(c)
  BY <1>2, OneMoreIs
<1>4. ASSUME p \in sealed PROVE SealVerifies([files[p] EXCEPT !.bundle = Whole(c)])
  <2>1. SealVerifies(files[p])
    BY <1>0, <1>4 DEF SealedOK
  <2>2. BundleVerifyExit(SealFlags(files[p].pub[1], files[p].operator_pub), Keys, None,
                         ContentsOf(p)) = 0
    BY <2>1 DEF SealVerifies, ContentsOf
  <2>3. BundleVerifyExit(SealFlags(files[p].pub[1], files[p].operator_pub), Keys, None, c) = 0
    BY <1>2, <2>2, SealStays
  <2> DEFINE f == [files[p] EXCEPT !.bundle = Whole(c)]
  <2>4. f.pub = files[p].pub /\ f.operator_pub = files[p].operator_pub /\ f.bundle[1].contents = c
    <3>1. files[p] = [bundle |-> files[p].bundle, pub |-> files[p].pub,
                     operator_pub |-> files[p].operator_pub]
      BY <1>0 DEF FilesOK, FileOK
    <3> QED BY <3>1 DEF Whole, Some
  <2> HIDE DEF f
  <2>5. SealVerifies(f)
    BY <2>3, <2>4 DEF SealVerifies
  <2> QED BY <2>5 DEF f
<1>5. /\ cmd'.from = p /\ cmd'.path = q /\ cmd'.bundle = c /\ cmd'.op = "replace"
      /\ cmd' = [op |-> "replace", from |-> cmd'.from, path |-> cmd'.path, bundle |-> cmd'.bundle]
  BY <1>1
<1>6. Running("replace")'
  BY <1>5 DEF Running, NoCommand
<1>7. ReplaceOK'
  BY <1>1, <1>3, <1>4, <1>5, <1>6 DEF ReplaceOK
<1>8. ImportedOK'
  <2>1. ~Running("import_events")
    BY <1>1, IdleIs
  <2> QED BY <1>0, <1>1, <2>1, ImportedStays
<1> QED BY <1>0, <1>1, <1>7, <1>8, JournalsStay, AllStay DEF BundleInv, CmdOK

LEMMA SignKeeps == ASSUME BundleInv, Sign PROVE BundleInv'
<1>1. PICK p \in {x \in Paths : Readable(x)} : \E q \in Paths, key \in Keys :
        AddEntry(p, q, add_head_signature(ContentsOf(p), key))
  BY DEF Sign, ContentsOf
<1>2. PICK q \in Paths, key \in Keys : AddEntry(p, q, add_head_signature(ContentsOf(p), key))
  BY <1>1
<1>3. Added(ContentsOf(p), add_head_signature(ContentsOf(p), key))
  BY DEF Added
<1>4. Idle
  BY DEF Sign
<1> QED BY <1>2, <1>3, <1>4, AddKeeps

LEMMA AttestKeeps == ASSUME BundleInv, Attest PROVE BundleInv'
<1>1. PICK p \in {x \in Paths : Readable(x)} : \E q \in Paths, key \in Keys :
        AddEntry(p, q, add_operator_attestation(ContentsOf(p), "operator", key))
  BY DEF Attest, ContentsOf
<1>2. PICK q \in Paths, key \in Keys :
        AddEntry(p, q, add_operator_attestation(ContentsOf(p), "operator", key))
  BY <1>1
<1>3. Added(ContentsOf(p), add_operator_attestation(ContentsOf(p), "operator", key))
  BY DEF Added
<1>4. Idle
  BY DEF Attest
<1> QED BY <1>2, <1>3, <1>4, AddKeeps

LEMMA RenameKeeps == ASSUME BundleInv, Rename PROVE BundleInv'
<1>0. JournalsOK /\ FilesOK /\ SealedOK /\ CmdOK /\ ImportedOK /\ faults \in Nat
  BY DEF BundleInv
<1> DEFINE p == cmd.path
           w == Whole(cmd.bundle)
<1>1. /\ Running("replace") /\ cmd' = NoCommand
      /\ files' = [files EXCEPT ![p].bundle = w]
      /\ sealed' = IF p = cmd.from THEN sealed ELSE sealed \ {p}
      /\ UNCHANGED <<journals, imported, faults>>
  BY DEF Rename, Continue
<1>2. /\ p \in Paths /\ Genuine(cmd.bundle)
      /\ p = cmd.from /\ p \in sealed => SealVerifies([files[p] EXCEPT !.bundle = w])
  BY <1>0, <1>1, CmdIs DEF ReplaceOK
<1>3. /\ FilesOK' /\ \A q \in Paths : q # p => files'[q] = files[q]
      /\ files'[p] = [bundle |-> w, pub |-> files[p].pub, operator_pub |-> files[p].operator_pub]
  BY <1>0, <1>1, <1>2, OtherBundle
<1>4. SealedOK'
  <2>1. CASE p = cmd.from /\ p \in sealed
    <3>1. [files[p] EXCEPT !.bundle = w] = files'[p]
      <4>1. files[p] = [bundle |-> files[p].bundle, pub |-> files[p].pub,
                     operator_pub |-> files[p].operator_pub]
        BY <1>0, <1>2 DEF FilesOK, FileOK
      <4> HIDE DEF w
      <4> QED BY <1>3, <4>1
    <3>2. SealVerifies(files'[p]) /\ files[p].pub # None
      BY <1>0, <1>2, <2>1, <3>1 DEF SealedOK
    <3>3. IsWhole(w)
      BY DEF IsWhole, Whole, Some, None
    <3> SUFFICES ASSUME NEW q \in sealed
                 PROVE  /\ q \in Paths /\ IsWhole(files'[q].bundle) /\ files'[q].pub # None
                        /\ SealVerifies(files'[q])
      BY <1>1, <2>1 DEF SealedOK
    <3>4. CASE q = p
      <4> HIDE DEF w
      <4> QED BY <1>2, <1>3, <3>2, <3>3, <3>4
    <3>5. CASE q # p
      BY <1>0, <1>3, <3>5 DEF SealedOK
    <3> QED BY <3>4, <3>5
  <2>2. CASE ~(p = cmd.from /\ p \in sealed)
    <3>1. p \notin sealed' /\ sealed' \subseteq sealed
      BY <1>1, <2>2
    <3> QED BY <1>0, <1>3, <3>1, SealedStays
  <2> QED BY <2>1, <2>2
<1>5. ImportedOK'
  <2>1. ~Running("import_events")
    BY <1>1 DEF Running
  <2> QED BY <1>0, <1>1, <2>1, ImportedStays
<1> QED BY <1>0, <1>1, <1>3, <1>4, <1>5, JournalsStay DEF BundleInv, CmdOK

-----------------------------------------------------------------------------
(* Seals.                                                                    *)

LEMMA SealedBundleGenuine ==
  ASSUME NEW b, Genuine(b), NEW signer, NEW operator
  PROVE  Genuine(SealedBundle(b, signer, operator))
<1> DEFINE c == add_head_signature(b, signer)
           d == add_operator_attestation(c, "operator", operator[1])
<1>1. Genuine(c)
  BY OneMoreIs DEF Added
<1> HIDE DEF c
<1>2. Genuine(d)
  BY <1>1, OneMoreIs DEF Added
<1> HIDE DEF d
<1>3. SealedBundle(b, signer, operator) = IF operator = None THEN c ELSE d
  BY DEF SealedBundle, c, d
<1> QED BY <1>1, <1>2, <1>3

LEMMA SealKeeps == ASSUME BundleInv, Seal PROVE BundleInv'
<1>0. JournalsOK /\ FilesOK /\ SealedOK /\ CmdOK /\ ImportedOK /\ faults \in Nat
  BY DEF BundleInv
<1>1. PICK j \in DOMAIN journals : \E s \in SessionsOf(j) :
        LET b == OnWire(assemble_session_bundle(s, Session(j, s), journals[j].objects))
        IN /\ \E p \in Paths, signer \in Keys, operator \in Options :
                cmd' = [op |-> "seal_temp", path |-> p, signer |-> signer, operator |-> operator,
                        bundle |-> SealedBundle(b, signer, operator)]
           /\ Begin /\ UNCHANGED <<journals, files, imported, hidden, sealed>>
  BY DEF Seal, Options
<1>2. PICK s \in SessionsOf(j) :
        LET b == OnWire(assemble_session_bundle(s, Session(j, s), journals[j].objects))
        IN /\ \E p \in Paths, signer \in Keys, operator \in Options :
                cmd' = [op |-> "seal_temp", path |-> p, signer |-> signer, operator |-> operator,
                        bundle |-> SealedBundle(b, signer, operator)]
           /\ Begin /\ UNCHANGED <<journals, files, imported, hidden, sealed>>
  BY <1>1
<1> DEFINE b == OnWire(assemble_session_bundle(s, Session(j, s), journals[j].objects))
<1>3. Genuine(b)
  <2>1. IsSeq(Session(j, s).history)
    BY <1>0, SessionIs
  <2> QED BY <2>1, ExportGenuine
<1>4. /\ \E p \in Paths, signer \in Keys, operator \in Options :
           cmd' = [op |-> "seal_temp", path |-> p, signer |-> signer, operator |-> operator,
                   bundle |-> SealedBundle(b, signer, operator)]
      /\ Begin /\ UNCHANGED <<journals, files, imported, hidden, sealed>>
  BY <1>2
<1> HIDE DEF b
<1>5. PICK p \in Paths, signer \in Keys, operator \in Options :
        cmd' = [op |-> "seal_temp", path |-> p, signer |-> signer, operator |-> operator,
                bundle |-> SealedBundle(b, signer, operator)]
  BY <1>4
<1>6. Genuine(SealedBundle(b, signer, operator))
  BY <1>3, SealedBundleGenuine
<1>7. SealTempOK'
  BY <1>5, <1>6 DEF SealTempOK, Running, NoCommand
<1>8. cmd = NoCommand /\ UNCHANGED faults
  BY <1>4 DEF Begin, Idle
<1>9. ImportedOK'
  <2>1. ~Running("import_events")
    BY <1>8, IdleIs
  <2> QED BY <1>0, <1>4, <1>8, <2>1, ImportedStays
<1> QED BY <1>0, <1>4, <1>7, <1>8, <1>9, JournalsStay, AllStay DEF BundleInv, CmdOK

LEMMA AllToDo ==
  ASSUME NEW operator
  PROVE  <<"bundle", "pub">> \o (IF operator = None THEN <<>> ELSE <<"operator_pub">>)
           \in ToDo(operator)
<1>1. CASE operator = None
  <2>1. <<"bundle", "pub">> \o <<>> = <<"bundle", "pub">>
    OBVIOUS
  <2> QED BY <1>1, <2>1 DEF ToDo
<1>2. CASE operator # None
  <2>1. <<"bundle", "pub">> \o <<"operator_pub">> = <<"bundle", "pub", "operator_pub">>
    <3> DEFINE S == {"bundle", "pub", "operator_pub"}
    <3>1. <<"bundle", "pub">> \in Seq(S) /\ Len(<<"bundle", "pub">>) = 2
      <4>1. <<"bundle", "pub">> \in Seq(S)
        OBVIOUS
      <4>2. Len(<<"bundle", "pub">>) = 2
        OBVIOUS
      <4> QED BY <4>1, <4>2
    <3>2. <<"operator_pub">> \in Seq(S) /\ Len(<<"operator_pub">>) = 1
      <4>1. <<"operator_pub">> \in Seq(S)
        OBVIOUS
      <4>2. Len(<<"operator_pub">>) = 1
        OBVIOUS
      <4> QED BY <4>1, <4>2
    <3>3. <<"bundle", "pub", "operator_pub">> \in Seq(S)
          /\ Len(<<"bundle", "pub", "operator_pub">>) = 3
      <4>1. <<"bundle", "pub", "operator_pub">> \in Seq(S)
        OBVIOUS
      <4>2. Len(<<"bundle", "pub", "operator_pub">>) = 3
        OBVIOUS
      <4> QED BY <4>1, <4>2
    <3> DEFINE s == <<"bundle", "pub">>
               t == <<"operator_pub">>
               u == <<"bundle", "pub", "operator_pub">>
    <3>4. s[1] = u[1] /\ s[2] = u[2] /\ t[1] = u[3]
      OBVIOUS
    <3> HIDE DEF s, t, u, S
    <3>5. /\ s \o t \in Seq(S) /\ Len(s \o t) = 3
          /\ \A i \in 1..3 : (s \o t)[i] = IF i <= 2 THEN s[i] ELSE t[i - 2]
      BY <3>1, <3>2, ConcatProperties DEF s, t
    <3>6. \A i \in 1..3 : (s \o t)[i] = u[i]
      BY <3>4, <3>5
    <3>7. s \o t = u
      BY <3>3, <3>5, <3>6, SeqEqual DEF u
    <3> QED BY <3>7 DEF s, t, u
  <2> QED BY <1>2, <2>1 DEF ToDo
<1> QED BY <1>1, <1>2

LEMMA ToDoIs ==
  ASSUME NEW operator, NEW todo \in ToDo(operator)
  PROVE  /\ todo[1] = Head(todo) /\ Head(todo) \in {"bundle", "pub", "operator_pub"}
         /\ todo[1] = "bundle" => Len(todo) # 1 /\ Tail(todo)[1] = "pub"
         /\ todo[1] = "pub" => (Len(todo) = 1 <=> operator = None)
         /\ todo[1] = "operator_pub" => Len(todo) = 1 /\ operator # None
         /\ Len(todo) # 1 => Tail(todo) \in ToDo(operator)
         /\ todo[1] = "pub" /\ Len(todo) # 1 => Tail(todo)[1] = "operator_pub"
<1>1. Tail(<<"bundle", "pub">>) = <<"pub">>
  OBVIOUS
<1>2. Tail(<<"bundle", "pub", "operator_pub">>) = <<"pub", "operator_pub">>
  OBVIOUS
<1>3. Tail(<<"pub", "operator_pub">>) = <<"operator_pub">>
  OBVIOUS
<1>4. CASE operator = None
  <2>1. todo = <<"bundle", "pub">> \/ todo = <<"pub">>
    BY <1>4 DEF ToDo
  <2>2. CASE todo = <<"bundle", "pub">>
    <3>1. todo[1] = "bundle" /\ Head(todo) = "bundle" /\ Len(todo) = 2 /\ Tail(todo) = <<"pub">>
      BY <1>1, <2>2
    <3>2. Tail(todo)[1] = "pub" /\ Tail(todo) \in ToDo(operator)
      BY <1>4, <3>1 DEF ToDo
    <3> QED BY <3>1, <3>2
  <2>3. CASE todo = <<"pub">>
    <3>1. todo[1] = "pub" /\ Head(todo) = "pub" /\ Len(todo) = 1
      BY <2>3
    <3> QED BY <1>4, <3>1
  <2> QED BY <2>1, <2>2, <2>3
<1>5. CASE operator # None
  <2>1. \/ todo = <<"bundle", "pub", "operator_pub">> \/ todo = <<"pub", "operator_pub">>
        \/ todo = <<"operator_pub">>
    BY <1>5 DEF ToDo
  <2>2. CASE todo = <<"bundle", "pub", "operator_pub">>
    <3>1. /\ todo[1] = "bundle" /\ Head(todo) = "bundle" /\ Len(todo) = 3
          /\ Tail(todo) = <<"pub", "operator_pub">>
      BY <1>2, <2>2
    <3>2. Tail(todo)[1] = "pub" /\ Tail(todo) \in ToDo(operator)
      BY <1>5, <3>1 DEF ToDo
    <3> QED BY <3>1, <3>2
  <2>3. CASE todo = <<"pub", "operator_pub">>
    <3>1. /\ todo[1] = "pub" /\ Head(todo) = "pub" /\ Len(todo) = 2
          /\ Tail(todo) = <<"operator_pub">>
      BY <1>3, <2>3
    <3>2. Tail(todo)[1] = "operator_pub" /\ Tail(todo) \in ToDo(operator)
      BY <1>5, <3>1 DEF ToDo
    <3> QED BY <1>5, <3>1, <3>2
  <2>4. CASE todo = <<"operator_pub">>
    <3>1. todo[1] = "operator_pub" /\ Head(todo) = "operator_pub" /\ Len(todo) = 1
      BY <2>4
    <3> QED BY <1>5, <3>1
  <2> QED BY <2>1, <2>2, <2>3, <2>4
<1> QED BY <1>4, <1>5

LEMMA SelfVerifyKeeps == ASSUME BundleInv, SelfVerify PROVE BundleInv'
<1>0. JournalsOK /\ FilesOK /\ SealedOK /\ CmdOK /\ ImportedOK /\ faults \in Nat
  BY DEF BundleInv
<1> DEFINE p == cmd.path
           place == [bundle |-> Whole(cmd.bundle), pub |-> Some(cmd.signer),
                     operator_pub |-> cmd.operator]
           todo == <<"bundle", "pub">> \o
                     (IF cmd.operator = None THEN <<>> ELSE <<"operator_pub">>)
           passes == BundleVerifyExit(SealFlags(cmd.signer, cmd.operator), Keys, None, cmd.bundle) = 0
           stale == StaleOperatorPub(p, cmd.operator)
<1>1. /\ Running("seal_temp")
      /\ UNCHANGED <<journals, files, imported, sealed, faults>>
      /\ cmd' = IF passes
                THEN [op |-> "seal", path |-> p, stale |-> stale, place |-> place,
                      todo |-> todo, placed |-> {}]
                ELSE NoCommand
  BY DEF SelfVerify, Continue
<1>2. p \in Paths /\ Genuine(cmd.bundle)
  BY <1>0, <1>1, CmdIs DEF SealTempOK
<1>3. CmdOK'
  <2>1. CASE ~passes
    BY <1>1, <2>1 DEF CmdOK
  <2>2. CASE passes
    <3>1. /\ place.bundle = Whole(cmd.bundle) /\ place.pub[1] = cmd.signer /\ place.pub # None
          /\ place.operator_pub = cmd.operator /\ place.bundle[1].contents = cmd.bundle
          /\ IsWhole(place.bundle)
          /\ place = [bundle |-> place.bundle, pub |-> place.pub, operator_pub |-> place.operator_pub]
      BY DEF Whole, Some, None, IsWhole
    <3>2. todo \in ToDo(cmd.operator) /\ todo[1] = "bundle"
      <4>1. todo \in ToDo(cmd.operator)
        BY AllToDo
      <4>2. todo[1] = "bundle"
        OBVIOUS
      <4> QED BY <4>1, <4>2
    <3>3. stale \in BOOLEAN /\ (stale = FALSE /\ cmd.operator = None => files[p].operator_pub = None)
      BY DEF StaleOperatorPub
    <3> HIDE DEF place, todo, passes, stale
    <3>4. SealVerifies(place)
      BY <2>2, <3>1 DEF SealVerifies, passes
    <3>5. FileOK(place)
      BY <1>2, <3>1 DEF FileOK
    <3>6. /\ cmd' = [op |-> "seal", path |-> cmd'.path, stale |-> cmd'.stale, place |-> cmd'.place,
                     todo |-> cmd'.todo, placed |-> cmd'.placed]
          /\ cmd'.op = "seal" /\ cmd'.path = p /\ cmd'.place = place
          /\ cmd'.todo = todo /\ cmd'.placed = {}
      BY <1>1, <2>2
    <3>61. cmd'.stale = stale
      BY <1>1, <2>2
    <3>7. Running("seal")'
      BY <3>6 DEF Running, NoCommand
    <3> HIDE DEF p
    <3>8. files' = files /\ sealed' = sealed
      BY <1>1
    <3>9. /\ cmd'.stale \in BOOLEAN
          /\ cmd'.stale = FALSE /\ cmd'.place.operator_pub = None => files'[cmd'.path].operator_pub = None
      BY <3>1, <3>3, <3>6, <3>61, <3>8
    <3>10. SealOK'
      BY <1>2, <3>1, <3>2, <3>4, <3>5, <3>6, <3>7, <3>9 DEF SealOK
    <3> QED BY <3>10 DEF CmdOK
  <2> QED BY <2>1, <2>2
<1>4. ImportedOK'
  <2>1. ~Running("import_events")
    BY <1>1 DEF Running
  <2> QED BY <1>0, <1>1, <2>1, ImportedStays
<1> QED BY <1>0, <1>1, <1>3, <1>4, JournalsStay, AllStay DEF BundleInv

\* A file with one of its parts replaced.
With(file, role, x) ==
  [bundle |-> IF role = "bundle" THEN x ELSE file.bundle,
   pub |-> IF role = "pub" THEN x ELSE file.pub,
   operator_pub |-> IF role = "operator_pub" THEN x ELSE file.operator_pub]

LEMMA WithIs ==
  ASSUME NEW file, FileOK(file), NEW role \in {"bundle", "pub", "operator_pub"}, NEW x
  PROVE  /\ [file EXCEPT ![role] = x] = With(file, role, x)
         /\ role # "bundle" => FileOK(With(file, role, x))
         /\ \A other : FileOK(other) /\ role = "bundle" /\ x = other.bundle
              => FileOK(With(file, role, x))
<1>1. file = [bundle |-> file.bundle, pub |-> file.pub, operator_pub |-> file.operator_pub]
  BY DEF FileOK
<1>2. [file EXCEPT ![role] = x] = With(file, role, x)
  <2> DEFINE g == [file EXCEPT ![role] = x]
  <2>1. DOMAIN file = {"bundle", "pub", "operator_pub"}
    BY <1>1
  <2>2. /\ g = [k \in {"bundle", "pub", "operator_pub"} |-> g[k]]
        /\ \A k \in {"bundle", "pub", "operator_pub"} : g[k] = IF k = role THEN x ELSE file[k]
    BY <1>1, <2>1
  <2> HIDE DEF g
  <2>3. g = [bundle |-> g.bundle, pub |-> g.pub, operator_pub |-> g.operator_pub]
    BY <2>2
  <2>4. /\ g.bundle = IF role = "bundle" THEN x ELSE file.bundle
        /\ g.pub = IF role = "pub" THEN x ELSE file.pub
        /\ g.operator_pub = IF role = "operator_pub" THEN x ELSE file.operator_pub
    BY <2>2
  <2>5. g = With(file, role, x)
    BY <2>3, <2>4 DEF With
  <2> QED BY <2>5 DEF g
<1> DEFINE f == With(file, role, x)
<1>3. f = [bundle |-> f.bundle, pub |-> f.pub, operator_pub |-> f.operator_pub]
      /\ f.bundle = IF role = "bundle" THEN x ELSE file.bundle
  BY DEF With
<1> HIDE DEF f
<1>4. role # "bundle" => FileOK(f)
  BY <1>3 DEF FileOK
<1>5. ASSUME NEW other, FileOK(other), role = "bundle", x = other.bundle
      PROVE  FileOK(f)
  BY <1>3, <1>5 DEF FileOK
<1> QED BY <1>2, <1>4, <1>5 DEF f

\* The command that is left with one field or two replaced.
IsSeal(c) ==
  c = [op |-> "seal", path |-> c.path, stale |-> c.stale, place |-> c.place,
       todo |-> c.todo, placed |-> c.placed]

LEMMA NotStale ==
  ASSUME NEW c, IsSeal(c), NEW x
  PROVE  LET d == [c EXCEPT !.stale = x]
         IN /\ IsSeal(d) /\ d.op = "seal" /\ d.path = c.path /\ d.place = c.place
            /\ d.todo = c.todo /\ d.placed = c.placed /\ d.stale = x
BY DEF IsSeal

Placed(c, x, y) == [c EXCEPT !.todo = x, !.placed = y]

LEMMA OnePlaced ==
  ASSUME NEW c, IsSeal(c), NEW x, NEW y
  PROVE  LET d == Placed(c, x, y)
         IN /\ IsSeal(d) /\ d.op = "seal" /\ d.path = c.path /\ d.place = c.place
            /\ d.todo = x /\ d.placed = y /\ d.stale = c.stale
<1> DEFINE e == [c EXCEPT !.todo = x]
           d == [e EXCEPT !.placed = y]
<1>1. /\ IsSeal(e) /\ e.op = "seal" /\ e.path = c.path /\ e.place = c.place
      /\ e.todo = x /\ e.stale = c.stale
  BY DEF IsSeal
<1> HIDE DEF e
<1>2. /\ IsSeal(d) /\ d.op = "seal" /\ d.path = e.path /\ d.place = e.place
      /\ d.todo = e.todo /\ d.placed = y /\ d.stale = e.stale
  BY <1>1 DEF IsSeal
<1>3. d = Placed(c, x, y)
  BY DEF e, Placed
<1> HIDE DEF d
<1> QED BY <1>1, <1>2, <1>3

LEMMA RemoveStaleKeeps == ASSUME BundleInv, RemoveStale PROVE BundleInv'
<1>0. JournalsOK /\ FilesOK /\ SealedOK /\ CmdOK /\ ImportedOK /\ faults \in Nat
  BY DEF BundleInv
<1> DEFINE p == cmd.path
<1>1. /\ Running("seal") /\ files' = [files EXCEPT ![p].operator_pub = None]
      /\ sealed' = sealed \ {p} /\ cmd' = [cmd EXCEPT !.stale = FALSE]
      /\ UNCHANGED <<journals, imported, faults>>
  BY DEF RemoveStale, Continue
<1>2. SealOK
  BY <1>0, <1>1, CmdIs
<1>3. p \in Paths
  BY <1>2 DEF SealOK
<1>4. /\ files' = [q \in Paths |-> files'[q]]
      /\ \A q \in Paths : q # p => files'[q] = files[q]
      /\ files'[p] = With(files[p], "operator_pub", None)
  <2>1. files = [q \in Paths |-> files[q]] /\ FileOK(files[p])
    BY <1>0, <1>3 DEF FilesOK
  <2>2. files'[p] = [files[p] EXCEPT !["operator_pub"] = None]
    BY <1>1, <1>3, <2>1
  <2> QED BY <1>1, <2>1, <2>2, WithIs
<1>5. FilesOK'
  <2>1. FileOK(files'[p])
    BY <1>0, <1>3, <1>4, WithIs DEF FilesOK
  <2> QED BY <1>0, <1>4, <2>1 DEF FilesOK
<1>6. SealedOK'
  BY <1>0, <1>1, <1>4, SealedStays
<1>7. /\ files'[p].operator_pub = None /\ files'[p].bundle = files[p].bundle
      /\ files'[p].pub = files[p].pub
  BY <1>4 DEF With
<1>8. /\ cmd' = [op |-> "seal", path |-> cmd'.path, stale |-> cmd'.stale, place |-> cmd'.place,
                 todo |-> cmd'.todo, placed |-> cmd'.placed]
      /\ cmd'.path = cmd.path /\ cmd'.place = cmd.place /\ cmd'.todo = cmd.todo
      /\ cmd'.placed = cmd.placed /\ cmd'.stale = FALSE /\ cmd'.op = "seal"
  <2>1. IsSeal(cmd)
    BY <1>2 DEF SealOK, IsSeal
  <2>2. cmd' = [cmd EXCEPT !.stale = FALSE]
    BY <1>1
  <2>3. /\ IsSeal(cmd') /\ cmd'.op = "seal" /\ cmd'.path = cmd.path /\ cmd'.place = cmd.place
        /\ cmd'.todo = cmd.todo /\ cmd'.placed = cmd.placed /\ cmd'.stale = FALSE
    BY <2>1, <2>2, NotStale, SMTT(60)
  <2> QED BY <2>3, Zenon DEF IsSeal
<1>9. Running("seal")'
  BY <1>8 DEF Running, NoCommand
<1>10. SealOK'
  BY <1>1, <1>2, <1>7, <1>8, <1>9 DEF SealOK
<1>11. ImportedOK'
  <2>1. ~Running("import_events")
    BY <1>1 DEF Running
  <2> QED BY <1>0, <1>1, <2>1, ImportedStays
<1> QED BY <1>0, <1>1, <1>5, <1>6, <1>10, <1>11, JournalsStay DEF BundleInv, CmdOK

LEMMA PlaceKeeps == ASSUME BundleInv, Place PROVE BundleInv'
<1>0. JournalsOK /\ FilesOK /\ SealedOK /\ CmdOK /\ ImportedOK /\ faults \in Nat
  BY DEF BundleInv
<1> DEFINE p == cmd.path
           role == Head(cmd.todo)
           last == Len(cmd.todo) = 1
           file == files[p]
           placed == With(file, role, cmd.place[role])
<1>1. /\ Running("seal") /\ ~cmd.stale
      /\ files' = [files EXCEPT ![p][role] = cmd.place[role]]
      /\ sealed' = IF last THEN sealed \cup {p} ELSE sealed \ {p}
      /\ cmd' = IF last THEN NoCommand
                ELSE [cmd EXCEPT !.todo = Tail(@), !.placed = @ \cup {role}]
      /\ UNCHANGED <<journals, imported, faults>>
  BY DEF Place, Continue
<1>2. SealOK
  BY <1>0, <1>1, CmdIs
<1>3. /\ p \in Paths /\ FileOK(cmd.place) /\ IsWhole(cmd.place.bundle) /\ cmd.place.pub # None
      /\ SealVerifies(cmd.place) /\ cmd.todo \in ToDo(cmd.place.operator_pub)
      /\ cmd.place = [bundle |-> cmd.place.bundle, pub |-> cmd.place.pub,
                      operator_pub |-> cmd.place.operator_pub]
  BY <1>2 DEF SealOK, FileOK
<1>4. /\ cmd.todo[1] = role /\ role \in {"bundle", "pub", "operator_pub"}
      /\ role = "bundle" => ~last /\ Tail(cmd.todo)[1] = "pub"
      /\ role = "pub" => (last <=> cmd.place.operator_pub = None)
      /\ role = "operator_pub" => last /\ cmd.place.operator_pub # None
      /\ ~last => Tail(cmd.todo) \in ToDo(cmd.place.operator_pub)
      /\ role = "pub" /\ ~last => Tail(cmd.todo)[1] = "operator_pub"
  BY <1>3, ToDoIs, ZenonT(60)
<1>5. /\ cmd.stale = FALSE
      /\ cmd.place.operator_pub = None => file.operator_pub = None
      /\ role # "bundle" => file.bundle = cmd.place.bundle
      /\ role = "operator_pub" => file.pub = cmd.place.pub
  BY <1>1, <1>2, <1>4 DEF SealOK
<1>6. /\ files' = [q \in Paths |-> files'[q]]
      /\ \A q \in Paths : q # p => files'[q] = files[q]
      /\ files'[p] = placed
  <2>1. files = [q \in Paths |-> files[q]] /\ FileOK(file)
    BY <1>0, <1>3 DEF FilesOK
  <2> HIDE DEF role, last
  <2>2. /\ files'[p] = [file EXCEPT ![role] = cmd.place[role]]
        /\ files' = [q \in Paths |-> files'[q]]
        /\ \A q \in Paths : q # p => files'[q] = files[q]
    BY <1>1, <1>3, <2>1
  <2>3. [file EXCEPT ![role] = cmd.place[role]] = placed
    <3> HIDE DEF file
    <3> QED BY <1>4, <2>1, WithIs
  <2> HIDE DEF placed
  <2> QED BY <2>2, <2>3
<1>7. FileOK(placed)
  <2>1. FileOK(file)
    BY <1>0, <1>3 DEF FilesOK
  <2>2. role = "bundle" => cmd.place[role] = cmd.place.bundle
    OBVIOUS
  <2> HIDE DEF role, last, file
  <2> QED BY <1>3, <1>4, <2>1, <2>2, WithIs
<1>8. FilesOK'
  <2> HIDE DEF placed
  <2> QED BY <1>0, <1>6, <1>7 DEF FilesOK
<1>9. /\ placed.bundle = IF role = "bundle" THEN cmd.place.bundle ELSE file.bundle
      /\ placed.pub = IF role = "pub" THEN cmd.place.pub ELSE file.pub
      /\ placed.operator_pub = IF role = "operator_pub" THEN cmd.place.operator_pub
                               ELSE file.operator_pub
  <2> HIDE DEF role, last, file
  <2> QED BY <1>3, <1>4 DEF With
<1>10. ASSUME last PROVE placed = cmd.place
  <2>1. placed = [bundle |-> placed.bundle, pub |-> placed.pub,
                  operator_pub |-> placed.operator_pub]
    BY <1>7 DEF FileOK
  <2> HIDE DEF role, last, file, placed
  <2> QED BY <1>3, <1>4, <1>5, <1>9, <1>10, <2>1
<1> HIDE DEF role, last, file, placed
<1>11. SealedOK'
  <2>1. CASE ~last
    BY <1>0, <1>1, <1>6, <2>1, SealedStays
  <2>2. CASE last
    <3> SUFFICES ASSUME NEW q \in sealed'
                 PROVE  /\ q \in Paths /\ IsWhole(files'[q].bundle) /\ files'[q].pub # None
                        /\ SealVerifies(files'[q])
      BY DEF SealedOK
    <3>1. CASE q = p
      BY <1>3, <1>6, <1>10, <2>2, <3>1
    <3>2. CASE q # p
      <4>1. q \in sealed
        BY <1>1, <2>2, <3>2
      <4> QED BY <1>0, <1>6, <3>2, <4>1 DEF SealedOK
    <3> QED BY <3>1, <3>2
  <2> QED BY <2>1, <2>2
<1>12. CmdOK'
  <2>1. CASE last
    BY <1>1, <2>1 DEF CmdOK
  <2>2. CASE ~last
    <3>1. /\ cmd' = [op |-> "seal", path |-> cmd'.path, stale |-> cmd'.stale, place |-> cmd'.place,
                     todo |-> cmd'.todo, placed |-> cmd'.placed]
          /\ cmd'.path = p /\ cmd'.place = cmd.place /\ cmd'.todo = Tail(cmd.todo)
          /\ cmd'.placed = cmd.placed \cup {role} /\ cmd'.op = "seal"
      <4>1. IsSeal(cmd)
        BY <1>2 DEF SealOK, IsSeal
      <4>2. cmd' = [cmd EXCEPT !.todo = Tail(cmd.todo), !.placed = cmd.placed \cup {role}]
        BY <1>1, <2>2
      <4>3. /\ IsSeal(cmd') /\ cmd'.op = "seal" /\ cmd'.path = p /\ cmd'.place = cmd.place
            /\ cmd'.todo = Tail(cmd.todo) /\ cmd'.placed = cmd.placed \cup {role}
        <5>1. cmd' = Placed(cmd, Tail(cmd.todo), cmd.placed \cup {role})
          BY <4>2 DEF Placed
        <5> QED BY <4>1, <5>1, OnePlaced
      <4> QED BY <4>3, Zenon DEF IsSeal
    <3>2. cmd'.stale = FALSE
      BY <1>1, <1>2, <1>5, <2>2 DEF SealOK
    <3>3. Running("seal")'
      BY <3>1 DEF Running, NoCommand
    <3>4. /\ cmd'.todo[1] # "bundle" /\ cmd'.todo \in ToDo(cmd.place.operator_pub)
          /\ placed.bundle = cmd.place.bundle
          /\ cmd'.todo[1] = "operator_pub" => placed.pub = cmd.place.pub
          /\ cmd.place.operator_pub = None => placed.operator_pub = None
      BY <1>4, <1>5, <1>9, <2>2, <3>1
    <3>5. p \notin sealed' /\ cmd'.placed \subseteq {"bundle", "pub", "operator_pub"}
      BY <1>1, <1>2, <1>4, <2>2, <3>1 DEF SealOK
    <3>6. SealOK'
      BY <1>3, <1>6, <3>1, <3>2, <3>3, <3>4, <3>5 DEF SealOK
    <3> QED BY <3>6 DEF CmdOK
  <2> QED BY <2>1, <2>2
<1>13. ImportedOK'
  <2>1. ~Running("import_events")
    BY <1>1 DEF Running
  <2> QED BY <1>0, <1>1, <2>1, ImportedStays
<1> QED BY <1>0, <1>1, <1>8, <1>11, <1>12, <1>13, JournalsStay DEF BundleInv

-----------------------------------------------------------------------------
(* Imports.                                                                  *)

LEMMA ImportKeeps == ASSUME BundleInv, Import PROVE BundleInv'
<1>0. JournalsOK /\ FilesOK /\ SealedOK /\ CmdOK /\ ImportedOK /\ faults \in Nat
  BY DEF BundleInv
<1>1. PICK p \in {x \in Paths : Readable(x)} : \E j \in DOMAIN journals :
        LET b == ContentsOf(p)
        IN /\ \E target \in ({b.session} \cup Names) \ SessionsOf(j) :
                cmd' = [op |-> "import", journal |-> j, target |-> target, bundle |-> b,
                        todo |-> DOMAIN b.objects]
           /\ Begin /\ UNCHANGED <<journals, files, imported, hidden, sealed>>
  BY DEF Import, ContentsOf
<1> DEFINE b == ContentsOf(p)
<1>2. PICK j \in DOMAIN journals :
        /\ \E target \in ({b.session} \cup Names) \ SessionsOf(j) :
             cmd' = [op |-> "import", journal |-> j, target |-> target, bundle |-> b,
                     todo |-> DOMAIN b.objects]
        /\ Begin /\ UNCHANGED <<journals, files, imported, hidden, sealed>>
  BY <1>1
<1>3. Importable(b)
  BY <1>0, ReadableIs
<1> HIDE DEF b
<1>4. PICK target \in ({b.session} \cup Names) \ SessionsOf(j) :
        cmd' = [op |-> "import", journal |-> j, target |-> target, bundle |-> b,
                todo |-> DOMAIN b.objects]
  BY <1>2
<1>5. cmd = NoCommand /\ UNCHANGED faults
  BY <1>2 DEF Begin, Idle
<1>6. SessionsOf(j)' = SessionsOf(j) /\ j \in Journals
  BY <1>0, <1>2, SessionIs DEF SessionsOf
<1>7. ImportOK'
  <2>1. /\ cmd'.journal = j /\ cmd'.target = target /\ cmd'.bundle = b
        /\ cmd'.todo = DOMAIN b.objects /\ cmd'.op = "import"
        /\ cmd' = [op |-> "import", journal |-> cmd'.journal, target |-> cmd'.target,
                   bundle |-> cmd'.bundle, todo |-> cmd'.todo]
    BY <1>4
  <2>2. Running("import")'
    BY <2>1 DEF Running, NoCommand
  <2>3. Holds(journals'[j].objects, DOMAIN b.objects \ DOMAIN b.objects, b)
    BY DEF Holds
  <2>4. target \notin SessionsOf(j)'
    BY <1>6
  <2>5. cmd'.target \notin DOMAIN journals'[cmd'.journal].sessions
    BY <2>1, <2>4 DEF SessionsOf
  <2> QED BY <1>3, <1>6, <2>1, <2>2, <2>3, <2>5 DEF ImportOK, SessionsOf
<1>8. ImportedOK'
  <2>1. ~Running("import_events")
    BY <1>5, IdleIs
  <2> QED BY <1>0, <1>2, <1>5, <2>1, ImportedStays
<1> QED BY <1>0, <1>2, <1>5, <1>7, <1>8, JournalsStay, AllStay DEF BundleInv, CmdOK

\* A journal whose objects grow and whose sessions are kept.
LEMMA MoreObjects ==
  ASSUME JournalsOK, NEW j \in Journals, NEW os,
         journals' = [journals EXCEPT ![j].objects = os]
  PROVE  /\ JournalsOK'
         /\ \A k \in Journals : journals'[k].sessions = journals[k].sessions
         /\ \A k \in Journals : k # j => journals'[k].objects = journals[k].objects
         /\ journals'[j].objects = os
<1>1. /\ journals = [k \in Journals |-> journals[k]]
      /\ \A k \in Journals :
           journals[k] = [objects |-> journals[k].objects, sessions |-> journals[k].sessions]
  BY DEF JournalsOK
<1>2. journals'[j] = [journals[j] EXCEPT !.objects = os]
  BY <1>1
<1>3. journals'[j] = [objects |-> os, sessions |-> journals[j].sessions]
  BY <1>1, <1>2
<1>4. \A k \in Journals : k # j => journals'[k] = journals[k]
  BY <1>1
<1>5. journals' = [k \in Journals |-> journals'[k]]
  BY <1>1
<1>6. ASSUME NEW k \in Journals
      PROVE  /\ journals'[k].sessions = journals[k].sessions
             /\ journals'[k] = [objects |-> journals'[k].objects, sessions |-> journals'[k].sessions]
  <2>1. CASE k = j
    BY <1>3, <2>1
  <2>2. CASE k # j
    BY <1>1, <1>4, <2>2
  <2> QED BY <2>1, <2>2
<1>7. JournalsOK'
  <2>1. ASSUME NEW k \in Journals, NEW s \in DOMAIN journals'[k].sessions
        PROVE  IsSeq(journals'[k].sessions[s].history)
    <3>1. journals'[k].sessions = journals[k].sessions
      BY <1>6
    <3> QED BY <2>1, <3>1 DEF JournalsOK, SessionsOf, Session
  <2> QED BY <1>5, <1>6, <2>1 DEF JournalsOK, SessionsOf, Session
<1> QED BY <1>3, <1>4, <1>6, <1>7

\* What an import puts is what the bundle holds; what was there stays.
LEMMA PutKeeps == ASSUME BundleInv, PutObject PROVE BundleInv'
<1>0. JournalsOK /\ FilesOK /\ SealedOK /\ CmdOK /\ ImportedOK /\ faults \in Nat
  BY DEF BundleInv
<1> DEFINE j == cmd.journal
           b == cmd.bundle
           objs == journals[j].objects
<1>1. /\ Running("import") /\ UNCHANGED <<files, imported, sealed, faults>>
      /\ \E h \in cmd.todo :
           \/ /\ h \notin DOMAIN objs
              /\ journals' = [journals EXCEPT ![j].objects =
                   [x \in DOMAIN objs \cup {h} |-> IF x = h THEN b.objects[h] ELSE objs[x]]]
              /\ cmd' = [cmd EXCEPT !.todo = @ \ {h}]
           \/ /\ h \in DOMAIN objs
              /\ cmd' = IF SameBytes(objs[h], b.objects[h])
                        THEN [cmd EXCEPT !.todo = @ \ {h}] ELSE NoCommand
              /\ UNCHANGED journals
  BY DEF PutObject, Continue
<1>2. PICK h \in cmd.todo :
           \/ /\ h \notin DOMAIN objs
              /\ journals' = [journals EXCEPT ![j].objects =
                   [x \in DOMAIN objs \cup {h} |-> IF x = h THEN b.objects[h] ELSE objs[x]]]
              /\ cmd' = [cmd EXCEPT !.todo = @ \ {h}]
           \/ /\ h \in DOMAIN objs
              /\ cmd' = IF SameBytes(objs[h], b.objects[h])
                        THEN [cmd EXCEPT !.todo = @ \ {h}] ELSE NoCommand
              /\ UNCHANGED journals
  BY <1>1
<1>3. ImportOK
  BY <1>0, <1>1, CmdIs
<1>4. /\ j \in Journals /\ cmd.target \notin SessionsOf(j)
      /\ Importable(b) /\ cmd.todo \subseteq DOMAIN b.objects
      /\ Holds(objs, DOMAIN b.objects \ cmd.todo, b)
      /\ cmd = [op |-> "import", journal |-> j, target |-> cmd.target, bundle |-> b, todo |-> cmd.todo]
  BY <1>3 DEF ImportOK
<1>5. ~Running("import_events")
  BY <1>1 DEF Running
<1>6. /\ JournalsOK'
      /\ \A k \in Journals : journals'[k].sessions = journals[k].sessions
      /\ \A k \in Journals : \A x \in DOMAIN journals[k].objects :
           x \in DOMAIN journals'[k].objects /\ journals'[k].objects[x] = journals[k].objects[x]
      /\ cmd' # NoCommand =>
           h \in DOMAIN journals'[j].objects /\ journals'[j].objects[h] = b.objects[h]
  <2>1. CASE UNCHANGED journals
    <3>1. cmd' # NoCommand => h \in DOMAIN objs /\ objs[h] = b.objects[h]
      <4>1. CASE h \notin DOMAIN objs
        <5> DEFINE os == [x \in DOMAIN objs \cup {h} |-> IF x = h THEN b.objects[h] ELSE objs[x]]
        <5>1. journals' = [journals EXCEPT ![j].objects = os]
          BY <1>2, <4>1
        <5>2. DOMAIN os = DOMAIN objs \cup {h}
          OBVIOUS
        <5> HIDE DEF os
        <5>3. journals'[j].objects = os
          BY <1>0, <1>4, <5>1, MoreObjects
        <5> QED BY <2>1, <4>1, <5>2, <5>3
      <4>2. CASE h \in DOMAIN objs
        BY <1>2, <4>2 DEF SameBytes
      <4> QED BY <4>1, <4>2
    <3> QED BY <1>0, <2>1, <3>1, JournalsStay
  <2>2. CASE ~UNCHANGED journals
    <3> DEFINE os == [x \in DOMAIN objs \cup {h} |-> IF x = h THEN b.objects[h] ELSE objs[x]]
    <3>1. journals' = [journals EXCEPT ![j].objects = os] /\ h \notin DOMAIN objs
      BY <1>2, <2>2
    <3>2. DOMAIN os = DOMAIN objs \cup {h} /\ os[h] = b.objects[h]
          /\ \A x \in DOMAIN objs : os[x] = objs[x]
      <4> HIDE DEF objs, b
      <4> QED BY <3>1
    <3> HIDE DEF os
    <3>3. /\ JournalsOK'
          /\ \A k \in Journals : journals'[k].sessions = journals[k].sessions
          /\ \A k \in Journals : k # j => journals'[k].objects = journals[k].objects
          /\ journals'[j].objects = os
      BY <1>0, <1>4, <3>1, MoreObjects
    <3>4. ASSUME NEW k \in Journals, NEW x \in DOMAIN journals[k].objects
          PROVE  x \in DOMAIN journals'[k].objects /\ journals'[k].objects[x] = journals[k].objects[x]
      <4>1. CASE k = j
        BY <3>2, <3>3, <4>1
      <4>2. CASE k # j
        BY <3>3, <4>2
      <4> QED BY <4>1, <4>2
    <3> QED BY <3>2, <3>3, <3>4
  <2> QED BY <2>1, <2>2
<1>7. CmdOK'
  <2>1. CASE cmd' = NoCommand
    BY <2>1 DEF CmdOK
  <2>2. CASE cmd' # NoCommand
    <3>1. cmd' = [cmd EXCEPT !.todo = @ \ {h}]
      BY <1>2, <2>2
    <3>2. cmd' = [op |-> "import", journal |-> j, target |-> cmd.target, bundle |-> b,
                  todo |-> cmd.todo \ {h}]
      <4> HIDE DEF j, b
      <4> QED BY <1>4, <3>1
    <3>3. /\ cmd'.journal = j /\ cmd'.target = cmd.target /\ cmd'.bundle = b
          /\ cmd'.todo = cmd.todo \ {h} /\ cmd'.op = "import"
          /\ cmd' = [op |-> "import", journal |-> cmd'.journal, target |-> cmd'.target,
                     bundle |-> cmd'.bundle, todo |-> cmd'.todo]
      BY <3>2
    <3>4. Running("import")'
      BY <3>3 DEF Running, NoCommand
    <3> HIDE DEF j, b, objs
    <3>5. cmd'.target \notin DOMAIN journals'[cmd'.journal].sessions
      BY <1>4, <1>6, <3>3 DEF SessionsOf
    <3>6. Holds(journals'[j].objects, DOMAIN b.objects \ (cmd.todo \ {h}), b)
      <4> SUFFICES ASSUME NEW x \in DOMAIN b.objects \ (cmd.todo \ {h})
                   PROVE  x \in DOMAIN journals'[j].objects /\ journals'[j].objects[x] = b.objects[x]
        BY DEF Holds
      <4>1. CASE x = h
        BY <1>6, <2>2, <4>1
      <4>2. CASE x # h
        <5>1. x \in DOMAIN objs /\ objs[x] = b.objects[x]
          BY <1>4, <4>2 DEF Holds
        <5> QED BY <1>4, <1>6, <5>1 DEF objs
      <4> QED BY <4>1, <4>2
    <3>7. ImportOK'
      BY <1>4, <3>3, <3>4, <3>5, <3>6 DEF ImportOK, SessionsOf
    <3> QED BY <3>7 DEF CmdOK
  <2> QED BY <2>1, <2>2
<1>8. ImportedOK'
  <2> SUFFICES ASSUME NEW r \in imported, r.from = "bundle"
               PROVE  /\ r.journal \in Journals /\ r.session \in SessionsOf(r.journal)'
                      /\ Importable(r.what)
                      /\ Holds(journals'[r.journal].objects, DOMAIN r.what.objects, r.what)
                      /\ \/ Session(r.journal, r.session)' = ImportedRow(r.what)
                         \/ Session(r.journal, r.session)' = NewRow /\ faults' > 0
    BY <1>1, Zenon DEF ImportedOK
  <2>1. /\ r.journal \in Journals /\ r.session \in SessionsOf(r.journal)
        /\ Importable(r.what)
        /\ Holds(journals[r.journal].objects, DOMAIN r.what.objects, r.what)
        /\ \/ Session(r.journal, r.session) = ImportedRow(r.what)
           \/ Session(r.journal, r.session) = NewRow /\ faults > 0
    BY <1>0, <1>5, Zenon DEF ImportedOK
  <2>2. journals'[r.journal].sessions = journals[r.journal].sessions
    BY <1>6, <2>1
  <2>3. Holds(journals'[r.journal].objects, DOMAIN r.what.objects, r.what)
    BY <1>6, <2>1 DEF Holds
  <2> QED BY <1>1, <2>1, <2>2, <2>3 DEF SessionsOf, Session
<1> QED BY <1>0, <1>1, <1>6, <1>7, <1>8, AllStay DEF BundleInv

\* A row of one session is set.
LEMMA SetRowIs ==
  ASSUME JournalsOK, NEW j \in Journals, NEW s, NEW row, IsSeq(row.history), SetRow(j, s, row)
  PROVE  /\ JournalsOK'
         /\ \A k \in Journals : journals'[k].objects = journals[k].objects
         /\ \A k \in Journals : DOMAIN journals'[k].sessions =
              IF k = j THEN DOMAIN journals[k].sessions \cup {s} ELSE DOMAIN journals[k].sessions
         /\ \A k \in Journals : \A t \in DOMAIN journals[k].sessions :
              ~(k = j /\ t = s) => journals'[k].sessions[t] = journals[k].sessions[t]
         /\ journals'[j].sessions[s] = row
<1> DEFINE old == journals[j].sessions
           new == [t \in DOMAIN old \cup {s} |-> IF t = s THEN row ELSE old[t]]
<1>1. /\ journals = [k \in Journals |-> journals[k]]
      /\ \A k \in Journals :
           journals[k] = [objects |-> journals[k].objects, sessions |-> journals[k].sessions]
  BY DEF JournalsOK
<1>2. journals' = [journals EXCEPT ![j].sessions = new]
  BY <1>1 DEF SetRow
<1>3. DOMAIN new = DOMAIN old \cup {s} /\ new[s] = row
      /\ \A t \in DOMAIN old : t # s => new[t] = old[t]
  <2> HIDE DEF old
  <2> QED OBVIOUS
<1> HIDE DEF new
<1>4. journals'[j] = [objects |-> journals[j].objects, sessions |-> new]
  <2>1. journals'[j] = [journals[j] EXCEPT !.sessions = new]
    BY <1>1, <1>2
  <2> QED BY <1>1, <2>1
<1>5. /\ \A k \in Journals : k # j => journals'[k] = journals[k]
      /\ journals' = [k \in Journals |-> journals'[k]]
  BY <1>1, <1>2
<1>6. ASSUME NEW k \in Journals
      PROVE  /\ journals'[k].objects = journals[k].objects
             /\ journals'[k] = [objects |-> journals'[k].objects, sessions |-> journals'[k].sessions]
             /\ DOMAIN journals'[k].sessions =
                  IF k = j THEN DOMAIN journals[k].sessions \cup {s} ELSE DOMAIN journals[k].sessions
             /\ \A t \in DOMAIN journals[k].sessions :
                  ~(k = j /\ t = s) => journals'[k].sessions[t] = journals[k].sessions[t]
  <2>1. CASE k = j
    BY <1>3, <1>4, <2>1
  <2>2. CASE k # j
    BY <1>1, <1>5, <2>2
  <2> QED BY <2>1, <2>2
<1>7. journals'[j].sessions[s] = row
  BY <1>3, <1>4
<1> HIDE DEF old
<1>8. JournalsOK'
  <2>1. ASSUME NEW k \in Journals, NEW t \in DOMAIN journals'[k].sessions
        PROVE  IsSeq(journals'[k].sessions[t].history)
    <3>1. CASE k = j /\ t = s
      BY <1>7, <3>1
    <3>2. CASE ~(k = j /\ t = s)
      <4>1. t \in DOMAIN journals[k].sessions
        BY <1>6, <2>1, <3>2
      <4>2. journals'[k].sessions[t] = journals[k].sessions[t]
        BY <1>6, <3>2, <4>1
      <4> QED BY <4>1, <4>2 DEF JournalsOK, SessionsOf, Session
    <3> QED BY <3>1, <3>2
  <2> QED BY <1>5, <1>6, <2>1 DEF JournalsOK, SessionsOf, Session
<1> QED BY <1>6, <1>7, <1>8

LEMMA NewRowIs == IsSeq(NewRow.history)
BY DEF NewRow, IsSeq

LEMMA OpenKeeps == ASSUME BundleInv, OpenTarget PROVE BundleInv'
<1>0. JournalsOK /\ FilesOK /\ SealedOK /\ CmdOK /\ ImportedOK /\ faults \in Nat
  BY DEF BundleInv
<1> DEFINE j == cmd.journal
           b == cmd.bundle
           s == cmd.target
           new == [from |-> "bundle", journal |-> j, session |-> s, what |-> b]
<1>1. /\ Running("import") /\ cmd.todo = {} /\ SetRow(j, s, NewRow)
      /\ imported' = imported \cup {new}
      /\ cmd' = [cmd EXCEPT !.op = "import_events"]
      /\ UNCHANGED <<files, sealed, faults>>
  BY DEF OpenTarget, Continue
<1>2. ImportOK
  BY <1>0, <1>1, CmdIs
<1>3. /\ j \in Journals /\ s \notin SessionsOf(j) /\ Importable(b)
      /\ Holds(journals[j].objects, DOMAIN b.objects, b)
      /\ cmd = [op |-> "import", journal |-> j, target |-> s, bundle |-> b, todo |-> cmd.todo]
  BY <1>1, <1>2 DEF ImportOK, Holds
<1>4. ~Running("import_events")
  BY <1>1 DEF Running
<1>5. new.from = "bundle" /\ new.journal = j /\ new.session = s /\ new.what = b
  OBVIOUS
<1> HIDE DEF j, b, s, new
<1>6. /\ JournalsOK'
      /\ \A k \in Journals : journals'[k].objects = journals[k].objects
      /\ \A k \in Journals : DOMAIN journals'[k].sessions =
           IF k = j THEN DOMAIN journals[k].sessions \cup {s} ELSE DOMAIN journals[k].sessions
      /\ \A k \in Journals : \A t \in DOMAIN journals[k].sessions :
           ~(k = j /\ t = s) => journals'[k].sessions[t] = journals[k].sessions[t]
      /\ journals'[j].sessions[s] = NewRow
  BY <1>0, <1>1, <1>3, NewRowIs, SetRowIs
<1>7. /\ cmd' = [op |-> "import_events", journal |-> cmd'.journal, target |-> cmd'.target,
                 bundle |-> cmd'.bundle, todo |-> cmd'.todo]
      /\ cmd'.journal = j /\ cmd'.target = s /\ cmd'.bundle = b /\ cmd'.op = "import_events"
  BY <1>1, <1>3
<1>8. Running("import_events")'
  BY <1>7 DEF Running, NoCommand
<1>9. ASSUME NEW r \in imported, r.from = "bundle"
      PROVE  /\ r.journal \in Journals /\ r.session \in SessionsOf(r.journal)
             /\ Importable(r.what)
             /\ Holds(journals[r.journal].objects, DOMAIN r.what.objects, r.what)
             /\ \/ Session(r.journal, r.session) = ImportedRow(r.what)
                \/ Session(r.journal, r.session) = NewRow /\ faults > 0
             /\ ~(r.journal = j /\ r.session = s)
  <2>1. /\ r.journal \in Journals /\ r.session \in SessionsOf(r.journal)
        /\ Importable(r.what)
        /\ Holds(journals[r.journal].objects, DOMAIN r.what.objects, r.what)
        /\ \/ Session(r.journal, r.session) = ImportedRow(r.what)
           \/ Session(r.journal, r.session) = NewRow /\ faults > 0
    BY <1>0, <1>4, <1>9, Zenon DEF ImportedOK
  <2> QED BY <1>3, <2>1
<1>10. ImportEventsOK'
  <2>1. \A r \in imported' : r.from = "bundle" /\ r.journal = j /\ r.session = s => r.what = b
    BY <1>1, <1>5, <1>9
  <2>3. Holds(journals'[j].objects, DOMAIN b.objects, b)
    BY <1>3, <1>6
  <2>4. s \in DOMAIN journals'[j].sessions /\ journals'[j].sessions[s] = NewRow
    BY <1>3, <1>6
  <2> QED BY <1>3, <1>7, <1>8, <2>1, <2>3, <2>4 DEF ImportEventsOK, SessionsOf, Session
<1>11. ImportedOK'
  <2> SUFFICES ASSUME NEW r \in imported', r.from = "bundle"
               PROVE  /\ r.journal \in Journals /\ r.session \in SessionsOf(r.journal)'
                      /\ Importable(r.what)
                      /\ Holds(journals'[r.journal].objects, DOMAIN r.what.objects, r.what)
                      /\ \/ Session(r.journal, r.session)' = ImportedRow(r.what)
                         \/ /\ Session(r.journal, r.session)' = NewRow
                            /\ \/ faults' > 0
                               \/ /\ Running("import_events")'
                                  /\ cmd'.journal = r.journal /\ cmd'.target = r.session
    BY Zenon DEF ImportedOK
  <2>1. CASE r = new
    BY <1>3, <1>5, <1>6, <1>7, <1>8, <2>1 DEF SessionsOf, Session
  <2>2. CASE r # new
    <3>1. r \in imported
      BY <1>1, <2>2
    <3>2. Session(r.journal, r.session)' = Session(r.journal, r.session)
          /\ r.session \in SessionsOf(r.journal)'
          /\ journals'[r.journal].objects = journals[r.journal].objects
      BY <1>6, <1>9, <3>1 DEF SessionsOf, Session
    <3> QED BY <1>1, <1>9, <3>1, <3>2
  <2> QED BY <2>1, <2>2
<1> QED BY <1>0, <1>1, <1>6, <1>10, <1>11, AllStay DEF BundleInv, CmdOK

LEMMA ImportEventsKeeps == ASSUME BundleInv, ImportEvents PROVE BundleInv'
<1>0. JournalsOK /\ FilesOK /\ SealedOK /\ CmdOK /\ ImportedOK /\ faults \in Nat
  BY DEF BundleInv
<1> DEFINE j == cmd.journal
           b == cmd.bundle
           s == cmd.target
           g == bundle_import_history(b)
<1>1. /\ Running("import_events") /\ cmd' = NoCommand
      /\ UNCHANGED <<files, imported, sealed, faults>>
      /\ IF verify_import_precondition(g, journals[j].objects)
         THEN SetRow(j, s, [head |-> Some(g[Len(g)].hash), history |-> g])
         ELSE UNCHANGED journals
  BY DEF ImportEvents, Continue
<1>2. ImportEventsOK
  BY <1>0, <1>1, CmdIs
<1>3. /\ j \in Journals /\ s \in SessionsOf(j) /\ Importable(b)
      /\ Holds(journals[j].objects, DOMAIN b.objects, b)
      /\ \A r \in imported : r.from = "bundle" /\ r.journal = j /\ r.session = s => r.what = b
  BY <1>2 DEF ImportEventsOK
<1>4. verify_import_precondition(g, journals[j].objects)
  BY <1>3, CleanImport DEF verify_import_precondition
<1>5. SetRow(j, s, ImportedRow(b))
  BY <1>1, <1>4 DEF ImportedRow
<1>6. IsSeq(ImportedRow(b).history)
  BY <1>3, ImportedRowIs
<1> HIDE DEF j, b, s, g
<1>7. /\ JournalsOK'
      /\ \A k \in Journals : journals'[k].objects = journals[k].objects
      /\ \A k \in Journals : DOMAIN journals'[k].sessions =
           IF k = j THEN DOMAIN journals[k].sessions \cup {s} ELSE DOMAIN journals[k].sessions
      /\ \A k \in Journals : \A t \in DOMAIN journals[k].sessions :
           ~(k = j /\ t = s) => journals'[k].sessions[t] = journals[k].sessions[t]
      /\ journals'[j].sessions[s] = ImportedRow(b)
  BY <1>0, <1>3, <1>5, <1>6, SetRowIs
<1>8. ImportedOK'
  <2> SUFFICES ASSUME NEW r \in imported, r.from = "bundle"
               PROVE  /\ r.journal \in Journals /\ r.session \in SessionsOf(r.journal)'
                      /\ Importable(r.what)
                      /\ Holds(journals'[r.journal].objects, DOMAIN r.what.objects, r.what)
                      /\ \/ Session(r.journal, r.session)' = ImportedRow(r.what)
                         \/ Session(r.journal, r.session)' = NewRow /\ faults' > 0
    BY <1>1, Zenon DEF ImportedOK
  <2>1. /\ r.journal \in Journals /\ r.session \in SessionsOf(r.journal)
        /\ Importable(r.what)
        /\ Holds(journals[r.journal].objects, DOMAIN r.what.objects, r.what)
        /\ \/ Session(r.journal, r.session) = ImportedRow(r.what)
           \/ /\ Session(r.journal, r.session) = NewRow
              /\ faults > 0 \/ (j = r.journal /\ s = r.session)
    BY <1>0, Zenon DEF ImportedOK, j, s
  <2>2. /\ r.session \in SessionsOf(r.journal)'
        /\ journals'[r.journal].objects = journals[r.journal].objects
    BY <1>7, <2>1 DEF SessionsOf
  <2>3. CASE r.journal = j /\ r.session = s
    BY <1>3, <1>7, <2>1, <2>2, <2>3 DEF Session
  <2>4. CASE ~(r.journal = j /\ r.session = s)
    <3>1. Session(r.journal, r.session)' = Session(r.journal, r.session)
      BY <1>7, <2>1, <2>4 DEF SessionsOf, Session
    <3> QED BY <1>1, <2>1, <2>2, <2>4, <3>1
  <2> QED BY <2>3, <2>4
<1> QED BY <1>0, <1>1, <1>7, <1>8, AllStay DEF BundleInv, CmdOK

\* An imported session where neither its row nor its objects have been touched.
LEMMA ImportedOldStays ==
  ASSUME ImportedOK, ~Running("import_events"), faults' = faults,
         NEW r \in imported, r.from = "bundle",
         r.session \in DOMAIN journals'[r.journal].sessions,
         journals'[r.journal].sessions[r.session] = Session(r.journal, r.session),
         \A x \in DOMAIN journals[r.journal].objects :
           x \in DOMAIN journals'[r.journal].objects
           /\ journals'[r.journal].objects[x] = journals[r.journal].objects[x]
  PROVE  /\ r.journal \in Journals /\ r.session \in SessionsOf(r.journal)'
         /\ Importable(r.what)
         /\ Holds(journals'[r.journal].objects, DOMAIN r.what.objects, r.what)
         /\ \/ Session(r.journal, r.session)' = ImportedRow(r.what)
            \/ Session(r.journal, r.session)' = NewRow /\ faults' > 0
<1>1. /\ r.journal \in Journals /\ r.session \in SessionsOf(r.journal)
      /\ Importable(r.what)
      /\ Holds(journals[r.journal].objects, DOMAIN r.what.objects, r.what)
      /\ \/ Session(r.journal, r.session) = ImportedRow(r.what)
         \/ Session(r.journal, r.session) = NewRow /\ faults > 0
  BY Zenon DEF ImportedOK
<1>2. Holds(journals'[r.journal].objects, DOMAIN r.what.objects, r.what)
  BY <1>1 DEF Holds
<1> QED BY <1>1, <1>2 DEF SessionsOf, Session

LEMMA TraceKeeps == ASSUME BundleInv, ImportTrace PROVE BundleInv'
<1>0. JournalsOK /\ FilesOK /\ SealedOK /\ CmdOK /\ ImportedOK /\ faults \in Nat
  BY DEF BundleInv
<1>1. PICK x \in Exports, j \in DOMAIN journals, target \in Names :
    /\ \A k \in DOMAIN journals : target \notin SessionsOf(k)
    /\ cmd' = [op |-> "trace", journal |-> j, target |-> target, todo |-> PlanOf[x].events]
    /\ imported' = imported \cup {[from |-> "trace", journal |-> j, session |-> target, what |-> x]}
    /\ SetRow(j, target, NewRow)
    /\ Begin /\ UNCHANGED <<files, hidden, sealed>>
  BY DEF ImportTrace
<1> DEFINE new == [from |-> "trace", journal |-> j, session |-> target, what |-> x]
           todo == PlanOf[x].events
<1>2. new.from = "trace"
  OBVIOUS
<1>3. /\ cmd' = [op |-> "trace", journal |-> j, target |-> target, todo |-> todo]
      /\ imported' = imported \cup {new} /\ SetRow(j, target, NewRow)
      /\ UNCHANGED <<files, sealed, faults>> /\ cmd = NoCommand
  BY <1>1 DEF Begin, Idle
<1> HIDE DEF new, todo
<1>4. j \in Journals /\ target \notin SessionsOf(j)
  BY <1>0, <1>1, SessionIs
<1>5. /\ JournalsOK'
      /\ \A k \in Journals : journals'[k].objects = journals[k].objects
      /\ \A k \in Journals : DOMAIN journals'[k].sessions =
           IF k = j THEN DOMAIN journals[k].sessions \cup {target} ELSE DOMAIN journals[k].sessions
      /\ \A k \in Journals : \A t \in DOMAIN journals[k].sessions :
           ~(k = j /\ t = target) => journals'[k].sessions[t] = journals[k].sessions[t]
  BY <1>0, <1>3, <1>4, NewRowIs, SetRowIs
<1>6. ~Running("import_events")
  BY <1>3, IdleIs
<1>7. ASSUME NEW r \in imported', r.from = "bundle"
      PROVE  r \in imported /\ r.journal \in Journals /\ r.session \in SessionsOf(r.journal)
  <2>1. r \in imported
    BY <1>2, <1>3, <1>7
  <2> QED BY <1>0, <1>7, <2>1 DEF ImportedOK
<1>8. TraceOK'
  <2>1. /\ cmd' = [op |-> "trace", journal |-> cmd'.journal, target |-> cmd'.target, todo |-> cmd'.todo]
        /\ cmd'.journal = j /\ cmd'.target = target /\ cmd'.op = "trace"
    BY <1>3
  <2>2. Running("trace")'
    BY <2>1 DEF Running, NoCommand
  <2>3. cmd'.target \in DOMAIN journals'[cmd'.journal].sessions
    BY <1>4, <1>5, <2>1
  <2>4. \A r \in imported' : r.from = "bundle" /\ r.journal = j => r.session # target
    BY <1>4, <1>7
  <2> QED BY <1>4, <2>1, <2>2, <2>3, <2>4 DEF TraceOK, SessionsOf
<1>9. ImportedOK'
  <2> SUFFICES ASSUME NEW r \in imported', r.from = "bundle"
               PROVE  /\ r.journal \in Journals /\ r.session \in SessionsOf(r.journal)'
                      /\ Importable(r.what)
                      /\ Holds(journals'[r.journal].objects, DOMAIN r.what.objects, r.what)
                      /\ \/ Session(r.journal, r.session)' = ImportedRow(r.what)
                         \/ Session(r.journal, r.session)' = NewRow /\ faults' > 0
    BY Zenon DEF ImportedOK
  <2>1. r \in imported /\ r.journal \in Journals /\ r.session \in SessionsOf(r.journal)
    BY <1>7
  <2>2. /\ r.session \in DOMAIN journals'[r.journal].sessions
        /\ journals'[r.journal].sessions[r.session] = Session(r.journal, r.session)
        /\ journals'[r.journal].objects = journals[r.journal].objects
    BY <1>4, <1>5, <2>1 DEF SessionsOf, Session
  <2> QED BY <1>0, <1>3, <1>6, <2>1, <2>2, ImportedOldStays
<1> QED BY <1>0, <1>3, <1>5, <1>8, <1>9, AllStay DEF BundleInv, CmdOK

LEMMA EmitKeeps == ASSUME BundleInv, EmitPlanned PROVE BundleInv'
<1>0. JournalsOK /\ FilesOK /\ SealedOK /\ CmdOK /\ ImportedOK /\ faults \in Nat
  BY DEF BundleInv
<1> DEFINE j == cmd.journal
           s == cmd.target
           event == Head(cmd.todo)
           row == Session(j, s)
           g == AppendTo(row.history, KindOfPlanned(event), [sec |-> 0, nanos |-> 0])
           put == {digest_bytes(event.contents[i]) : i \in DOMAIN event.contents}
           objs == journals[j].objects
           os == [h \in DOMAIN objs \cup put |-> IF h \in DOMAIN objs THEN objs[h] ELSE h[2]]
           newRow == [head |-> Some(g[Len(g)].hash), history |-> g]
           old == journals[j].sessions
           ss == [old EXCEPT ![s] = newRow]
<1>1. /\ Running("trace") /\ UNCHANGED <<files, imported, sealed, faults>>
      /\ cmd' = IF Len(cmd.todo) = 1 THEN NoCommand ELSE [cmd EXCEPT !.todo = Tail(@)]
      /\ journals' = [journals EXCEPT ![j] = [objects |-> os, sessions |-> ss]]
  BY DEF EmitPlanned, Continue
<1>2. TraceOK
  BY <1>0, <1>1, CmdIs
<1>3. /\ j \in Journals /\ s \in SessionsOf(j)
      /\ \A r \in imported : r.from = "bundle" /\ r.journal = j => r.session # s
      /\ cmd = [op |-> "trace", journal |-> j, target |-> s, todo |-> cmd.todo]
  BY <1>2 DEF TraceOK
<1>4. IsSeq(newRow.history)
  <2>1. IsSeq(row.history)
    BY <1>0, <1>3 DEF JournalsOK
  <2>2. IsSeq(g)
    BY <2>1, SeqAppend DEF AppendTo
  <2> HIDE DEF g
  <2> QED BY <2>2
<1>5. \A h \in DOMAIN objs : h \in DOMAIN os /\ os[h] = objs[h]
  <2> HIDE DEF objs, put
  <2> QED OBVIOUS
<1> HIDE DEF newRow, os
<1>6. DOMAIN ss = DOMAIN old /\ \A t \in DOMAIN old : ss[t] = IF t = s THEN newRow ELSE old[t]
  <2> HIDE DEF old
  <2> QED OBVIOUS
<1> HIDE DEF ss, old, objs
<1>7. /\ journals' = [k \in Journals |-> journals'[k]]
      /\ journals'[j].objects = os /\ journals'[j].sessions = ss
      /\ journals'[j] = [objects |-> journals'[j].objects, sessions |-> journals'[j].sessions]
      /\ \A k \in Journals : k # j => journals'[k] = journals[k]
  <2>1. journals = [k \in Journals |-> journals[k]]
    BY <1>0 DEF JournalsOK
  <2>2. journals'[j] = [objects |-> os, sessions |-> ss]
    BY <1>1, <1>3, <2>1
  <2>3. journals' = [k \in Journals |-> journals'[k]]
        /\ \A k \in Journals : k # j => journals'[k] = journals[k]
    BY <1>1, <2>1
  <2> HIDE DEF j
  <2> QED BY <2>2, <2>3
<1>8. ASSUME NEW k \in Journals
      PROVE  /\ journals'[k] = [objects |-> journals'[k].objects, sessions |-> journals'[k].sessions]
             /\ DOMAIN journals'[k].sessions = DOMAIN journals[k].sessions
             /\ \A x \in DOMAIN journals[k].objects :
                  x \in DOMAIN journals'[k].objects /\ journals'[k].objects[x] = journals[k].objects[x]
             /\ \A t \in DOMAIN journals[k].sessions :
                  IF k = j /\ t = s THEN journals'[k].sessions[t] = newRow
                  ELSE journals'[k].sessions[t] = journals[k].sessions[t]
  <2> HIDE DEF j, s
  <2>1. CASE k = j
    <3>1. old = journals[k].sessions /\ objs = journals[k].objects
      BY <2>1 DEF old, objs
    <3> QED BY <1>5, <1>6, <1>7, <2>1, <3>1
  <2>2. CASE k # j
    BY <1>0, <1>7, <2>2 DEF JournalsOK
  <2> QED BY <2>1, <2>2
<1>9. JournalsOK'
  <2>1. ASSUME NEW k \in Journals, NEW t \in DOMAIN journals'[k].sessions
        PROVE  IsSeq(journals'[k].sessions[t].history)
    <3>1. t \in DOMAIN journals[k].sessions
      BY <1>8
    <3> HIDE DEF j, s
    <3>2. CASE k = j /\ t = s
      BY <1>4, <1>8, <3>1, <3>2
    <3>3. CASE ~(k = j /\ t = s)
      <4>1. journals'[k].sessions[t] = journals[k].sessions[t]
        BY <1>8, <3>1, <3>3
      <4> QED BY <1>0, <3>1, <4>1 DEF JournalsOK, SessionsOf, Session
    <3> QED BY <3>2, <3>3
  <2> QED BY <1>7, <1>8, <2>1 DEF JournalsOK, SessionsOf, Session
<1>10. CmdOK'
  <2>1. CASE Len(cmd.todo) = 1
    BY <1>1, <2>1 DEF CmdOK
  <2>2. CASE Len(cmd.todo) # 1
    <3> HIDE DEF j, s
    <3> DEFINE rest == Tail(cmd.todo)
    <3>0. cmd' = [cmd EXCEPT !.todo = rest]
      BY <1>1, <2>2
    <3> HIDE DEF rest
    <3>1. cmd' = [op |-> "trace", journal |-> j, target |-> s, todo |-> rest]
      BY <1>3, <3>0
    <3>2. /\ cmd' = [op |-> "trace", journal |-> cmd'.journal, target |-> cmd'.target, todo |-> cmd'.todo]
          /\ cmd'.journal = j /\ cmd'.target = s /\ cmd'.op = "trace"
      BY <3>1
    <3>3. Running("trace")'
      BY <3>2 DEF Running, NoCommand
    <3>4. cmd'.target \in DOMAIN journals'[cmd'.journal].sessions
      BY <1>3, <1>8, <3>2 DEF SessionsOf
    <3>5. TraceOK'
      BY <1>1, <1>3, <3>2, <3>3, <3>4 DEF TraceOK, SessionsOf
    <3> QED BY <3>5 DEF CmdOK
  <2> QED BY <2>1, <2>2
<1>11. ImportedOK'
  <2> SUFFICES ASSUME NEW r \in imported, r.from = "bundle"
               PROVE  /\ r.journal \in Journals /\ r.session \in SessionsOf(r.journal)'
                      /\ Importable(r.what)
                      /\ Holds(journals'[r.journal].objects, DOMAIN r.what.objects, r.what)
                      /\ \/ Session(r.journal, r.session)' = ImportedRow(r.what)
                         \/ Session(r.journal, r.session)' = NewRow /\ faults' > 0
    BY <1>1, Zenon DEF ImportedOK
  <2>1. r.journal \in Journals /\ r.session \in SessionsOf(r.journal)
    BY <1>0 DEF ImportedOK
  <2>2. ~Running("import_events")
    BY <1>1 DEF Running
  <2> HIDE DEF j, s
  <2>3. ~(r.journal = j /\ r.session = s)
    BY <1>3
  <2>4. /\ r.session \in DOMAIN journals'[r.journal].sessions
        /\ journals'[r.journal].sessions[r.session] = Session(r.journal, r.session)
    BY <1>8, <2>1, <2>3 DEF SessionsOf, Session
  <2>5. \A x \in DOMAIN journals[r.journal].objects :
           x \in DOMAIN journals'[r.journal].objects
           /\ journals'[r.journal].objects[x] = journals[r.journal].objects[x]
    BY <1>8, <2>1
  <2>6. faults' = faults
    BY <1>1
  <2> QED BY <1>0, <2>2, <2>4, <2>5, <2>6, ImportedOldStays
<1> QED BY <1>0, <1>1, <1>9, <1>10, <1>11, AllStay DEF BundleInv

-----------------------------------------------------------------------------
(* Faults.                                                                   *)

LEMMA FaultKeeps ==
  ASSUME BundleInv, Fault, FilesOK', SealedOK'
  PROVE  BundleInv'
<1>0. JournalsOK /\ ImportedOK /\ faults \in Nat
  BY DEF BundleInv
<1>1. /\ faults' = faults + 1 /\ cmd' = NoCommand /\ UNCHANGED <<journals, imported>>
  BY DEF Fault
<1>2. faults' \in Nat /\ faults' > 0
  BY <1>0, <1>1
<1>3. ImportedOK'
  BY <1>0, <1>1, <1>2, ImportedStays
<1>4. JournalsOK'
  BY <1>0, <1>1, JournalsStay
<1> QED BY <1>1, <1>2, <1>3, <1>4 DEF BundleInv, CmdOK

LEMMA CrashKeeps == ASSUME BundleInv, Crash PROVE BundleInv'
<1>1. FilesOK /\ SealedOK /\ Fault /\ UNCHANGED <<files, sealed>>
  BY DEF BundleInv, Crash, Fault
<1> QED BY <1>1, AllStay, FaultKeeps

\* What a seal has placed is removed, and it was not taken for sealed.
LEMMA FailsKeeps == ASSUME BundleInv, CommandFails PROVE BundleInv'
<1>0. JournalsOK /\ FilesOK /\ SealedOK /\ CmdOK /\ ImportedOK /\ faults \in Nat
  BY DEF BundleInv
<1> DEFINE p == cmd.path
           kept == [role \in DOMAIN NoFiles |-> IF role \in cmd.placed THEN None ELSE files[p][role]]
<1>1. /\ Fault /\ cmd # NoCommand /\ sealed' = sealed
      /\ cmd.op = "create" => files' = [files EXCEPT ![p].bundle = None]
      /\ cmd.op = "seal" => files' = [files EXCEPT ![p] = kept]
      /\ cmd.op # "create" /\ cmd.op # "seal" => files' = files
  BY DEF CommandFails, Fault
<1>2. CASE cmd.op = "create"
  <2>1. CreateOK
    BY <1>0, <1>1, <1>2, CmdIs DEF Running
  <2>2. p \in Paths /\ files[p].bundle = Partial
    BY <2>1 DEF CreateOK
  <2>3. p \notin sealed
    BY <1>0, <2>2 DEF SealedOK, IsWhole, Partial, Some
  <2>4. FilesOK' /\ \A q \in Paths : q # p => files'[q] = files[q]
    BY <1>0, <1>1, <1>2, <2>2, OtherBundle
  <2>5. SealedOK'
    BY <1>0, <1>1, <2>3, <2>4, SealedStays
  <2> QED BY <1>1, <2>4, <2>5, FaultKeeps
<1>3. CASE cmd.op = "seal"
  <2>1. SealOK
    BY <1>0, <1>1, <1>3, CmdIs DEF Running
  <2>2. p \in Paths /\ (cmd.placed # {} => p \notin sealed)
    BY <2>1 DEF SealOK
  <2>3. files = [q \in Paths |-> files[q]] /\ FileOK(files[p])
    BY <1>0, <2>2 DEF FilesOK
  <2>4. /\ files' = [q \in Paths |-> files'[q]] /\ files'[p] = kept
        /\ \A q \in Paths : q # p => files'[q] = files[q]
    <3> HIDE DEF kept
    <3> QED BY <1>1, <1>3, <2>2, <2>3
  <2> DEFINE f == files[p]
             Part(role, x) == IF role \in cmd.placed THEN None ELSE x
  <2>5. kept = [bundle |-> Part("bundle", f.bundle), pub |-> Part("pub", f.pub),
                operator_pub |-> Part("operator_pub", f.operator_pub)]
    <3>1. DOMAIN NoFiles = {"bundle", "pub", "operator_pub"}
      BY DEF NoFiles
    <3> HIDE DEF f
    <3> QED BY <3>1 DEF f
  <2>6. FileOK(kept)
    <3>1. /\ kept = [bundle |-> kept.bundle, pub |-> kept.pub, operator_pub |-> kept.operator_pub]
          /\ kept.bundle = None \/ kept.bundle = f.bundle
      BY <2>5
    <3> HIDE DEF kept, f
    <3>2. FileOK(f)
      BY <2>3 DEF f
    <3> QED BY <3>1, <3>2 DEF FileOK
  <2>7. FilesOK'
    <3> HIDE DEF kept, f
    <3> QED BY <1>0, <2>4, <2>6 DEF FilesOK
  <2>8. SealedOK'
    <3>1. CASE cmd.placed # {}
      BY <1>0, <1>1, <2>2, <2>4, <3>1, SealedStays
    <3>2. CASE cmd.placed = {}
      <4>1. kept = f
        <5>1. f = [bundle |-> f.bundle, pub |-> f.pub, operator_pub |-> f.operator_pub]
          BY <2>3 DEF FileOK
        <5> HIDE DEF kept, f
        <5> QED BY <2>5, <3>2, <5>1
      <4>2. \A q \in Paths : files'[q] = files[q]
        <5> HIDE DEF kept
        <5> QED BY <2>4, <4>1
      <4> QED BY <1>0, <1>1, <4>2 DEF SealedOK
    <3> QED BY <3>1, <3>2
  <2> QED BY <1>1, <2>7, <2>8, FaultKeeps
<1>4. CASE cmd.op # "create" /\ cmd.op # "seal"
  BY <1>0, <1>1, <1>4, AllStay, FaultKeeps
<1> QED BY <1>2, <1>3, <1>4

-----------------------------------------------------------------------------
(* Every behaviour.                                                          *)

LEMMA OldFileOK ==
  ASSUME NEW old \in OldFiles
  PROVE  FileOK(old) /\ (old.pub # None => IsWhole(old.bundle) /\ SealVerifies(old))
<1>1. /\ old = [bundle |-> old.bundle, pub |-> old.pub, operator_pub |-> old.operator_pub]
      /\ old.bundle # None =>
           old.bundle = Whole(old.bundle[1].contents) /\ Genuine(old.bundle[1].contents)
      /\ old.pub # None => old.bundle # None /\ SealVerifies(old)
  BY OldAssumption
<1>2. \A b : IsWhole(Whole(b))
  BY DEF IsWhole, Whole, Some, None
<1> QED BY <1>1, <1>2 DEF FileOK

LEMMA InitHolds == ASSUME BundleInit PROVE BundleInv
<1>1. PICK old \in OldFiles, p \in Paths, store \in ThereStores :
        /\ files = [q \in Paths |-> IF q = p THEN old ELSE NoFiles]
        /\ sealed = {q \in Paths : files[q].pub # None}
        /\ journals = [here |-> [objects |-> InitialStore, sessions |-> InitialRows],
                       there |-> [objects |-> store, sessions |-> <<>>]]
  BY DEF BundleInit
<1>2. cmd = NoCommand /\ imported = {} /\ faults = 0
  BY DEF BundleInit
<1>3. FileOK(NoFiles) /\ NoFiles.pub = None
  BY DEF FileOK, NoFiles
<1>4. FilesOK
  <2>1. \A q \in Paths : files[q] = old \/ files[q] = NoFiles
    BY <1>1
  <2>2. files = [q \in Paths |-> files[q]]
    BY <1>1
  <2> QED BY <1>3, <2>1, <2>2, OldFileOK DEF FilesOK
<1>5. SealedOK
  <2> SUFFICES ASSUME NEW q \in sealed
               PROVE  /\ q \in Paths /\ IsWhole(files[q].bundle) /\ files[q].pub # None
                      /\ SealVerifies(files[q])
    BY DEF SealedOK
  <2>1. q \in Paths /\ files[q].pub # None
    BY <1>1
  <2>2. files[q] = old
    BY <1>1, <1>3, <2>1
  <2> QED BY <2>1, <2>2, OldFileOK
<1>6. JournalsOK
  <2>1. /\ journals = [j \in Journals |-> journals[j]]
        /\ journals["here"] = [objects |-> InitialStore, sessions |-> InitialRows]
        /\ journals["there"] = [objects |-> store, sessions |-> <<>>]
    BY <1>1 DEF Journals
  <2>2. /\ journals["here"].sessions = InitialRows /\ journals["there"].sessions = <<>>
        /\ DOMAIN <<>> = {}
    BY <2>1
  <2>3. \A s \in DOMAIN InitialRows : IsSeq(InitialRows[s].history)
    BY OldAssumption
  <2>4. ASSUME NEW j \in Journals
        PROVE  /\ journals[j] = [objects |-> journals[j].objects, sessions |-> journals[j].sessions]
               /\ \A s \in SessionsOf(j) : IsSeq(Session(j, s).history)
    <3>1. CASE j = "here"
      BY <2>1, <2>2, <2>3, <3>1 DEF SessionsOf, Session
    <3>2. CASE j = "there"
      BY <2>1, <2>2, <3>2 DEF SessionsOf, Session
    <3> QED BY <3>1, <3>2 DEF Journals
  <2> QED BY <2>1, <2>4 DEF JournalsOK
<1> QED BY <1>2, <1>4, <1>5, <1>6 DEF BundleInv, CmdOK, ImportedOK

LEMMA StutterKeeps == ASSUME BundleInv, UNCHANGED bundleVars PROVE BundleInv'
<1>1. /\ journals' = journals /\ files' = files /\ cmd' = cmd /\ imported' = imported
      /\ sealed' = sealed /\ faults' = faults
  BY DEF bundleVars
<1>2. JournalsOK' /\ FilesOK' /\ SealedOK' /\ faults' \in Nat
  BY <1>1, JournalsStay, AllStay DEF BundleInv
<1>3. CmdOK'
  <2>1. CreateOK => CreateOK'
    BY <1>1 DEF CreateOK, Running
  <2>2. ReplaceOK => ReplaceOK'
    BY <1>1 DEF ReplaceOK, Running
  <2>3. SealTempOK => SealTempOK'
    BY <1>1 DEF SealTempOK, Running
  <2>4. SealOK => SealOK'
    BY <1>1 DEF SealOK, Running
  <2>5. ImportOK => ImportOK'
    BY <1>1 DEF ImportOK, Running, SessionsOf
  <2>6. ImportEventsOK => ImportEventsOK'
    BY <1>1 DEF ImportEventsOK, Running, SessionsOf, Session
  <2>7. TraceOK => TraceOK'
    BY <1>1 DEF TraceOK, Running, SessionsOf
  <2> QED BY <1>1, <2>1, <2>2, <2>3, <2>4, <2>5, <2>6, <2>7 DEF BundleInv, CmdOK
<1>4. ImportedOK'
  <2>1. ImportedOK
    BY DEF BundleInv
  <2> QED BY <1>1, <2>1, Zenon DEF ImportedOK, Running, SessionsOf, Session
<1> QED BY <1>2, <1>3, <1>4 DEF BundleInv

LEMMA InvWhole == BundleInv => ImportIsWhole
<1> SUFFICES ASSUME BundleInv, NEW r \in imported, r.from = "bundle"
             PROVE  LET row == Session(r.journal, r.session)
                        objects_ == journals[r.journal].objects
                    IN IF row = NewRow THEN Running("import_events") \/ faults > 0
                       ELSE /\ is_clean(verify_history_against_store(row.history, row.head, objects_))
                            /\ Body(assemble_session_bundle(r.what.session, row, objects_)) = Body(r.what)
  BY DEF ImportIsWhole
<1> DEFINE row == Session(r.journal, r.session)
           objs == journals[r.journal].objects
           b == r.what
           c == assemble_session_bundle(b.session, row, objs)
<1>1. /\ Importable(b) /\ Holds(objs, DOMAIN b.objects, b)
      /\ \/ row = ImportedRow(b)
         \/ row = NewRow /\ (Running("import_events") \/ faults > 0)
  BY DEF BundleInv, ImportedOK
<1>2. CASE row = ImportedRow(b)
  <2>1. /\ row.history = bundle_import_history(b) /\ row.head = Some(b.head) /\ row # NewRow
        /\ c.session = b.session /\ c.head = b.head
        /\ c.events = b.events /\ c.objects = b.objects
    BY <1>1, <1>2, ImportedRowIs
  <2> HIDE DEF row, objs, b
  <2>2. is_clean(verify_history_against_store(row.history, row.head, objs))
    BY <1>1, <2>1, CleanImport
  <2>3. Body(c) = Body(b)
    <3> HIDE DEF c
    <3> QED BY <2>1 DEF Body
  <2> QED BY <2>1, <2>2, <2>3 DEF row, objs, b
<1>3. CASE row # ImportedRow(b)
  <2>1. row = NewRow /\ (Running("import_events") \/ faults > 0)
    BY <1>1, <1>3
  <2> QED BY <2>1
<1> QED BY <1>2, <1>3

\* Whatever commands are run on a project, in any order, whichever of them fail or
\* are killed: what is at a path is a bundle whose every entry was made over it, a
\* path taken for sealed verifies with the key files beside it, and an imported
\* session is the bundle's, or empty while the import runs or after a fault.
THEOREM BundlesInductive == BundleSpec => []BundleInv
<1>1. BundleInit => BundleInv
  BY InitHolds
<1>2. BundleInv /\ [BundleNext]_bundleVars => BundleInv'
  <2> SUFFICES ASSUME BundleInv, [BundleNext]_bundleVars PROVE BundleInv'
    OBVIOUS
  <2>1. CASE Export
    BY <2>1, ExportKeeps
  <2>2. CASE Redact
    BY <2>2, RedactKeeps
  <2>3. CASE WriteBundle
    BY <2>3, WriteKeepsAll
  <2>4. CASE Sign
    BY <2>4, SignKeeps
  <2>5. CASE Attest
    BY <2>5, AttestKeeps
  <2>6. CASE Rename
    BY <2>6, RenameKeeps
  <2>7. CASE Seal
    BY <2>7, SealKeeps
  <2>8. CASE SelfVerify
    BY <2>8, SelfVerifyKeeps
  <2>9. CASE RemoveStale
    BY <2>9, RemoveStaleKeeps
  <2>10. CASE Place
    BY <2>10, PlaceKeeps
  <2>11. CASE Import
    BY <2>11, ImportKeeps
  <2>12. CASE PutObject
    BY <2>12, PutKeeps
  <2>13. CASE OpenTarget
    BY <2>13, OpenKeeps
  <2>14. CASE ImportEvents
    BY <2>14, ImportEventsKeeps
  <2>15. CASE ImportTrace
    BY <2>15, TraceKeeps
  <2>16. CASE EmitPlanned
    BY <2>16, EmitKeeps
  <2>17. CASE CommandFails
    BY <2>17, FailsKeeps
  <2>18. CASE Crash
    BY <2>18, CrashKeeps
  <2>19. CASE UNCHANGED bundleVars
    BY <2>19, StutterKeeps
  <2> QED BY <2>1, <2>2, <2>3, <2>4, <2>5, <2>6, <2>7, <2>8, <2>9, <2>10, <2>11, <2>12, <2>13,
             <2>14, <2>15, <2>16, <2>17, <2>18, <2>19 DEF BundleNext
<1> QED BY <1>1, <1>2, PTL DEF BundleSpec

\* No later signature, attestation or version stamp invalidates an entry that a
\* bundle already carries (add_head_signature, rule O9), and prove-openssl hands
\* out what bundle verify accepts, for any number of bundles, keys and commands.
THEOREM SignaturesAlwaysSurvive == BundleSpec => []SignaturesSurvive
BY BundlesInductive, InvSurvive, PTL

\* What a finished seal leaves verifies with the key files beside it for as long as
\* it is taken for sealed, whatever was there and whoever adds entries in place.
THEOREM SealedAlwaysVerifies == BundleSpec => []SealedSetVerifies
BY BundlesInductive, InvSealed, PTL

\* bundle import leaves the bundle's whole session, which verifies and would be
\* exported again as it was, or an empty one after a fault: its own check
\* (verify_import_precondition) never refuses a bundle that bundle verify accepts.
THEOREM ImportsAreWhole == BundleSpec => []ImportIsWhole
BY BundlesInductive, InvWhole, PTL
=============================================================================
