--------------------------- MODULE JournalEvents ---------------------------
(***************************************************************************)
(* The data of the akmon journal: content hashes, session events and the   *)
(* linear-history verifier.  No state: every other journal module extends  *)
(* this one.                                                               *)
(*                                                                         *)
(* A hash is modelled as a perfect one: the digest of a value is the value *)
(* wrapped in a tag, so two digests are equal exactly when the hashed      *)
(* values are.  An Option is a sequence of length zero or one, which makes *)
(* the parents of an event and the head it was appended to the same value. *)
(***************************************************************************)
EXTENDS Integers, Sequences, FiniteSets

digest_bytes(b) == <<"sha256", b>>

\* Sentinel that the journaling wrappers reference when a put failed.
zero_hash == <<"zero">>

None == <<>>
Some(x) == <<x>>

Tags == {"SessionStart", "UserTurn", "ProviderCall", "ToolCall",
         "RetrievalCall", "PermissionGate", "AssistantTurn", "SessionEnd"}

\* An event kind carries the hashes of the objects it references, in field
\* order, and for a ProviderCall its attempts: attempt_number, started_at.
EventKind(tag, refs, attempts) ==
  [tag |-> tag, refs |-> refs, attempts |-> attempts]

referenced_object_hashes_for_kind(kind) ==
  {kind.refs[i] : i \in DOMAIN kind.refs}

\* A ProviderCall has at least one attempt, numbered 1, 2, 3 ... and started
\* in that order; the other kinds are unconstrained.
validate_event_kind_invariants(kind) ==
  kind.tag = "ProviderCall" =>
    /\ kind.attempts # <<>>
    /\ \A i \in DOMAIN kind.attempts :
         /\ kind.attempts[i].attempt_number = i
         /\ i > 1 => kind.attempts[i-1].started_at <= kind.attempts[i].started_at

\* The hashed form of an event: emitted_at is encoded in whole seconds.
WireEvent(e) == [e EXCEPT !.emitted_at = e.emitted_at.sec]

content_hash(e) == digest_bytes(WireEvent(e))

Event(parents, kind, emittedAt, sequence) ==
  [parents |-> parents, kind |-> kind, emitted_at |-> emittedAt,
   sequence |-> sequence]

StoredEvent(e) == [hash |-> content_hash(e), event |-> e]

(***************************************************************************)
(* verify_history_against_store.  A history is the sequence of stored      *)
(* events, so index i of the model is position i-1 of the code.  The       *)
(* report fields hold the offending positions or hashes.                   *)
(***************************************************************************)
Referenced(history) ==
  UNION {referenced_object_hashes_for_kind(history[i].event.kind) :
           i \in DOMAIN history}

\* Mutant of sequence_violations: increasing is enough.
sequence_violations_increasing(history) ==
  {i \in DOMAIN history :
     i > 1 /\ history[i].event.sequence <= history[i-1].event.sequence}

sequence_violations(history) ==
  {i \in DOMAIN history : history[i].event.sequence # i - 1}

\* Mutant of broken_parent_links: the first event needs no special case.
broken_parent_links_uniform(history) ==
  {i \in DOMAIN history :
     i > 1 => history[i].event.parents # Some(history[i-1].hash)}

broken_parent_links(history) ==
  {i \in DOMAIN history :
     IF i = 1
     THEN \/ history[i].event.kind.tag # "SessionStart"
          \/ history[i].event.parents # None
     ELSE history[i].event.parents # Some(history[i-1].hash)}

\* Mutant of hash_mismatches: the last event is left to the head check.
hash_mismatches_inner(history) ==
  {i \in DOMAIN history :
     i < Len(history) /\ content_hash(history[i].event) # history[i].hash}

hash_mismatches(history) ==
  {i \in DOMAIN history : content_hash(history[i].event) # history[i].hash}

missing_objects(history, store) ==
  {h \in Referenced(history) : h \notin DOMAIN store}

object_hash_mismatches(history, store) ==
  {h \in Referenced(history) \cap DOMAIN store : digest_bytes(store[h]) # h}

\* Only two present heads can disagree: an absent one is not a mismatch.
head_mismatch(history, storedHead) ==
  /\ storedHead # None
  /\ history # <<>>
  /\ storedHead # Some(history[Len(history)].hash)

SessionEnds(history) ==
  {i \in DOMAIN history : history[i].event.kind.tag = "SessionEnd"}

session_end_is_terminal(history) == SessionEnds(history) = {Len(history)}

verify_history_against_store(history, storedHead, store) ==
  [missing_objects         |-> missing_objects(history, store),
   object_hash_mismatches  |-> object_hash_mismatches(history, store),
   hash_mismatches         |-> hash_mismatches(history),
   broken_parent_links     |-> broken_parent_links(history),
   sequence_violations     |-> sequence_violations(history),
   head_mismatch           |-> head_mismatch(history, storedHead),
   session_end_count       |-> Cardinality(SessionEnds(history)),
   session_end_is_terminal |-> session_end_is_terminal(history)]

is_clean(report) ==
  /\ report.missing_objects = {}
  /\ report.object_hash_mismatches = {}
  /\ report.hash_mismatches = {}
  /\ report.broken_parent_links = {}
  /\ report.sequence_violations = {}
  /\ ~report.head_mismatch
  /\ report.session_end_count = 1
  /\ report.session_end_is_terminal

(***************************************************************************)
(* What append adds to a history, and what an import of a history checks   *)
(* first: it must verify with no declared head.                            *)
(***************************************************************************)
\* MemorySessionGraph::append: the same checks and the same event as redb's.
AppendTo(h, kind, now) ==
  LET parents == IF h = <<>> THEN None ELSE Some(h[Len(h)].hash)
  IN Append(h, StoredEvent(Event(parents, kind, now, Len(h))))

verify_import_precondition(h, objs) ==
  h # <<>> /\ is_clean(verify_history_against_store(h, None, objs))
=============================================================================
