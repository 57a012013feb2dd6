---------------------------- MODULE SessionGraph ----------------------------
(***************************************************************************)
(* The journal of akmon as its writers use it: one redb file that holds a  *)
(* content-addressed object table, a head row per session and an event     *)
(* table keyed by (session, sequence); and the one process that has the    *)
(* file open, in which several emitters share a JournalHandle.             *)
(*                                                                         *)
(* Every redb transaction is one step.  An emission is the sequence        *)
(*    put ... put, lock, read head, read length, commit                    *)
(* and other emitters, an I/O error or a crash can come between any two of *)
(* its steps.  Transactions are atomic and durable (redb, external); the   *)
(* handle, the mutex and the emissions in flight die with the process.     *)
(***************************************************************************)
EXTENDS JournalEvents

CONSTANTS
  Sessions,      \* session identifiers
  Agent,         \* the agent loop, which owns the handle
  Wrappers,      \* journaling wrappers: tools and providers in flight
  Payloads,      \* object contents
  PayloadLists,  \* the objects one emission stores, in order
  AttemptLists,  \* attempts an emission of a ProviderCall may carry
  Clock,         \* readings of now_utc(): records [sec, nanos]
  MaxLives,      \* bound: times a session is opened
  MaxEmits,      \* bound: emissions started in a behaviour, SessionEnd apart
  MaxFaults,     \* bound: storage errors in a behaviour
  MaxCrashes     \* bound: crashes in a behaviour

ASSUME AgentAssumption == Agent \notin Wrappers
ASSUME PayloadListsAssumption == PayloadLists \subseteq Seq(Payloads)
ASSUME BoundsAssumption ==
  /\ MaxLives \in Nat /\ MaxEmits \in Nat
  /\ MaxFaults \in Nat /\ MaxCrashes \in Nat

Emitters == Wrappers \cup {Agent}

VARIABLES
  objects,   \* persistent: objects table, hash -> bytes
  heads,     \* persistent: session_heads table, session -> Option<Hash>
  table,     \* persistent: session_events table, per session sequence -> StoredEvent
  handle,    \* volatile: the session of the open JournalHandle, if any
  ended,     \* volatile: AgentSession::ended
  closing,   \* volatile: AgentSession is being dropped
  mutex,     \* volatile: holder of JournalHandle::graph
  pc,        \* volatile: where each emitter is
  job,       \* volatile: what each emitter is emitting
  acked,     \* history: hashes for which append returned Ok
  lives,     \* history: how often each session was opened
  emits, faults, crashes   \* counters of the bounds

store == <<objects, heads, table>>
session == <<handle, ended, closing>>
bounds == <<lives, emits, faults, crashes>>
vars == <<objects, heads, table, handle, ended, closing, mutex, pc, job,
          acked, lives, emits, faults, crashes>>

Job(tag, todo, attempts) ==
  [tag |-> tag, todo |-> todo, attempts |-> attempts, refs |-> <<>>,
   head |-> None, len |-> 0]

NoJob == Job("SessionEnd", <<>>, <<>>)

AgentTags == {"UserTurn", "PermissionGate", "AssistantTurn"}
WrapperTags == {"ToolCall", "ProviderCall"}

Init ==
  /\ objects = <<>> /\ heads = <<>> /\ table = [s \in Sessions |-> <<>>]
  /\ handle = None /\ ended = FALSE /\ closing = FALSE
  /\ mutex = None
  /\ pc = [w \in Emitters |-> "idle"]
  /\ job = [w \in Emitters |-> NoJob]
  /\ acked = [s \in Sessions |-> {}]
  /\ lives = [s \in Sessions |-> 0]
  /\ emits = 0 /\ faults = 0 /\ crashes = 0

Quiet == \A w \in Emitters : pc[w] = "idle"

(***************************************************************************)
(* Tables.                                                                 *)
(***************************************************************************)
Insert(t, k, v) == [x \in DOMAIN t \cup {k} |-> IF x = k THEN v ELSE t[x]]

history_len(s) == Cardinality(DOMAIN table[s])

\* history: the events of a session sorted by sequence.
history(s) ==
  [i \in 1..history_len(s) |->
     table[s][CHOOSE q \in DOMAIN table[s] :
                Cardinality({r \in DOMAIN table[s] : r < q}) = i - 1]]

verify(s) == verify_history_against_store(history(s), heads[s], objects)

(***************************************************************************)
(* Opening a session: open_or_resume_default_journal_handle followed by    *)
(* AgentSession::new, which emits SessionStart unless the handle is a      *)
(* resumed one.                                                            *)
(***************************************************************************)
\* RedbSessionGraph::open_new inserts the head row, then new() begins to emit.
OpenNew(s) ==
  /\ handle = None
  /\ s \notin DOMAIN heads
  /\ lives[s] < MaxLives
  /\ emits < MaxEmits
  /\ heads' = Insert(heads, s, None)
  /\ handle' = Some(s) /\ ended' = FALSE /\ closing' = FALSE
  /\ pc' = [pc EXCEPT ![Agent] = "put"]
  /\ \E ps \in PayloadLists :
       job' = [job EXCEPT ![Agent] = Job("SessionStart", ps, <<>>)]
  /\ lives' = [lives EXCEPT ![s] = @ + 1]
  /\ emits' = emits + 1
  /\ UNCHANGED <<objects, table, mutex, acked, faults, crashes>>

\* resume and the row exists: RedbSessionGraph::reopen; no SessionStart.
Resume(s) ==
  /\ handle = None
  /\ s \in DOMAIN heads
  /\ lives[s] < MaxLives
  /\ handle' = Some(s) /\ ended' = FALSE /\ closing' = FALSE
  /\ lives' = [lives EXCEPT ![s] = @ + 1]
  /\ UNCHANGED <<store, mutex, pc, job, acked, emits, faults, crashes>>

(***************************************************************************)
(* Emissions.                                                              *)
(***************************************************************************)
\* emit_user_turn, emit_permission_gate, emit_assistant_turn: called by the
\* agent loop, which makes no emission of its own after SessionEnd.
AgentEmit ==
  /\ handle # None /\ ~ended /\ ~closing
  /\ pc[Agent] = "idle"
  /\ emits < MaxEmits
  /\ pc' = [pc EXCEPT ![Agent] = "put"]
  /\ \E tag \in AgentTags, ps \in PayloadLists :
       job' = [job EXCEPT ![Agent] = Job(tag, ps, <<>>)]
  /\ emits' = emits + 1
  /\ UNCHANGED <<store, session, mutex, acked, lives, faults, crashes>>

\* JournalingTool::execute, JournalingProvider::complete: called in a run, so
\* after AgentSession::new has returned the session.
WrapperEmit(w) ==
  /\ handle # None /\ ~ended /\ ~closing
  /\ job[Agent].tag # "SessionStart"
  /\ pc[w] = "idle"
  /\ emits < MaxEmits
  /\ pc' = [pc EXCEPT ![w] = "put"]
  /\ \E tag \in WrapperTags, ps \in PayloadLists, as \in AttemptLists :
       job' = [job EXCEPT ![w] =
                 Job(tag, ps, IF tag = "ProviderCall" THEN as ELSE <<>>)]
  /\ emits' = emits + 1
  /\ UNCHANGED <<store, session, mutex, acked, lives, faults, crashes>>

\* The emitter has an Ok or an Err and is done.  A failed SessionStart fails
\* AgentSession::new, which drops the handle; a failed SessionEnd clears the
\* ended flag again; drop() ends the handle either way.
Return(w, ok) ==
  /\ pc' = [pc EXCEPT ![w] = "idle"]
  /\ job' = [job EXCEPT ![w] = NoJob]
  /\ ended' = IF ~ok /\ job[w].tag = "SessionEnd" THEN FALSE ELSE ended
  /\ closing' = IF job[w].tag = "SessionEnd" THEN FALSE ELSE closing
  /\ handle' = IF \/ ~ok /\ job[w].tag = "SessionStart"
                  \/ closing /\ job[w].tag = "SessionEnd"
               THEN None ELSE handle

\* ObjectStore::put: one transaction, an existing object is kept.
Put(w) ==
  /\ pc[w] = "put" /\ job[w].todo # <<>>
  /\ LET bytes == Head(job[w].todo)
         h     == digest_bytes(bytes)
     IN /\ objects' = IF h \in DOMAIN objects THEN objects
                      ELSE Insert(objects, h, bytes)
        /\ job' = [job EXCEPT ![w].todo = Tail(@), ![w].refs = Append(@, h)]
  /\ UNCHANGED <<heads, table, session, mutex, pc, acked, bounds>>

\* What an emission of each wrapper records for an object it could not store
\* and goes on: a tool the zero hash, a provider the zero hash (sentinel_hash)
\* for a request and nothing for a response or a chunk.
Degraded(tag) ==
  IF tag = "ToolCall" THEN {<<zero_hash>>} ELSE {<<>>, <<zero_hash>>}

\* A put fails: the agent loop's emitters give up, and so does a provider call
\* whose own request, response or stream object fails; else the emission goes on.
PutFails(w) ==
  /\ pc[w] = "put" /\ job[w].todo # <<>>
  /\ faults < MaxFaults /\ faults' = faults + 1
  /\ \/ /\ w = Agent \/ job[w].tag = "ProviderCall"
        /\ Return(w, FALSE)
     \/ /\ w # Agent
        /\ \E ref \in Degraded(job[w].tag) :
             job' = [job EXCEPT ![w].todo = Tail(@), ![w].refs = @ \o ref]
        /\ UNCHANGED <<pc, session>>
  /\ UNCHANGED <<store, mutex, acked, lives, emits, crashes>>

\* Mutant of Lock: append without the mutex.
LockFree(w) ==
  /\ pc[w] = "put" /\ job[w].todo = <<>>
  /\ mutex' = Some(w)
  /\ pc' = [pc EXCEPT ![w] = "head"]
  /\ UNCHANGED <<store, session, job, acked, bounds>>

Lock(w) ==
  /\ pc[w] = "put" /\ job[w].todo = <<>>
  /\ mutex = None
  /\ mutex' = Some(w)
  /\ pc' = [pc EXCEPT ![w] = "head"]
  /\ UNCHANGED <<store, session, job, acked, bounds>>

(***************************************************************************)
(* RedbSessionGraph::append, under the mutex: two read transactions, the   *)
(* checks, one write transaction.                                          *)
(***************************************************************************)
ReadHead(w) ==
  /\ pc[w] = "head"
  /\ job' = [job EXCEPT ![w].head = heads[handle[1]]]
  /\ pc' = [pc EXCEPT ![w] = "len"]
  /\ UNCHANGED <<store, session, mutex, acked, bounds>>

ReadLen(w) ==
  /\ pc[w] = "len"
  /\ job' = [job EXCEPT ![w].len = history_len(handle[1])]
  /\ pc' = [pc EXCEPT ![w] = "commit"]
  /\ UNCHANGED <<store, session, mutex, acked, bounds>>

KindOf(j) == EventKind(j.tag, j.refs, j.attempts)

\* Mutant of Accepted: the first event may be of any kind.
AcceptedAnyFirst(j) ==
  /\ validate_event_kind_invariants(KindOf(j))
  /\ j.tag = "SessionStart" => j.head = None

\* A session begins with SessionStart and has no other one.
Accepted(j) ==
  /\ validate_event_kind_invariants(KindOf(j))
  /\ (j.head = None) <=> (j.tag = "SessionStart")

\* Mutant of Commit: the head row keeps the old head.
CommitEventOnly(w) ==
  /\ pc[w] = "commit" /\ Accepted(job[w])
  /\ \E now \in Clock :
       LET s == handle[1]
           e == StoredEvent(Event(job[w].head, KindOf(job[w]), now, job[w].len))
       IN /\ table' = [table EXCEPT ![s] = Insert(@, job[w].len, e)]
          /\ acked' = [acked EXCEPT ![s] = @ \cup {e.hash}]
  /\ mutex' = None
  /\ Return(w, TRUE)
  /\ UNCHANGED <<objects, heads, bounds>>

\* The event insert and the head update are one transaction.
Commit(w) ==
  /\ pc[w] = "commit" /\ Accepted(job[w])
  /\ \E now \in Clock :
       LET s == handle[1]
           e == StoredEvent(Event(job[w].head, KindOf(job[w]), now, job[w].len))
       IN /\ table' = [table EXCEPT ![s] = Insert(@, job[w].len, e)]
          /\ heads' = Insert(heads, s, Some(e.hash))
          /\ acked' = [acked EXCEPT ![s] = @ \cup {e.hash}]
  /\ mutex' = None
  /\ Return(w, TRUE)
  /\ UNCHANGED <<objects, bounds>>

\* Mutant of Reject: the guard is not released on the error path.
RejectHoldingMutex(w) ==
  /\ pc[w] = "commit" /\ ~Accepted(job[w])
  /\ Return(w, FALSE)
  /\ UNCHANGED <<store, mutex, acked, bounds>>

\* append returns Err before the write transaction: nothing is written.
Reject(w) ==
  /\ pc[w] = "commit" /\ ~Accepted(job[w])
  /\ mutex' = None
  /\ Return(w, FALSE)
  /\ UNCHANGED <<store, acked, bounds>>

\* Any transaction of append fails: the write, if any, is rolled back.
AppendFails(w) ==
  /\ pc[w] \in {"head", "len", "commit"}
  /\ faults < MaxFaults /\ faults' = faults + 1
  /\ mutex' = None
  /\ Return(w, FALSE)
  /\ UNCHANGED <<store, acked, lives, emits, crashes>>

(***************************************************************************)
(* Ending a session.                                                       *)
(***************************************************************************)
EmitSessionEnd ==
  /\ ended' = TRUE
  /\ pc' = [pc EXCEPT ![Agent] = "put"]
  /\ job' = [job EXCEPT ![Agent] = Job("SessionEnd", <<>>, <<>>)]
  /\ UNCHANGED <<store, handle, mutex, acked, bounds>>

\* AgentSession::end: the compare_exchange lets one caller through.
End ==
  /\ handle # None /\ Quiet /\ ~ended
  /\ EmitSessionEnd
  /\ UNCHANGED closing

\* Drop for AgentSession.  No emission is in flight: run borrows the session.
Drop ==
  /\ handle # None /\ Quiet
  /\ IF ended
     THEN /\ handle' = None
          /\ UNCHANGED <<store, ended, closing, mutex, pc, job, acked, bounds>>
     ELSE EmitSessionEnd /\ closing' = TRUE

\* The process dies at any point.
Crash ==
  /\ handle # None
  /\ crashes < MaxCrashes /\ crashes' = crashes + 1
  /\ handle' = None /\ ended' = FALSE /\ closing' = FALSE /\ mutex' = None
  /\ pc' = [w \in Emitters |-> "idle"]
  /\ job' = [w \in Emitters |-> NoJob]
  /\ UNCHANGED <<store, acked, lives, emits, faults>>

Step(w) ==
  Put(w) \/ Lock(w) \/ ReadHead(w) \/ ReadLen(w) \/ Commit(w) \/ Reject(w)

Next ==
  \/ \E s \in Sessions : OpenNew(s) \/ Resume(s)
  \/ AgentEmit \/ End \/ Drop \/ Crash
  \/ \E w \in Wrappers : WrapperEmit(w)
  \/ \E w \in Emitters : Step(w) \/ PutFails(w) \/ AppendFails(w)

\* The executor polls every future it was given and the mutex is never held
\* across an await, so an emission that has begun goes on.
Fairness == \A w \in Emitters : WF_vars(Step(w))

Spec == Init /\ [][Next]_vars /\ Fairness

(***************************************************************************)
(* Properties.                                                             *)
(***************************************************************************)
JobFields == {"tag", "todo", "attempts", "refs", "head", "len"}
Pcs == {"idle", "put", "head", "len", "commit"}

\* The state keeps its shape: heads for sessions only, events only in the table
\* of a session that has a head row, a mutex held by exactly the emitter that
\* is inside append, and every emission in flight belongs to an open handle.
TypeOK ==
  /\ DOMAIN heads \subseteq Sessions
  /\ DOMAIN table = Sessions
  /\ \A s \in Sessions : DOMAIN table[s] \subseteq Nat /\ IsFiniteSet(DOMAIN table[s])
  /\ handle \in {None} \cup {Some(s) : s \in DOMAIN heads}
  /\ ended \in BOOLEAN /\ closing \in BOOLEAN
  /\ mutex \in {None} \cup {Some(w) : w \in Emitters}
  /\ pc \in [Emitters -> Pcs]
  /\ DOMAIN job = Emitters
  /\ \A w \in Emitters : DOMAIN job[w] = JobFields
  /\ \A w \in Emitters : /\ job[w].tag \in Tags /\ job[w].todo \in Seq(Payloads)
                           /\ job[w].len \in Nat
  /\ \A w \in Emitters : pc[w] \in {"head", "len", "commit"} <=> mutex = Some(w)
  /\ handle = None => Quiet
  /\ lives \in [Sessions -> Nat]
  /\ emits \in Nat /\ faults \in Nat /\ crashes \in Nat

\* The events of a session are numbered 0 .. n-1 without gap, each carries the
\* hash of its content, each but the first names its predecessor as only
\* parent, SessionStart is first and nowhere else, and the head row names the
\* last event: whatever the interleaving of emitters, errors and crashes.
LinkedTable(t, head) ==
  LET n == Cardinality(DOMAIN t) IN
    /\ DOMAIN t = 0..(n-1)
    /\ \A q \in 0..(n-1) :
         /\ t[q].hash = content_hash(t[q].event)
         /\ t[q].event.sequence = q
         /\ t[q].event.parents = IF q = 0 THEN None ELSE Some(t[q-1].hash)
         /\ (t[q].event.kind.tag = "SessionStart") <=> (q = 0)
    /\ head = IF n = 0 THEN None ELSE Some(t[n-1].hash)

ChainLinked ==
  \A s \in Sessions :
    IF s \in DOMAIN heads THEN LinkedTable(table[s], heads[s])
    ELSE table[s] = <<>>

\* Inside append the emitter's copies of the head and of the length are the
\* current ones: nobody else appends while the mutex is held.
ReadsCurrent ==
  \A w \in Emitters :
    /\ pc[w] \in {"len", "commit"} => job[w].head = heads[handle[1]]
    /\ pc[w] = "commit" => job[w].len = history_len(handle[1])

\* SessionStart and SessionEnd are emitted while no wrapper is at work.
AloneAtEnds ==
  /\ \A w \in Emitters : pc[w] = "idle" => job[w] = NoJob
  /\ \A w \in Wrappers : pc[w] # "idle" => job[w].tag \in WrapperTags
  /\ pc[Agent] # "idle" /\ job[Agent].tag \in {"SessionStart", "SessionEnd"} =>
       \A w \in Wrappers : pc[w] = "idle"
  /\ pc[Agent] # "idle" /\ job[Agent].tag = "SessionEnd" => ended
  /\ closing => pc[Agent] # "idle" /\ job[Agent].tag = "SessionEnd"

IndInv == TypeOK /\ ChainLinked /\ ReadsCurrent /\ AloneAtEnds

\* An event whose append returned Ok is in the journal for ever: neither a
\* later append nor a crash loses it.
AckedDurable ==
  \A s \in Sessions :
    acked[s] \subseteq {table[s][q].hash : q \in DOMAIN table[s]}

\* verify, run on what the writer stored at any moment, finds nothing but
\* degraded objects and the number and place of SessionEnd.
VerifyBlamesNoWriter ==
  \A s \in DOMAIN heads :
    LET report == verify(s)
    IN /\ report.missing_objects \subseteq {zero_hash}
       /\ report.object_hash_mismatches = {}
       /\ report.hash_mismatches = {}
       /\ report.broken_parent_links = {}
       /\ report.sequence_violations = {}
       /\ ~report.head_mismatch

\* The journal is append-only: a step keeps every event and adds at most one,
\* to one session, behind the last.
AppendOnly ==
  [][\A s \in Sessions :
       \/ table'[s] = table[s]
       \/ /\ DOMAIN table'[s] = DOMAIN table[s] \cup {history_len(s)}
          /\ history_len(s) \notin DOMAIN table[s]
          /\ \A q \in DOMAIN table[s] : table'[s][q] = table[s][q]
          /\ \A r \in Sessions \ {s} : table'[r] = table[r]]_vars

\* The events of a session as the log of kinds that SessionLog speaks of.
KindLog ==
  [s \in Sessions |-> [i \in 1..history_len(s) |-> table[s][i-1].event.kind.tag]]

Log == INSTANCE SessionLog
         WITH LogSessions <- Sessions, LogTags <- Tags,
              created <- DOMAIN heads, log <- KindLog

\* Seen as a log of kinds, the journal with its emitters, errors and crashes is
\* the append-only log of SessionLog: a step creates a session, appends one
\* event, or changes nothing that a reader can see.
ImplementsLog == Log!LogSpec

\* Every emission that begins returns: no emitter waits for the mutex for ever.
EmissionsReturn == \A w \in Emitters : pc[w] # "idle" ~> pc[w] = "idle"
=============================================================================
