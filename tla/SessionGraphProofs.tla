------------------------- MODULE SessionGraphProofs -------------------------
(***************************************************************************)
(* Machine-checked proofs about SessionGraph, for any number of sessions,  *)
(* emitters, objects, errors and crashes.                                  *)
(***************************************************************************)
EXTENDS SessionGraph, FiniteSetTheorems, TLAPS

Shape == TypeOK /\ AloneAtEnds

(***************************************************************************)
(* Facts about the operators.                                              *)
(***************************************************************************)
LEMMA SomeInjective ==
  ASSUME NEW x, NEW y
  PROVE  /\ Some(x) # None /\ Some(x)[1] = x
         /\ Some(x) = Some(y) <=> x = y
<1>1. Some(x)[1] = x /\ Some(y)[1] = y
  BY DEF Some
<1>2. Some(x) # None
  <2>1. Len(Some(x)) = 1 /\ Len(None) = 0
    BY DEF Some, None
  <2> QED BY <2>1
<1> QED BY <1>1, <1>2

LEMMA JobShape ==
  ASSUME NEW tag \in Tags, NEW todo \in Seq(Payloads), NEW attempts
  PROVE  LET j == Job(tag, todo, attempts)
         IN /\ DOMAIN j = JobFields
            /\ j.tag = tag /\ j.todo = todo /\ j.len = 0 /\ j.len \in Nat
BY DEF Job, JobFields

LEMMA NoJobShape ==
  /\ DOMAIN NoJob = JobFields
  /\ NoJob.tag = "SessionEnd" /\ NoJob.tag \in Tags
  /\ NoJob.todo \in Seq(Payloads) /\ NoJob.len \in Nat
BY DEF NoJob, Job, JobFields, Tags

LEMMA HistoryLenType ==
  ASSUME TypeOK, NEW s \in Sessions
  PROVE  history_len(s) \in Nat
BY FS_CardinalityType DEF TypeOK, history_len

LEMMA InsertDomain ==
  ASSUME NEW t, NEW k, NEW v
  PROVE  DOMAIN Insert(t, k, v) = DOMAIN t \cup {k}
BY DEF Insert

\* Initially nothing is open and every emitter is idle.
LEMMA InitShape == Init => Shape
<1> SUFFICES ASSUME Init PROVE Shape
  OBVIOUS
<1> USE NoJobShape DEF Init
<1>1. DOMAIN <<>> = {}
  OBVIOUS
<1>2. TypeOK
  BY <1>1, FS_EmptySet DEF TypeOK, Quiet, Pcs, Some, None
<1>3. AloneAtEnds
  BY DEF AloneAtEnds, Emitters
<1> QED
  BY <1>2, <1>3 DEF Shape

\* Whatever an emission returns, the emitter is idle afterwards and, if the
\* handle goes away with it, so is everybody else.
LEMMA ReturnShape ==
  ASSUME Shape, NEW w \in Emitters, NEW ok \in BOOLEAN, pc[w] # "idle",
         Return(w, ok),
         mutex' = None \/ (mutex' = mutex /\ mutex # Some(w)),
         mutex' = None => mutex \in {None, Some(w)},
         DOMAIN heads' = DOMAIN heads, DOMAIN table' = Sessions,
         \A s \in Sessions : DOMAIN table'[s] \subseteq Nat /\ IsFiniteSet(DOMAIN table'[s]),
         lives' = lives, emits' = emits, crashes' = crashes, faults' \in Nat
  PROVE  Shape'
<1> USE DEF Shape
<1>1. /\ pc' \in [Emitters -> Pcs] /\ DOMAIN job' = Emitters
      /\ pc'[w] = "idle" /\ job'[w] = NoJob
      /\ \A v \in Emitters \ {w} : pc'[v] = pc[v] /\ job'[v] = job[v]
  BY DEF Return, TypeOK, Pcs
<1>2. \A v \in Emitters : /\ DOMAIN job'[v] = JobFields
                          /\ job'[v].tag \in Tags /\ job'[v].todo \in Seq(Payloads)
                          /\ job'[v].len \in Nat
  BY <1>1, NoJobShape DEF TypeOK
<1>3. handle' # handle => handle' = None /\ \A v \in Emitters : pc'[v] = "idle"
  BY <1>1, AgentAssumption DEF Return, AloneAtEnds, TypeOK, Emitters, WrapperTags
<1>4. handle = None => handle' = None /\ \A v \in Emitters : pc'[v] = "idle"
  BY <1>1 DEF TypeOK, Quiet
<1>5. AloneAtEnds'
  BY <1>1, NoJobShape, AgentAssumption DEF Return, AloneAtEnds, TypeOK, Emitters, WrapperTags
<1>6. ended' \in BOOLEAN /\ closing' \in BOOLEAN
  BY DEF Return, TypeOK
<1>7. \A v \in Emitters : pc'[v] \in {"head", "len", "commit"} <=> mutex' = Some(v)
  BY <1>1, SomeInjective DEF TypeOK
<1>8. mutex' \in {None} \cup {Some(v) : v \in Emitters}
  BY DEF TypeOK
<1>9. handle' \in {None} \cup {Some(s) : s \in DOMAIN heads'}
  BY <1>3 DEF TypeOK
<1>10. TypeOK'
  BY <1>1, <1>2, <1>3, <1>4, <1>6, <1>7, <1>8, <1>9 DEF TypeOK, Quiet
<1> QED
  BY <1>5, <1>10

\* An emitter begins an emission: it was idle and a handle is open.
LEMMA BeginShape ==
  ASSUME Shape, NEW w \in Emitters, pc[w] = "idle",
         NEW tag \in Tags, NEW todo \in Seq(Payloads), NEW attempts,
         handle' # None, handle' \in {Some(s) : s \in DOMAIN heads'},
         DOMAIN heads' \subseteq Sessions, table' = table, mutex' = mutex,
         pc' = [pc EXCEPT ![w] = "put"],
         job' = [job EXCEPT ![w] = Job(tag, todo, attempts)],
         ended' \in BOOLEAN, closing' \in BOOLEAN,
         lives' \in [Sessions -> Nat], emits' \in Nat,
         faults' = faults, crashes' = crashes
  PROVE  TypeOK'
<1> USE DEF Shape
<1>1. /\ pc' \in [Emitters -> Pcs] /\ DOMAIN job' = Emitters
      /\ pc'[w] = "put" /\ job'[w] = Job(tag, todo, attempts)
      /\ \A v \in Emitters \ {w} : pc'[v] = pc[v] /\ job'[v] = job[v]
  BY DEF TypeOK, Pcs
<1>2. \A v \in Emitters : /\ DOMAIN job'[v] = JobFields
                          /\ job'[v].tag \in Tags /\ job'[v].todo \in Seq(Payloads)
                          /\ job'[v].len \in Nat
  BY <1>1, JobShape DEF TypeOK
<1>3. \A v \in Emitters : pc'[v] \in {"head", "len", "commit"} <=> mutex' = Some(v)
  BY <1>1 DEF TypeOK
<1> QED
  BY <1>1, <1>2, <1>3 DEF TypeOK

\* An emission goes on: the emitter keeps its tag and stays busy.
LEMMA ContinueShape ==
  ASSUME Shape, NEW w \in Emitters, pc[w] # "idle",
         NEW p \in {"put", "head", "len", "commit"}, pc' = [pc EXCEPT ![w] = p],
         DOMAIN job' = Emitters, \A v \in Emitters \ {w} : job'[v] = job[v],
         DOMAIN job'[w] = JobFields, job'[w].tag = job[w].tag,
         job'[w].todo \in Seq(Payloads), job'[w].len \in Nat,
         DOMAIN heads' = DOMAIN heads, table' = table, UNCHANGED session,
         \/ p = "put" /\ mutex # Some(w) /\ mutex' = mutex
         \/ p # "put" /\ mutex \in {None, Some(w)} /\ mutex' = Some(w),
         lives' = lives, emits' = emits, crashes' = crashes, faults' \in Nat
  PROVE  Shape'
<1> USE DEF Shape, session
<1>1. /\ pc' \in [Emitters -> Pcs] /\ pc'[w] = p
      /\ \A v \in Emitters \ {w} : pc'[v] = pc[v]
  BY DEF TypeOK, Pcs
<1>2. \A v \in Emitters : pc'[v] \in {"head", "len", "commit"} <=> mutex' = Some(v)
  BY <1>1, SomeInjective, SMTT(60) DEF TypeOK
<1>3. handle # None
  BY DEF TypeOK, Quiet
<1>4. TypeOK'
  BY <1>1, <1>2, <1>3, ZenonT(60) DEF TypeOK
<1>5. AloneAtEnds'
  BY <1>1, AgentAssumption DEF AloneAtEnds, Emitters
<1> QED
  BY <1>4, <1>5

\* Every step keeps the shape.
LEMMA NextShape == Shape /\ [Next]_vars => Shape'
<1> SUFFICES ASSUME Shape, [Next]_vars PROVE Shape'
  OBVIOUS
<1>a. TypeOK /\ AloneAtEnds
  BY DEF Shape
<1>b. Agent \in Emitters
  BY DEF Emitters
<1>c. "SessionStart" \in Tags /\ "SessionEnd" \in Tags /\ <<>> \in Seq(Payloads)
  BY DEF Tags
<1>1. CASE UNCHANGED vars
  BY <1>1, <1>a DEF Shape, TypeOK, AloneAtEnds, Quiet, vars
<1>2. ASSUME NEW s \in Sessions, OpenNew(s) PROVE Shape'
  <2>1. pc[Agent] = "idle" /\ \A v \in Emitters : pc[v] = "idle"
    BY <1>2, <1>a, <1>b DEF OpenNew, TypeOK, Quiet
  <2>2. PICK ps \in PayloadLists : job' = [job EXCEPT ![Agent] = Job("SessionStart", ps, <<>>)]
    BY <1>2 DEF OpenNew
  <2>3. ps \in Seq(Payloads)
    BY PayloadListsAssumption
  <2>4. TypeOK'
    <3>1. DOMAIN heads' = DOMAIN heads \cup {s} /\ handle' = Some(s)
      BY <1>2 DEF OpenNew, Insert
    <3>2. /\ DOMAIN heads' \subseteq Sessions /\ handle' # None
          /\ handle' \in {Some(r) : r \in DOMAIN heads'}
      BY <1>a, <3>1, SomeInjective DEF TypeOK
    <3>3. /\ table' = table /\ mutex' = mutex /\ pc' = [pc EXCEPT ![Agent] = "put"]
          /\ lives' \in [Sessions -> Nat] /\ emits' \in Nat
          /\ faults' = faults /\ crashes' = crashes
      BY <1>2, <1>a DEF OpenNew, TypeOK
    <3>4. ended' \in BOOLEAN /\ closing' \in BOOLEAN
      BY <1>2, Zenon DEF OpenNew
    <3> QED
      BY <1>b, <1>c, <2>1, <2>2, <2>3, <3>2, <3>3, <3>4, BeginShape
  <2>5. AloneAtEnds'
    BY <1>2, <1>a, <1>b, <1>c, <2>1, <2>2, <2>3, JobShape, AgentAssumption
       DEF OpenNew, AloneAtEnds, TypeOK, Emitters
  <2> QED BY <2>4, <2>5 DEF Shape
<1>3. ASSUME NEW s \in Sessions, Resume(s) PROVE Shape'
  <2>1. /\ handle' = Some(s) /\ s \in DOMAIN heads /\ ended' = FALSE /\ closing' = FALSE
        /\ UNCHANGED <<heads, table, mutex, pc, job, emits, faults, crashes>>
        /\ lives' \in [Sessions -> Nat]
    BY <1>3, <1>a DEF Resume, store, TypeOK
  <2>2. handle' \in {Some(r) : r \in DOMAIN heads'} /\ handle' # None
    BY <2>1, SomeInjective
  <2>3. TypeOK'
    BY <1>a, <2>1, <2>2 DEF TypeOK
  <2>4. Quiet
    BY <1>3, <1>a DEF Resume, TypeOK
  <2>5. AloneAtEnds'
    BY <1>a, <1>b, <2>1, <2>4 DEF AloneAtEnds, Quiet
  <2> QED BY <2>3, <2>5 DEF Shape
<1>4. CASE AgentEmit
  <2>1. PICK tag \in AgentTags, ps \in PayloadLists :
          job' = [job EXCEPT ![Agent] = Job(tag, ps, <<>>)]
    BY <1>4 DEF AgentEmit
  <2>2. ps \in Seq(Payloads) /\ tag \in Tags /\ tag \notin {"SessionStart", "SessionEnd"}
    BY PayloadListsAssumption DEF AgentTags, Tags
  <2>3. TypeOK'
    <3>1. /\ pc[Agent] = "idle" /\ handle' # None /\ heads' = heads /\ handle' = handle
          /\ table' = table /\ mutex' = mutex /\ pc' = [pc EXCEPT ![Agent] = "put"]
          /\ ended' = ended /\ closing' = closing /\ lives' = lives
          /\ faults' = faults /\ crashes' = crashes /\ emits' = emits + 1
      BY <1>4 DEF AgentEmit, store, session
    <3>2. /\ handle' \in {Some(r) : r \in DOMAIN heads'} /\ DOMAIN heads' \subseteq Sessions
          /\ ended' \in BOOLEAN /\ closing' \in BOOLEAN
          /\ lives' \in [Sessions -> Nat] /\ emits' \in Nat
      BY <1>a, <3>1 DEF TypeOK
    <3> QED
      BY <1>b, <2>1, <2>2, <3>1, <3>2, BeginShape
  <2>4. AloneAtEnds'
    BY <1>4, <1>a, <1>b, <2>1, <2>2, JobShape, AgentAssumption
       DEF AgentEmit, AloneAtEnds, TypeOK, Emitters, session
  <2> QED BY <2>3, <2>4 DEF Shape
<1>5. ASSUME NEW w \in Wrappers, WrapperEmit(w) PROVE Shape'
  <2>1. PICK tag \in WrapperTags, ps \in PayloadLists,
             as \in AttemptLists \cup {<<>>} :
          job' = [job EXCEPT ![w] = Job(tag, ps, as)]
    BY <1>5 DEF WrapperEmit
  <2>2. ps \in Seq(Payloads) /\ tag \in Tags /\ w \in Emitters
    BY PayloadListsAssumption DEF WrapperTags, Tags, Emitters
  <2>3. TypeOK'
    <3>1. /\ pc[w] = "idle" /\ handle' # None /\ heads' = heads /\ handle' = handle
          /\ table' = table /\ mutex' = mutex /\ pc' = [pc EXCEPT ![w] = "put"]
          /\ ended' = ended /\ closing' = closing /\ lives' = lives
          /\ faults' = faults /\ crashes' = crashes /\ emits' = emits + 1
      BY <1>5 DEF WrapperEmit, store, session
    <3>2. /\ handle' \in {Some(r) : r \in DOMAIN heads'} /\ DOMAIN heads' \subseteq Sessions
          /\ ended' \in BOOLEAN /\ closing' \in BOOLEAN
          /\ lives' \in [Sessions -> Nat] /\ emits' \in Nat
      BY <1>a, <3>1 DEF TypeOK
    <3> QED
      BY <2>1, <2>2, <3>1, <3>2, BeginShape
  <2>4. AloneAtEnds'
    <3>1. /\ job'[w].tag = tag /\ pc'[w] = "put" /\ w # Agent
          /\ \A v \in Emitters \ {w} : job'[v] = job[v] /\ pc'[v] = pc[v]
      <4>1. Job(tag, ps, as).tag = tag
        BY DEF Job
      <4>2. DOMAIN job = Emitters /\ DOMAIN pc = Emitters /\ pc' = [pc EXCEPT ![w] = "put"]
        BY <1>5, <1>a DEF WrapperEmit, TypeOK
      <4> QED BY <2>1, <2>2, <4>1, <4>2, AgentAssumption
    <3>2. /\ ~ended /\ ~closing /\ ended' = ended /\ closing' = closing
          /\ job[Agent].tag # "SessionStart"
      BY <1>5, Zenon DEF WrapperEmit, session
    <3> QED
      BY <1>a, <1>b, <2>2, <3>1, <3>2 DEF AloneAtEnds, Emitters
  <2> QED BY <2>3, <2>4 DEF Shape
<1>6. ASSUME NEW w \in Emitters, Put(w) PROVE Shape'
  <2>1. job[w].todo \in Seq(Payloads) /\ job[w].todo # <<>> /\ DOMAIN job[w] = JobFields
    BY <1>6, <1>a DEF Put, TypeOK
  <2>2. /\ DOMAIN job' = Emitters /\ \A v \in Emitters \ {w} : job'[v] = job[v]
        /\ DOMAIN job'[w] = JobFields /\ job'[w].tag = job[w].tag
        /\ job'[w].todo = Tail(job[w].todo) /\ job'[w].len = job[w].len
    BY <1>6, <1>a, <2>1 DEF Put, TypeOK, JobFields
  <2>3. job'[w].todo \in Seq(Payloads) /\ job'[w].len \in Nat
    BY <2>1, <2>2, <1>a DEF TypeOK
  <2>4. pc' = [pc EXCEPT ![w] = "put"] /\ mutex # Some(w)
    BY <1>6, <1>a DEF Put, TypeOK
  <2> QED
    BY <1>6, <1>a, <2>2, <2>3, <2>4, ContinueShape DEF Put, TypeOK, bounds, Shape
<1>7. ASSUME NEW w \in Emitters, PutFails(w) PROVE Shape'
  <2>1. CASE Return(w, FALSE)
    <3>1. /\ Return(w, FALSE) /\ pc[w] = "put" /\ mutex' = mutex
          /\ heads' = heads /\ table' = table
          /\ lives' = lives /\ emits' = emits /\ crashes' = crashes /\ faults' = faults + 1
      BY <1>7, <2>1 DEF PutFails, store
    <3>2. mutex # Some(w) /\ faults' \in Nat
      BY <1>a, <3>1 DEF TypeOK
    <3>3. DOMAIN table' = Sessions /\ \A s \in Sessions : DOMAIN table'[s] \subseteq Nat /\ IsFiniteSet(DOMAIN table'[s])
      BY <1>a, <3>1 DEF TypeOK
    <3> QED
      BY <3>1, <3>2, <3>3, ReturnShape
  <2>2. CASE /\ UNCHANGED <<pc, session>>
             /\ \E ref \in Degraded(job[w].tag) :
                  job' = [job EXCEPT ![w].todo = Tail(@), ![w].refs = @ \o ref]
    <3>1. job[w].todo \in Seq(Payloads) /\ job[w].todo # <<>> /\ DOMAIN job[w] = JobFields
      BY <1>7, <1>a DEF PutFails, TypeOK
    <3>2. /\ DOMAIN job' = Emitters /\ \A v \in Emitters \ {w} : job'[v] = job[v]
          /\ DOMAIN job'[w] = JobFields /\ job'[w].tag = job[w].tag
          /\ job'[w].todo = Tail(job[w].todo) /\ job'[w].len = job[w].len
      <4>1. PICK ref \in Degraded(job[w].tag) :
               job' = [job EXCEPT ![w].todo = Tail(@), ![w].refs = @ \o ref]
        BY <2>2
      <4>2. DOMAIN job = Emitters
        BY <1>a DEF TypeOK
      <4>3. /\ job'[w] = [job[w] EXCEPT !.todo = Tail(@), !.refs = @ \o ref]
            /\ DOMAIN job' = Emitters /\ \A v \in Emitters \ {w} : job'[v] = job[v]
        BY <4>1, <4>2
      <4> QED BY <3>1, <4>3 DEF JobFields
    <3>3. job'[w].todo \in Seq(Payloads) /\ job'[w].len \in Nat
      BY <3>1, <3>2, <1>a DEF TypeOK
    <3>4. pc' = [pc EXCEPT ![w] = "put"] /\ mutex # Some(w)
      BY <1>7, <1>a, <2>2 DEF PutFails, TypeOK
    <3> QED
      <4>1. /\ pc[w] # "idle" /\ heads' = heads /\ table' = table /\ UNCHANGED session
            /\ mutex' = mutex /\ lives' = lives /\ emits' = emits /\ crashes' = crashes
        BY <1>7, <2>2 DEF PutFails, store
      <4>2. faults' \in Nat
        BY <1>7, <1>a DEF PutFails, TypeOK
      <4> QED
        BY <3>2, <3>3, <3>4, <4>1, <4>2, ContinueShape
  <2> QED BY <1>7, <2>1, <2>2 DEF PutFails
<1>8. ASSUME NEW w \in Emitters, Lock(w) PROVE Shape'
  BY <1>8, <1>a, ContinueShape DEF Lock, TypeOK, Shape, store, bounds
<1>9. ASSUME NEW w \in Emitters, ReadHead(w) PROVE Shape'
  <2>1. /\ DOMAIN job' = Emitters /\ \A v \in Emitters \ {w} : job'[v] = job[v]
        /\ DOMAIN job'[w] = JobFields /\ job'[w].tag = job[w].tag
        /\ job'[w].todo = job[w].todo /\ job'[w].len = job[w].len
    BY <1>9, <1>a DEF ReadHead, TypeOK, JobFields
  <2> QED
    BY <1>9, <1>a, <2>1, ContinueShape DEF ReadHead, TypeOK, Shape, store, bounds
<1>10. ASSUME NEW w \in Emitters, ReadLen(w) PROVE Shape'
  <2>1. PICK s \in DOMAIN heads : handle = Some(s)
    BY <1>10, <1>a DEF ReadLen, TypeOK, Quiet
  <2>2. history_len(handle[1]) \in Nat
    BY <1>a, <2>1, HistoryLenType, SomeInjective DEF TypeOK
  <2>3. /\ DOMAIN job' = Emitters /\ \A v \in Emitters \ {w} : job'[v] = job[v]
        /\ DOMAIN job'[w] = JobFields /\ job'[w].tag = job[w].tag
        /\ job'[w].todo = job[w].todo /\ job'[w].len = history_len(handle[1])
    BY <1>10, <1>a DEF ReadLen, TypeOK, JobFields
  <2> QED
    BY <1>10, <1>a, <2>2, <2>3, ContinueShape DEF ReadLen, TypeOK, Shape, store, bounds
<1>11. ASSUME NEW w \in Emitters, Commit(w) PROVE Shape'
  <2>1. PICK s \in DOMAIN heads : handle = Some(s)
    BY <1>11, <1>a DEF Commit, TypeOK, Quiet
  <2>2. handle[1] = s /\ s \in Sessions
    BY <2>1, <1>a, SomeInjective DEF TypeOK
  <2>3. PICK e : /\ table' = [table EXCEPT ![s] = Insert(@, job[w].len, e)]
                 /\ heads' = Insert(heads, s, Some(e.hash))
    BY <1>11, <2>2 DEF Commit
  <2>4. DOMAIN heads' = DOMAIN heads
    BY <2>1, <2>3 DEF Insert
  <2>5. DOMAIN table' = Sessions
    BY <1>a, <2>3 DEF TypeOK
  <2>6. ASSUME NEW r \in Sessions
        PROVE  DOMAIN table'[r] \subseteq Nat /\ IsFiniteSet(DOMAIN table'[r])
    <3>1. CASE r = s
      <4>1. DOMAIN table'[r] = DOMAIN table[r] \cup {job[w].len}
        BY <1>a, <2>3, <3>1, InsertDomain DEF TypeOK
      <4>2. IsFiniteSet(DOMAIN table[r]) /\ DOMAIN table[r] \subseteq Nat /\ job[w].len \in Nat
        BY <1>a DEF TypeOK
      <4>3. IsFiniteSet(DOMAIN table[r] \cup {job[w].len})
        BY <4>2, FS_AddElement
      <4> QED BY <4>1, <4>2, <4>3
    <3>2. CASE r # s
      BY <1>a, <2>3, <3>2 DEF TypeOK
    <3> QED BY <3>1, <3>2
  <2> QED
    BY <1>11, <1>a, <2>4, <2>5, <2>6, ReturnShape, SomeInjective
       DEF Commit, TypeOK, Shape, bounds
<1>12. ASSUME NEW w \in Emitters, Reject(w) PROVE Shape'
  BY <1>12, <1>a, ReturnShape, SomeInjective DEF Reject, TypeOK, Shape, store, bounds
<1>13. ASSUME NEW w \in Emitters, AppendFails(w) PROVE Shape'
  <2>1. /\ Return(w, FALSE) /\ pc[w] \in {"head", "len", "commit"} /\ mutex' = None
        /\ heads' = heads /\ table' = table
        /\ lives' = lives /\ emits' = emits /\ crashes' = crashes /\ faults' = faults + 1
    BY <1>13 DEF AppendFails, store
  <2>2. mutex = Some(w) /\ faults' \in Nat
    BY <1>a, <2>1 DEF TypeOK
  <2>3. DOMAIN table' = Sessions /\ \A s \in Sessions : DOMAIN table'[s] \subseteq Nat /\ IsFiniteSet(DOMAIN table'[s])
    BY <1>a, <2>1 DEF TypeOK
  <2> QED
    BY <2>1, <2>2, <2>3, ReturnShape
<1>14. ASSUME EmitSessionEnd, handle # None, Quiet, closing' \in BOOLEAN PROVE Shape'
  <2>1. TypeOK'
    <3>1. /\ pc[Agent] = "idle" /\ handle' # None /\ heads' = heads /\ handle' = handle
          /\ table' = table /\ mutex' = mutex /\ pc' = [pc EXCEPT ![Agent] = "put"]
          /\ job' = [job EXCEPT ![Agent] = Job("SessionEnd", <<>>, <<>>)]
          /\ ended' = TRUE /\ closing' \in BOOLEAN /\ lives' = lives
          /\ faults' = faults /\ crashes' = crashes /\ emits' = emits
      BY <1>14, <1>b DEF EmitSessionEnd, store, bounds, Quiet
    <3>2. /\ handle' \in {Some(r) : r \in DOMAIN heads'} /\ DOMAIN heads' \subseteq Sessions
          /\ ended' \in BOOLEAN
          /\ lives' \in [Sessions -> Nat] /\ emits' \in Nat
      BY <1>a, <3>1 DEF TypeOK
    <3> QED
      BY <1>b, <1>c, <3>1, <3>2, BeginShape
  <2>2. AloneAtEnds'
    <3>1. /\ job'[Agent].tag = "SessionEnd" /\ pc'[Agent] = "put" /\ ended' = TRUE
          /\ \A v \in Emitters \ {Agent} : job'[v] = job[v] /\ pc'[v] = "idle"
      <4>1. Job("SessionEnd", <<>>, <<>>).tag = "SessionEnd"
        BY DEF Job
      <4>2. /\ DOMAIN job = Emitters /\ DOMAIN pc = Emitters
            /\ pc' = [pc EXCEPT ![Agent] = "put"]
            /\ job' = [job EXCEPT ![Agent] = Job("SessionEnd", <<>>, <<>>)]
        BY <1>14, <1>a DEF EmitSessionEnd, TypeOK
      <4>3. ended' = TRUE
        BY <1>14 DEF EmitSessionEnd
      <4>4. \A v \in Emitters : pc[v] = "idle"
        BY <1>14 DEF Quiet
      <4> QED BY <1>b, <4>1, <4>2, <4>3, <4>4
    <3> QED
      BY <1>14, <1>a, <1>b, <3>1, AgentAssumption DEF AloneAtEnds, Emitters, Quiet
  <2> QED BY <2>1, <2>2 DEF Shape
<1>15. CASE End
  BY <1>14, <1>15, <1>a DEF End, TypeOK
<1>16. CASE Drop
  <2>1. CASE ended
    BY <1>16, <1>a, <2>1 DEF Drop, Shape, TypeOK, AloneAtEnds, Quiet, store, bounds
  <2>2. CASE ~ended
    BY <1>14, <1>16, <2>2 DEF Drop
  <2> QED BY <2>1, <2>2
<1>17. CASE Crash
  <2>1. /\ handle' = None /\ ended' = FALSE /\ closing' = FALSE /\ mutex' = None
        /\ UNCHANGED <<heads, table, lives, emits, faults>> /\ crashes' = crashes + 1
        /\ DOMAIN job' = Emitters
        /\ pc' \in [Emitters -> Pcs]
        /\ \A v \in Emitters : pc'[v] = "idle" /\ job'[v] = NoJob
    BY <1>17 DEF Crash, store, Pcs
  <2>2. \A v \in Emitters : mutex' # Some(v)
    BY <2>1, SomeInjective
  <2>3. TypeOK'
    <3>1. ended' \in BOOLEAN /\ closing' \in BOOLEAN
      BY <2>1, Zenon
    <3>2. \A v \in Emitters : ~(pc'[v] \in {"head", "len", "commit"})
      BY <2>1
    <3>3. crashes' \in Nat
      BY <1>a, <2>1 DEF TypeOK
    <3> QED
      BY <1>a, <2>1, <2>2, <3>1, <3>2, <3>3, NoJobShape DEF TypeOK, Quiet
  <2>4. AloneAtEnds'
    BY <1>b, <2>1 DEF AloneAtEnds, Emitters
  <2> QED BY <2>3, <2>4 DEF Shape
<1> QED
  BY <1>1, <1>2, <1>3, <1>4, <1>5, <1>6, <1>7, <1>8, <1>9, <1>10, <1>11, <1>12,
     <1>13, <1>15, <1>16, <1>17 DEF Next, Step

\* Type correctness: in every reachable state the tables, the handle, the mutex
\* and the emissions in flight have the shape TypeOK describes.
THEOREM TypeCorrect == Spec => []TypeOK
<1>1. Init => Shape
  BY InitShape
<1>2. Shape /\ [Next]_vars => Shape'
  BY NextShape
<1>3. Shape => TypeOK
  BY DEF Shape
<1> QED
  BY <1>1, <1>2, <1>3, PTL DEF Spec

(***************************************************************************)
(* The chain.  It is inductive only together with ReadsCurrent: the commit *)
(* writes the head and the sequence that the emitter read before.          *)
(***************************************************************************)
\* The event built from a linked table's head and length extends the chain.
LEMMA LinkedExtend ==
  ASSUME NEW t, NEW head, NEW kind, NEW now, IsFiniteSet(DOMAIN t),
         LinkedTable(t, head), (head = None) <=> (kind.tag = "SessionStart")
  PROVE  LET n == Cardinality(DOMAIN t)
             e == StoredEvent(Event(head, kind, now, n))
         IN LinkedTable(Insert(t, n, e), Some(e.hash))
<1> DEFINE n == Cardinality(DOMAIN t)
           e == StoredEvent(Event(head, kind, now, n))
           u == Insert(t, n, e)
<1>1. n \in Nat
  BY FS_CardinalityType
<1>2. DOMAIN t = 0..(n-1)
  BY DEF LinkedTable
<1>3. DOMAIN u = 0..n
  BY <1>1, <1>2 DEF Insert
<1>4. Cardinality(DOMAIN u) = n + 1
  BY <1>1, <1>3, FS_Interval
<1>5. u[n] = e /\ \A q \in 0..(n-1) : u[q] = t[q]
  BY <1>1, <1>2 DEF Insert
<1>6. /\ e.hash = content_hash(e.event) /\ e.event.sequence = n
      /\ e.event.parents = head /\ e.event.kind = kind
  BY DEF StoredEvent, Event
<1>7. head = IF n = 0 THEN None ELSE Some(t[n-1].hash)
  BY DEF LinkedTable
<1>8. (head = None) <=> (n = 0)
  BY <1>7, SomeInjective
<1> HIDE DEF n, e, u
<1>9. ASSUME NEW q \in 0..n
      PROVE  /\ u[q].hash = content_hash(u[q].event)
             /\ u[q].event.sequence = q
             /\ u[q].event.parents = IF q = 0 THEN None ELSE Some(u[q-1].hash)
             /\ (u[q].event.kind.tag = "SessionStart") <=> (q = 0)
  <2>1. CASE q = n
    <3>1. n # 0 => n-1 \in 0..(n-1)
      BY <1>1
    <3> QED BY <1>1, <1>5, <1>6, <1>7, <1>8, <2>1, <3>1
  <2>2. CASE q # n
    <3>1. q \in 0..(n-1) /\ (q # 0 => q-1 \in 0..(n-1))
      BY <1>1, <2>2
    <3>2. /\ t[q].hash = content_hash(t[q].event)
          /\ t[q].event.sequence = q
          /\ t[q].event.parents = IF q = 0 THEN None ELSE Some(t[q-1].hash)
          /\ (t[q].event.kind.tag = "SessionStart") <=> (q = 0)
      BY <3>1 DEF LinkedTable, n
    <3> QED BY <1>5, <3>1, <3>2
  <2> QED BY <2>1, <2>2
<1>10. LinkedTable(u, Some(e.hash))
  <2>1. n + 1 # 0 /\ (n + 1) - 1 = n
    BY <1>1
  <2>2. DOMAIN u = 0..((n+1) - 1) /\ Some(e.hash) = Some(u[(n+1)-1].hash)
    BY <1>3, <1>5, <2>1
  <2> QED BY <1>4, <1>9, <2>1, <2>2 DEF LinkedTable
<1> QED
  BY <1>10 DEF n, e, u

LEMMA LinkedEmpty == LinkedTable(<<>>, None)
<1>1. DOMAIN <<>> = {} /\ Cardinality({}) = 0
  BY FS_EmptySet
<1> QED
  BY <1>1 DEF LinkedTable

\* Steps that write neither table keep the chain.
LEMMA ChainFrame ==
  ASSUME ChainLinked, heads' = heads, table' = table
  PROVE  ChainLinked'
BY DEF ChainLinked

\* Steps after which every emitter inside append was there before, with the
\* same copies and the same tables, keep ReadsCurrent.
LEMMA ReadsFrame ==
  ASSUME ReadsCurrent, heads' = heads, table' = table,
         \A v \in Emitters : pc'[v] \in {"len", "commit"} =>
            /\ pc'[v] = pc[v] /\ handle' = handle
            /\ job'[v].head = job[v].head /\ job'[v].len = job[v].len
  PROVE  ReadsCurrent'
BY DEF ReadsCurrent, history_len

\* Only the holder of the mutex is inside append.
LEMMA OnlyHolder ==
  ASSUME TypeOK, NEW w \in Emitters, mutex \in {None, Some(w)}
  PROVE  \A v \in Emitters \ {w} : pc[v] \notin {"head", "len", "commit"}
BY SomeInjective DEF TypeOK

\* Every step keeps the chain and the reads of the emitter inside append.
LEMMA NextChain ==
  Shape /\ ChainLinked /\ ReadsCurrent /\ [Next]_vars => ChainLinked' /\ ReadsCurrent'
<1> SUFFICES ASSUME Shape, ChainLinked, ReadsCurrent, [Next]_vars
             PROVE  ChainLinked' /\ ReadsCurrent'
  OBVIOUS
<1>a. TypeOK /\ DOMAIN job = Emitters /\ DOMAIN pc = Emitters /\ Agent \in Emitters
  BY DEF Shape, TypeOK, Emitters
<1>b. \A w \in Emitters : DOMAIN job[w] = JobFields
  BY <1>a DEF TypeOK
<1>1. CASE UNCHANGED vars
  BY <1>1, ChainFrame, ReadsFrame DEF vars
<1>2. ASSUME NEW s \in Sessions, OpenNew(s) PROVE ChainLinked' /\ ReadsCurrent'
  <2>1. /\ s \notin DOMAIN heads /\ heads' = Insert(heads, s, None) /\ table' = table
        /\ pc' = [pc EXCEPT ![Agent] = "put"] /\ Quiet
    BY <1>2, <1>a DEF OpenNew, TypeOK
  <2>2. /\ DOMAIN heads' = DOMAIN heads \cup {s} /\ heads'[s] = None
        /\ \A r \in DOMAIN heads : heads'[r] = heads[r]
    BY <2>1 DEF Insert
  <2>3. ChainLinked'
    BY <2>1, <2>2, LinkedEmpty DEF ChainLinked
  <2>4. \A v \in Emitters : pc'[v] \notin {"len", "commit"}
    BY <1>a, <2>1 DEF Quiet
  <2> QED BY <2>3, <2>4 DEF ReadsCurrent
<1>3. ASSUME NEW s \in Sessions, Resume(s) PROVE ChainLinked' /\ ReadsCurrent'
  <2>1. heads' = heads /\ table' = table /\ pc' = pc /\ Quiet
    BY <1>3, <1>a DEF Resume, TypeOK, store
  <2> QED BY <2>1, ChainFrame DEF ReadsCurrent, Quiet
<1>4. ASSUME NEW w \in Emitters, NEW j, heads' = heads, table' = table, handle' = handle,
             pc' = [pc EXCEPT ![w] = "put"], job' = [job EXCEPT ![w] = j]
      PROVE  ChainLinked' /\ ReadsCurrent'
  BY <1>4, <1>a, ChainFrame, ReadsFrame
<1>5. CASE AgentEmit
  BY <1>4, <1>5, <1>a DEF AgentEmit, store, session
<1>6. ASSUME NEW w \in Wrappers, WrapperEmit(w) PROVE ChainLinked' /\ ReadsCurrent'
  BY <1>4, <1>6 DEF WrapperEmit, store, session, Emitters
<1>7. ASSUME NEW w \in Emitters, Put(w) PROVE ChainLinked' /\ ReadsCurrent'
  <2>1. /\ heads' = heads /\ table' = table /\ handle' = handle /\ pc' = pc /\ pc[w] = "put"
        /\ \A v \in Emitters \ {w} : job'[v] = job[v]
    BY <1>7, <1>a DEF Put, session
  <2> QED BY <2>1, ChainFrame, ReadsFrame
<1>8. ASSUME NEW w \in Emitters, NEW ok, Return(w, ok), heads' = heads, table' = table,
             mutex \in {None, Some(w)}
      PROVE  ChainLinked' /\ ReadsCurrent'
  <2>1. \A v \in Emitters : pc'[v] \notin {"len", "commit"}
    BY <1>8, <1>a, OnlyHolder DEF Return
  <2> QED BY <1>8, <2>1, ChainFrame, ReadsFrame
<1>9. ASSUME NEW w \in Emitters, PutFails(w) PROVE ChainLinked' /\ ReadsCurrent'
  <2>1. CASE Return(w, FALSE)
    <3>1. /\ Return(w, FALSE) /\ heads' = heads /\ table' = table /\ pc[w] = "put"
      BY <1>9, <2>1 DEF PutFails, store
    <3>2. \A v \in Emitters : pc'[v] \in {"len", "commit"} =>
             pc'[v] = pc[v] /\ job'[v] = job[v] /\ v # w
      BY <3>1, <1>a DEF Return
    <3>3. \A v \in Emitters : pc'[v] \in {"len", "commit"} => handle' = handle
      <4>1. CASE w = Agent
        BY <3>1, <3>2, <4>1, AgentAssumption DEF Return, Shape, AloneAtEnds, Emitters
      <4>2. CASE w # Agent
        BY <3>1, <4>2, <1>a DEF Return, Shape, AloneAtEnds, Emitters, WrapperTags
      <4> QED BY <4>1, <4>2
    <3> QED BY <3>1, <3>2, <3>3, ChainFrame, ReadsFrame
  <2>2. CASE /\ UNCHANGED <<pc, session>>
             /\ \E ref \in Degraded(job[w].tag) :
                  job' = [job EXCEPT ![w].todo = Tail(@), ![w].refs = @ \o ref]
    <3>1. /\ heads' = heads /\ table' = table /\ handle' = handle /\ pc' = pc /\ pc[w] = "put"
          /\ \A v \in Emitters \ {w} : job'[v] = job[v]
      BY <1>9, <2>2, <1>a DEF PutFails, store, session
    <3> QED BY <3>1, ChainFrame, ReadsFrame
  <2> QED BY <1>9, <2>1, <2>2 DEF PutFails
<1>10. ASSUME NEW w \in Emitters, Lock(w) PROVE ChainLinked' /\ ReadsCurrent'
  <2>1. /\ heads' = heads /\ table' = table /\ handle' = handle /\ job' = job
        /\ pc' = [pc EXCEPT ![w] = "head"]
    BY <1>10 DEF Lock, store, session
  <2> QED BY <1>a, <2>1, ChainFrame, ReadsFrame
<1>11. ASSUME NEW w \in Emitters, ReadHead(w) PROVE ChainLinked' /\ ReadsCurrent'
  <2>1. /\ heads' = heads /\ table' = table /\ handle' = handle
        /\ pc' = [pc EXCEPT ![w] = "len"] /\ job'[w].head = heads[handle[1]]
        /\ mutex = Some(w)
    BY <1>11, <1>a, <1>b DEF ReadHead, store, session, JobFields, TypeOK
  <2>2. \A v \in Emitters \ {w} : pc'[v] \notin {"len", "commit"}
    BY <1>a, <2>1, OnlyHolder
  <2>3. pc'[w] = "len"
    BY <1>a, <2>1
  <2> QED BY <2>1, <2>2, <2>3, ChainFrame DEF ReadsCurrent
<1>12. ASSUME NEW w \in Emitters, ReadLen(w) PROVE ChainLinked' /\ ReadsCurrent'
  <2>1. /\ heads' = heads /\ table' = table /\ handle' = handle /\ pc[w] = "len"
        /\ pc' = [pc EXCEPT ![w] = "commit"] /\ job'[w].head = job[w].head
        /\ job'[w].len = history_len(handle[1]) /\ mutex = Some(w)
    BY <1>12, <1>a, <1>b DEF ReadLen, store, session, JobFields, TypeOK
  <2>2. \A v \in Emitters \ {w} : pc'[v] \notin {"len", "commit"}
    BY <1>a, <2>1, OnlyHolder
  <2>3. history_len(handle[1])' = history_len(handle[1])
    BY <2>1 DEF history_len
  <2> QED BY <2>1, <2>2, <2>3, ChainFrame DEF ReadsCurrent
<1>13. ASSUME NEW w \in Emitters, Commit(w) PROVE ChainLinked' /\ ReadsCurrent'
  <2>1. PICK s \in DOMAIN heads : handle = Some(s)
    BY <1>13, <1>a DEF Commit, TypeOK, Quiet
  <2>2. handle[1] = s /\ s \in Sessions /\ mutex = Some(w)
    BY <1>13, <2>1, <1>a, SomeInjective DEF TypeOK, Commit
  <2> DEFINE kind == KindOf(job[w])
             E(now) == StoredEvent(Event(job[w].head, kind, now, job[w].len))
  <2>3. PICK now \in Clock :
          /\ table' = [table EXCEPT ![s] = Insert(@, job[w].len, E(now))]
          /\ heads' = Insert(heads, s, Some(E(now).hash))
    BY <1>13, <2>2 DEF Commit
  <2>4. job[w].head = heads[s] /\ job[w].len = Cardinality(DOMAIN table[s])
    BY <1>13, <2>2 DEF ReadsCurrent, Commit, history_len
  <2>5. (job[w].head = None) <=> (kind.tag = "SessionStart")
    BY <1>13 DEF Commit, Accepted, KindOf, EventKind
  <2>6. IsFiniteSet(DOMAIN table[s]) /\ LinkedTable(table[s], heads[s])
    BY <1>a, <2>1, <2>2 DEF TypeOK, ChainLinked
  <2> HIDE DEF kind
  <2>7. LinkedTable(Insert(table[s], job[w].len, E(now)), Some(E(now).hash))
    BY <2>4, <2>5, <2>6, LinkedExtend
  <2>8. DOMAIN table = Sessions
    BY <1>a DEF TypeOK
  <2> HIDE DEF E
  <2>9. /\ table'[s] = Insert(table[s], job[w].len, E(now))
        /\ \A r \in Sessions \ {s} : table'[r] = table[r]
    BY <2>2, <2>3, <2>8
  <2>10. /\ DOMAIN heads' = DOMAIN heads /\ heads'[s] = Some(E(now).hash)
         /\ \A r \in DOMAIN heads \ {s} : heads'[r] = heads[r]
    BY <2>1, <2>3 DEF Insert
  <2>11. ChainLinked'
    <3> SUFFICES ASSUME NEW r \in Sessions
                 PROVE  IF r \in DOMAIN heads' THEN LinkedTable(table'[r], heads'[r])
                        ELSE table'[r] = <<>>
      BY DEF ChainLinked
    <3>1. CASE r = s
      BY <2>1, <2>7, <2>9, <2>10, <3>1
    <3>2. CASE r # s
      BY <2>9, <2>10, <3>2 DEF ChainLinked
    <3> QED BY <3>1, <3>2
  <2>12. \A v \in Emitters : pc'[v] \notin {"len", "commit"}
    BY <1>13, <1>a, <2>2, OnlyHolder DEF Commit, Return
  <2> QED BY <2>11, <2>12 DEF ReadsCurrent
<1>14. ASSUME NEW w \in Emitters, Reject(w) PROVE ChainLinked' /\ ReadsCurrent'
  <2>1. mutex = Some(w) /\ Return(w, FALSE) /\ heads' = heads /\ table' = table
    BY <1>14, <1>a DEF Reject, TypeOK, store
  <2> QED BY <2>1, <1>8
<1>15. ASSUME NEW w \in Emitters, AppendFails(w) PROVE ChainLinked' /\ ReadsCurrent'
  <2>1. mutex = Some(w) /\ Return(w, FALSE) /\ heads' = heads /\ table' = table
    BY <1>15, <1>a DEF AppendFails, TypeOK, store
  <2> QED BY <2>1, <1>8
<1>16. CASE End
  BY <1>4, <1>16, <1>a DEF End, EmitSessionEnd, store
<1>17. CASE Drop
  <2>1. CASE ended
    <3>1. heads' = heads /\ table' = table /\ pc' = pc /\ Quiet
      BY <1>17, <2>1 DEF Drop, store
    <3> QED BY <3>1, ChainFrame DEF ReadsCurrent, Quiet
  <2>2. CASE ~ended
    BY <1>4, <1>17, <1>a, <2>2 DEF Drop, EmitSessionEnd, store
  <2> QED BY <2>1, <2>2
<1>18. CASE Crash
  BY <1>18, ChainFrame DEF Crash, store, ReadsCurrent
<1> QED
  BY <1>1, <1>2, <1>3, <1>5, <1>6, <1>7, <1>9, <1>10, <1>11, <1>12, <1>13, <1>14,
     <1>15, <1>16, <1>17, <1>18 DEF Next, Step

\* The inductive invariant holds in every reachable state.
THEOREM Inductive == Spec => []IndInv
<1>1. Init => IndInv
  <2>1. ASSUME Init PROVE ChainLinked /\ ReadsCurrent
    BY <2>1 DEF Init, ChainLinked, ReadsCurrent
  <2> QED BY <2>1, InitShape DEF IndInv, Shape
<1>2. IndInv /\ [Next]_vars => IndInv'
  BY NextShape, NextChain DEF IndInv, Shape
<1> QED
  BY <1>1, <1>2, PTL DEF Spec

\* The journal is a hash-linked chain with the head row at its end, for any
\* number of emitters, whatever fails and whenever the process dies.
THEOREM ChainAlwaysLinked == Spec => []ChainLinked
<1>1. IndInv => ChainLinked
  BY DEF IndInv
<1> QED
  BY <1>1, Inductive, PTL

(***************************************************************************)
(* What a commit does, and that nothing else writes events.                *)
(***************************************************************************)
LEMMA CommitEffect ==
  ASSUME IndInv, NEW w \in Emitters, Commit(w)
  PROVE  \E s, e :
           /\ s \in Sessions
           /\ handle = Some(s) /\ s \in DOMAIN heads
           /\ e.event.kind = KindOf(job[w])
           /\ table'[s] = Insert(table[s], history_len(s), e)
           /\ \A r \in Sessions \ {s} : table'[r] = table[r]
           /\ acked' = [acked EXCEPT ![s] = @ \cup {e.hash}]
           /\ history_len(s) \in Nat /\ DOMAIN table[s] = 0..(history_len(s) - 1)
<1>1. TypeOK /\ ChainLinked /\ ReadsCurrent
  BY DEF IndInv
<1>2. PICK s \in DOMAIN heads : handle = Some(s)
  BY <1>1 DEF Commit, TypeOK, Quiet
<1>3. handle[1] = s /\ s \in Sessions
  BY <1>1, <1>2, SomeInjective DEF TypeOK
<1>4. PICK e : /\ table' = [table EXCEPT ![s] = Insert(@, job[w].len, e)]
               /\ acked' = [acked EXCEPT ![s] = @ \cup {e.hash}]
               /\ e.event.kind = KindOf(job[w])
  <2>1. PICK now \in Clock :
          LET e == StoredEvent(Event(job[w].head, KindOf(job[w]), now, job[w].len))
          IN /\ table' = [table EXCEPT ![s] = Insert(@, job[w].len, e)]
             /\ acked' = [acked EXCEPT ![s] = @ \cup {e.hash}]
    BY <1>3 DEF Commit
  <2>2. StoredEvent(Event(job[w].head, KindOf(job[w]), now, job[w].len)).event.kind
          = KindOf(job[w])
    BY DEF StoredEvent, Event
  <2> QED BY <2>1, <2>2
<1>5. job[w].len = history_len(s)
  BY <1>1, <1>3 DEF ReadsCurrent, Commit
<1>6. history_len(s) \in Nat
  BY <1>1, <1>3, HistoryLenType
<1>7. DOMAIN table[s] = 0..(history_len(s) - 1)
  BY <1>1, <1>2, <1>3 DEF ChainLinked, LinkedTable, history_len
<1>8. DOMAIN table = Sessions
  BY <1>1 DEF TypeOK
<1>9. /\ table'[s] = Insert(table[s], history_len(s), e)
      /\ \A r \in Sessions \ {s} : table'[r] = table[r]
  BY <1>3, <1>4, <1>5, <1>8
<1> QED
  BY <1>2, <1>3, <1>4, <1>6, <1>7, <1>9

LEMMA OnlyCommitWrites ==
  ASSUME [Next]_vars, \A w \in Emitters : ~Commit(w)
  PROVE  table' = table /\ acked' = acked
<1>1. ASSUME NEW w \in Emitters, Step(w) \/ PutFails(w) \/ AppendFails(w)
      PROVE  table' = table /\ acked' = acked
  BY <1>1 DEF Step, Put, PutFails, Lock, ReadHead, ReadLen, Reject, AppendFails, store
<1>2. CASE AgentEmit \/ End \/ Drop \/ Crash
  BY <1>2 DEF AgentEmit, End, Drop, Crash, EmitSessionEnd, store
<1>3. ASSUME NEW w \in Wrappers, WrapperEmit(w) PROVE table' = table /\ acked' = acked
  BY <1>3 DEF WrapperEmit, store
<1>4. ASSUME NEW s \in Sessions, OpenNew(s) \/ Resume(s) PROVE table' = table /\ acked' = acked
  BY <1>4 DEF OpenNew, Resume, store
<1>5. CASE UNCHANGED vars
  BY <1>5 DEF vars
<1> QED
  BY <1>1, <1>2, <1>3, <1>4, <1>5 DEF Next

\* No step ever changes or removes an event: an append goes behind the last
\* event of one session and leaves every other session alone.
THEOREM JournalAppendOnly == Spec => AppendOnly
<1> DEFINE A == \A s \in Sessions :
       \/ table'[s] = table[s]
       \/ /\ DOMAIN table'[s] = DOMAIN table[s] \cup {history_len(s)}
          /\ history_len(s) \notin DOMAIN table[s]
          /\ \A q \in DOMAIN table[s] : table'[s][q] = table[s][q]
          /\ \A r \in Sessions \ {s} : table'[r] = table[r]
<1>1. IndInv /\ [Next]_vars => [A]_vars
  <2> SUFFICES ASSUME IndInv, [Next]_vars PROVE A
    OBVIOUS
  <2>1. CASE \A w \in Emitters : ~Commit(w)
    BY <2>1, OnlyCommitWrites
  <2>2. CASE \E w \in Emitters : Commit(w)
    <3>1. PICK s, e :
            /\ s \in Sessions
            /\ table'[s] = Insert(table[s], history_len(s), e)
            /\ \A r \in Sessions \ {s} : table'[r] = table[r]
            /\ history_len(s) \in Nat /\ DOMAIN table[s] = 0..(history_len(s) - 1)
      BY <2>2, CommitEffect
    <3>2. /\ DOMAIN table'[s] = DOMAIN table[s] \cup {history_len(s)}
          /\ history_len(s) \notin DOMAIN table[s]
          /\ \A q \in DOMAIN table[s] : table'[s][q] = table[s][q]
      BY <3>1 DEF Insert
    <3> QED BY <3>1, <3>2
  <2> QED BY <2>1, <2>2
<1> QED
  BY <1>1, Inductive, PTL DEF Spec, AppendOnly

Acked == AckedDurable /\ DOMAIN acked = Sessions

\* An append that returned Ok is never lost, whatever happens afterwards.
THEOREM AcknowledgedIsDurable == Spec => []AckedDurable
<1>1. Init => Acked
  BY DEF Init, Acked, AckedDurable
<1>2. IndInv /\ Acked /\ [Next]_vars => Acked'
  <2> SUFFICES ASSUME IndInv, Acked, [Next]_vars PROVE Acked'
    OBVIOUS
  <2>1. CASE \A w \in Emitters : ~Commit(w)
    BY <2>1, OnlyCommitWrites DEF Acked, AckedDurable
  <2>2. CASE \E w \in Emitters : Commit(w)
    <3>1. PICK s, e :
            /\ s \in Sessions
            /\ table'[s] = Insert(table[s], history_len(s), e)
            /\ \A r \in Sessions \ {s} : table'[r] = table[r]
            /\ acked' = [acked EXCEPT ![s] = @ \cup {e.hash}]
            /\ history_len(s) \in Nat /\ DOMAIN table[s] = 0..(history_len(s) - 1)
      BY <2>2, CommitEffect
    <3>2. /\ DOMAIN table'[s] = DOMAIN table[s] \cup {history_len(s)}
          /\ table'[s][history_len(s)] = e
          /\ \A q \in DOMAIN table[s] : table'[s][q] = table[s][q]
      BY <3>1 DEF Insert
    <3>3. DOMAIN acked' = Sessions /\ acked'[s] = acked[s] \cup {e.hash}
      BY <3>1 DEF Acked
    <3>4. \A r \in Sessions \ {s} : acked'[r] = acked[r]
      BY <3>1 DEF Acked
    <3>5. ASSUME NEW h \in acked'[s]
          PROVE  \E q \in DOMAIN table'[s] : h = table'[s][q].hash
      <4>1. CASE h = e.hash
        BY <3>2, <4>1
      <4>2. CASE h \in acked[s]
        <5>1. PICK q \in DOMAIN table[s] : h = table[s][q].hash
          BY <3>1, <4>2 DEF Acked, AckedDurable
        <5> QED BY <3>2, <5>1
      <4> QED BY <3>3, <4>1, <4>2
    <3>6. ASSUME NEW r \in Sessions
          PROVE  acked'[r] \subseteq {table'[r][q].hash : q \in DOMAIN table'[r]}
      <4>1. CASE r = s
        BY <3>5, <4>1
      <4>2. CASE r # s
        BY <3>1, <3>4, <4>2 DEF Acked, AckedDurable
      <4> QED BY <4>1, <4>2
    <3> QED BY <3>3, <3>6 DEF Acked, AckedDurable
  <2> QED BY <2>1, <2>2
<1>3. Acked => AckedDurable
  BY DEF Acked
<1> QED
  BY <1>1, <1>2, <1>3, Inductive, PTL DEF Spec

(***************************************************************************)
(* What verify finds in a writer's journal.                                *)
(***************************************************************************)
\* The hashes an event may refer to: those of stored objects and the sentinel.
Known == DOMAIN objects \cup {zero_hash}

\* Objects stand under their own hash; whoever refers to one has stored it first.
Referable ==
  /\ \A h \in DOMAIN objects : digest_bytes(objects[h]) = h
  /\ \A w \in Emitters : job[w].refs \in Seq(Known)
  /\ \A s \in Sessions : \A q \in DOMAIN table[s] : table[s][q].event.kind.refs \in Seq(Known)

LEMMA JobRefs ==
  /\ NoJob.refs = <<>>
  /\ \A tag, todo, attempts : Job(tag, todo, attempts).refs = <<>>
BY DEF NoJob, Job

\* A step that stores nothing: an emitter begins, goes on or returns.
LEMMA ReferableFrame ==
  ASSUME Referable, objects' = objects, table' = table,
         \A w \in Emitters : job'[w].refs = job[w].refs \/ job'[w].refs \in Seq(Known)
  PROVE  Referable'
<1>1. Known' = Known
  BY DEF Known
<1> QED BY <1>1 DEF Referable

LEMMA ReturnRefs ==
  ASSUME Referable, TypeOK, NEW w \in Emitters, NEW ok \in BOOLEAN, Return(w, ok)
  PROVE  \A v \in Emitters : job'[v].refs = job[v].refs \/ job'[v].refs \in Seq(Known)
<1>1. \A v \in Emitters : job'[v] = IF v = w THEN NoJob ELSE job[v]
  BY DEF Return, TypeOK
<1>2. <<>> \in Seq(Known)
  OBVIOUS
<1> QED BY <1>1, <1>2, JobRefs

LEMMA BeginRefs ==
  ASSUME TypeOK, NEW w \in Emitters, NEW j, j.refs = <<>>, job' = [job EXCEPT ![w] = j]
  PROVE  \A v \in Emitters : job'[v].refs = job[v].refs \/ job'[v].refs \in Seq(Known)
<1>1. \A v \in Emitters : job'[v] = IF v = w THEN j ELSE job[v]
  BY DEF TypeOK
<1>2. <<>> \in Seq(Known)
  OBVIOUS
<1> QED BY <1>1, <1>2

LEMMA PutRefs ==
  ASSUME Referable, TypeOK, NEW w \in Emitters, Put(w)
  PROVE  Referable'
<1> DEFINE bytes == Head(job[w].todo)
           h == digest_bytes(bytes)
<1>1. /\ DOMAIN objects' = DOMAIN objects \cup {h} /\ table' = table
      /\ \A x \in DOMAIN objects' : digest_bytes(objects'[x]) = x
  BY DEF Put, Insert, Referable
<1>2. Known' = Known \cup {h}
  BY <1>1 DEF Known
<1>3. DOMAIN job = Emitters /\ DOMAIN job[w] = JobFields /\ job[w].refs \in Seq(Known)
  BY DEF TypeOK, Referable
<1>4. job' = [job EXCEPT ![w].todo = Tail(@), ![w].refs = Append(@, h)]
  BY DEF Put
<1> HIDE DEF h
<1>5. job'[w].refs = Append(job[w].refs, h) /\ \A v \in Emitters \ {w} : job'[v] = job[v]
  BY <1>3, <1>4 DEF JobFields
<1>6. \A refs \in Seq(Known) : refs \in Seq(Known') /\ Append(refs, h) \in Seq(Known')
  BY <1>2
<1> QED BY <1>1, <1>3, <1>5, <1>6 DEF Referable

LEMMA DegradedRefs ==
  ASSUME Referable, TypeOK, NEW w \in Emitters,
         NEW ref \in Degraded(job[w].tag),
         job' = [job EXCEPT ![w].todo = Tail(@), ![w].refs = @ \o ref]
  PROVE  \A v \in Emitters : job'[v].refs = job[v].refs \/ job'[v].refs \in Seq(Known)
<1>1. DOMAIN job = Emitters /\ DOMAIN job[w] = JobFields /\ job[w].refs \in Seq(Known)
  BY DEF TypeOK, Referable
<1>2. ref \in Seq(Known)
  <2>1. zero_hash \in Known
    BY DEF Known
  <2>2. ref \in {<<>>, <<zero_hash>>}
    BY DEF Degraded
  <2>3. <<>> \in Seq(Known) /\ <<zero_hash>> \in Seq(Known)
    BY <2>1
  <2> QED BY <2>2, <2>3
<1>3. job'[w].refs = job[w].refs \o ref /\ \A v \in Emitters \ {w} : job'[v] = job[v]
  BY <1>1 DEF JobFields
<1>4. job[w].refs \o ref \in Seq(Known)
  BY <1>1, <1>2
<1> QED BY <1>3, <1>4

LEMMA CommitRefs ==
  ASSUME IndInv, Referable, NEW w \in Emitters, Commit(w)
  PROVE  Referable'
<1>1. PICK s, e :
        /\ s \in Sessions /\ e.event.kind = KindOf(job[w])
        /\ table'[s] = Insert(table[s], history_len(s), e)
        /\ \A r \in Sessions \ {s} : table'[r] = table[r]
  BY CommitEffect
<1>2. objects' = objects /\ Return(w, TRUE) /\ TypeOK
  BY DEF Commit, IndInv
<1>3. e.event.kind.refs = job[w].refs
  BY <1>1 DEF KindOf, EventKind
<1>4. \A q \in DOMAIN table'[s] : table'[s][q].event.kind.refs \in Seq(Known)
  BY <1>1, <1>3 DEF Insert, Referable
<1>5. Known' = Known
  BY <1>2 DEF Known
<1>6. \A v \in Emitters : job'[v].refs \in Seq(Known)
  BY <1>2, ReturnRefs DEF Referable
<1> QED BY <1>1, <1>2, <1>4, <1>5, <1>6 DEF Referable

LEMMA NextRefs == IndInv /\ Referable /\ [Next]_vars => Referable'
<1> SUFFICES ASSUME IndInv, Referable, [Next]_vars PROVE Referable'
  OBVIOUS
<1>a. TypeOK /\ Agent \in Emitters
  BY DEF IndInv, Emitters
<1> DEFINE Kept == \A w \in Emitters : job'[w].refs = job[w].refs \/ job'[w].refs \in Seq(Known)
<1>1. CASE UNCHANGED vars
  BY <1>1, ReferableFrame DEF vars
<1>2. ASSUME NEW s \in Sessions, OpenNew(s) PROVE Referable'
  <2>1. PICK ps : job' = [job EXCEPT ![Agent] = Job("SessionStart", ps, <<>>)]
    BY <1>2 DEF OpenNew
  <2>2. Kept
    <3>1. Job("SessionStart", ps, <<>>).refs = <<>>
      BY JobRefs
    <3> QED BY <1>a, <2>1, <3>1, BeginRefs, Zenon
  <2> QED BY <1>2, <2>2, ReferableFrame DEF OpenNew
<1>3. ASSUME NEW s \in Sessions, Resume(s) PROVE Referable'
  BY <1>3, ReferableFrame DEF Resume, store
<1>4. CASE AgentEmit
  <2>1. PICK tag, ps : job' = [job EXCEPT ![Agent] = Job(tag, ps, <<>>)]
    BY <1>4 DEF AgentEmit
  <2>2. Kept
    <3>1. Job(tag, ps, <<>>).refs = <<>>
      BY JobRefs
    <3> QED BY <1>a, <2>1, <3>1, BeginRefs, Zenon
  <2> QED BY <1>4, <2>2, ReferableFrame DEF AgentEmit, store
<1>5. ASSUME NEW w \in Wrappers, WrapperEmit(w) PROVE Referable'
  <2>1. PICK tag, ps, as : job' = [job EXCEPT ![w] = Job(tag, ps, as)]
    BY <1>5 DEF WrapperEmit
  <2>2. Kept
    <3>1. Job(tag, ps, as).refs = <<>> /\ w \in Emitters
      BY JobRefs DEF Emitters
    <3> QED BY <1>a, <2>1, <3>1, BeginRefs, Zenon
  <2> QED BY <1>5, <2>2, ReferableFrame DEF WrapperEmit, store
<1>6. ASSUME NEW w \in Emitters, Put(w) PROVE Referable'
  BY <1>6, <1>a, PutRefs
<1>7. ASSUME NEW w \in Emitters, NEW ok \in BOOLEAN, Return(w, ok), UNCHANGED store
      PROVE  Referable'
  BY <1>7, <1>a, ReturnRefs, ReferableFrame DEF store
<1>8. ASSUME NEW w \in Emitters, PutFails(w) PROVE Referable'
  <2>1. CASE Return(w, FALSE)
    BY <1>7, <1>8, <2>1 DEF PutFails
  <2>2. CASE \E ref \in Degraded(job[w].tag) :
               job' = [job EXCEPT ![w].todo = Tail(@), ![w].refs = @ \o ref]
    <3>1. Kept
      BY <1>a, <2>2, DegradedRefs
    <3> QED BY <1>8, <3>1, ReferableFrame DEF PutFails, store
  <2> QED BY <1>8, <2>1, <2>2 DEF PutFails
<1>9. ASSUME NEW w \in Emitters, Lock(w) PROVE Referable'
  BY <1>9, ReferableFrame DEF Lock, store
<1>10. ASSUME NEW w \in Emitters, ReadHead(w) \/ ReadLen(w) PROVE Referable'
  <2>1. DOMAIN job = Emitters /\ DOMAIN job[w] = JobFields
    BY <1>a DEF TypeOK
  <2>2. Kept
    BY <1>10, <2>1 DEF ReadHead, ReadLen, JobFields
  <2> QED BY <1>10, <2>2, ReferableFrame DEF ReadHead, ReadLen, store
<1>11. ASSUME NEW w \in Emitters, Commit(w) PROVE Referable'
  BY <1>11, CommitRefs
<1>12. ASSUME NEW w \in Emitters, Reject(w) \/ AppendFails(w) PROVE Referable'
  BY <1>7, <1>12 DEF Reject, AppendFails
<1>13. CASE End \/ Drop
  <2>1. CASE EmitSessionEnd
    <3>1. job' = [job EXCEPT ![Agent] = Job("SessionEnd", <<>>, <<>>)]
      BY <2>1 DEF EmitSessionEnd
    <3>2. Kept
      <4>1. Job("SessionEnd", <<>>, <<>>).refs = <<>>
        BY JobRefs
      <4> QED BY <1>a, <3>1, <4>1, BeginRefs, Zenon
    <3> QED BY <2>1, <3>2, ReferableFrame DEF EmitSessionEnd, store
  <2>2. CASE ~EmitSessionEnd
    BY <1>13, <2>2, ReferableFrame DEF End, Drop, store
  <2> QED BY <2>1, <2>2
<1>14. CASE Crash
  <2>1. Kept
    <3>1. <<>> \in Seq(Known)
      OBVIOUS
    <3> QED BY <1>14, <3>1, JobRefs DEF Crash
  <2> QED BY <1>14, <2>1, ReferableFrame DEF Crash, store
<1> QED
  BY <1>1, <1>2, <1>3, <1>4, <1>5, <1>6, <1>8, <1>9, <1>10, <1>11, <1>12, <1>13, <1>14
     DEF Next, Step

\* history(s) lists the events of a linked table in the order of their numbers.
LEMMA HistoryOfTable ==
  ASSUME NEW s, NEW n \in Nat, DOMAIN table[s] = 0..(n-1)
  PROVE  history_len(s) = n /\ history(s) = [i \in 1..n |-> table[s][i-1]]
<1>1. history_len(s) = n
  <2>1. Cardinality(0..(n-1)) = n
    BY FS_Interval
  <2> QED BY <2>1 DEF history_len
<1>2. ASSUME NEW i \in 1..n
      PROVE  (CHOOSE q \in DOMAIN table[s] :
                Cardinality({r \in DOMAIN table[s] : r < q}) = i - 1) = i - 1
  <2>1. ASSUME NEW q \in 0..(n-1) PROVE Cardinality({r \in 0..(n-1) : r < q}) = q
    <3>1. {r \in 0..(n-1) : r < q} = 0..(q-1)
      OBVIOUS
    <3>2. Cardinality(0..(q-1)) = q
      BY FS_Interval
    <3> QED BY <3>1, <3>2
  <2>2. i - 1 \in 0..(n-1)
    OBVIOUS
  <2> QED BY <2>1, <2>2
<1>3. history(s) = [i \in 1..n |-> table[s][CHOOSE q \in DOMAIN table[s] :
                       Cardinality({r \in DOMAIN table[s] : r < q}) = i - 1]]
  BY <1>1 DEF history
<1>4. \A i \in 1..n : table[s][CHOOSE q \in DOMAIN table[s] :
                       Cardinality({r \in DOMAIN table[s] : r < q}) = i - 1] = table[s][i-1]
  BY <1>2
<1> QED BY <1>1, <1>3, <1>4

\* What verify reports on a linked table whose references are known.
LEMMA ReportOnLinked ==
  ASSUME TypeOK, Referable, NEW s \in Sessions, LinkedTable(table[s], heads[s])
  PROVE  /\ missing_objects(history(s), objects) \subseteq {zero_hash}
         /\ object_hash_mismatches(history(s), objects) = {}
         /\ hash_mismatches(history(s)) = {}
         /\ broken_parent_links(history(s)) = {}
         /\ sequence_violations(history(s)) = {}
         /\ ~head_mismatch(history(s), heads[s])
<1> DEFINE n == Cardinality(DOMAIN table[s])
           t == table[s]
           h == history(s)
<1>1. n \in Nat /\ DOMAIN t = 0..(n-1)
  BY FS_CardinalityType DEF TypeOK, LinkedTable
<1>2. h = [i \in 1..n |-> t[i-1]]
  BY <1>1, HistoryOfTable
<1>3. /\ DOMAIN h = 1..n /\ Len(h) = n
      /\ \A i \in 1..n : h[i] = t[i-1] /\ i - 1 \in 0..(n-1)
  <2>1. DOMAIN h = 1..n /\ \A i \in 1..n : h[i] = t[i-1] /\ i - 1 \in 0..(n-1)
    BY <1>1, <1>2
  <2>2. h \in Seq({t[i-1] : i \in 1..n})
    <3> DEFINE S == {t[i-1] : i \in 1..n}
    <3>1. h \in [1..n -> S] /\ DOMAIN h = 1..n
      BY <1>2
    <3> HIDE DEF S, n, h
    <3>2. h \in Seq(S)
      BY <1>1, <3>1
    <3> QED BY <3>2 DEF S
  <2> QED BY <1>1, <2>1, <2>2
<1>4. \A q \in 0..(n-1) :
         /\ t[q].hash = content_hash(t[q].event)
         /\ t[q].event.sequence = q
         /\ t[q].event.parents = IF q = 0 THEN None ELSE Some(t[q-1].hash)
         /\ (t[q].event.kind.tag = "SessionStart") <=> (q = 0)
  BY DEF LinkedTable
<1>5. heads[s] = IF n = 0 THEN None ELSE Some(t[n-1].hash)
  BY DEF LinkedTable
<1>6. \A i \in 1..n : h[i].event.kind.refs \in Seq(Known)
  BY <1>1, <1>3 DEF Referable
<1> HIDE DEF n, t, h
<1>7. Referenced(h) \subseteq Known
  <2>1. \A i \in 1..n : referenced_object_hashes_for_kind(h[i].event.kind) \subseteq Known
    BY <1>6 DEF referenced_object_hashes_for_kind
  <2> QED BY <1>3, <2>1 DEF Referenced
<1>8. missing_objects(h, objects) \subseteq {zero_hash}
  BY <1>7 DEF missing_objects, Known
<1>9. object_hash_mismatches(h, objects) = {}
  BY DEF object_hash_mismatches, Referable
<1>10. hash_mismatches(h) = {} /\ sequence_violations(h) = {}
  BY <1>3, <1>4 DEF hash_mismatches, sequence_violations
<1>11. broken_parent_links(h) = {}
  <2> SUFFICES ASSUME NEW i \in 1..n
               PROVE  IF i = 1
                      THEN h[i].event.kind.tag = "SessionStart" /\ h[i].event.parents = None
                      ELSE h[i].event.parents = Some(h[i-1].hash)
    BY <1>3 DEF broken_parent_links
  <2>1. CASE i = 1
    BY <1>1, <1>3, <1>4, <2>1
  <2>2. CASE i # 1
    <3>1. i - 1 \in 1..n /\ i - 1 \in 0..(n-1) /\ i - 1 # 0
      BY <1>1, <2>2
    <3> QED BY <1>3, <1>4, <2>2, <3>1
  <2> QED BY <2>1, <2>2
<1>12. ~head_mismatch(h, heads[s])
  <2>1. CASE n = 0
    BY <1>5, <2>1 DEF head_mismatch
  <2>2. CASE n # 0
    <3>1. n \in 1..n
      BY <1>1, <2>2
    <3> QED BY <1>3, <1>5, <2>2, <3>1 DEF head_mismatch
  <2> QED BY <2>1, <2>2
<1> QED BY <1>8, <1>9, <1>10, <1>11, <1>12 DEF h

\* A writer's journal is never blamed: whatever failed, crashed or interleaved,
\* verify finds in it only objects that could not be stored.
THEOREM WriterNeverBlamed == Spec => []VerifyBlamesNoWriter
<1>1. Init => Referable
  <2> SUFFICES ASSUME Init PROVE Referable
    OBVIOUS
  <2>1. DOMAIN <<>> = {} /\ <<>> \in Seq(Known)
    OBVIOUS
  <2>2. \A h \in DOMAIN objects : digest_bytes(objects[h]) = h
    BY <2>1 DEF Init
  <2>3. \A w \in Emitters : job[w].refs \in Seq(Known)
    BY <2>1, JobRefs DEF Init
  <2>4. \A s \in Sessions : DOMAIN table[s] = {}
    BY <2>1 DEF Init
  <2> QED BY <2>2, <2>3, <2>4 DEF Referable
<1>2. IndInv /\ Referable /\ [Next]_vars => Referable'
  BY NextRefs
<1>3. IndInv /\ Referable => VerifyBlamesNoWriter
  <2> SUFFICES ASSUME IndInv, Referable, NEW s \in DOMAIN heads
               PROVE  LET report == verify(s)
                      IN /\ report.missing_objects \subseteq {zero_hash}
                         /\ report.object_hash_mismatches = {}
                         /\ report.hash_mismatches = {}
                         /\ report.broken_parent_links = {}
                         /\ report.sequence_violations = {}
                         /\ ~report.head_mismatch
    BY DEF VerifyBlamesNoWriter
  <2>1. s \in Sessions /\ LinkedTable(table[s], heads[s]) /\ TypeOK
    BY DEF IndInv, TypeOK, ChainLinked
  <2> QED BY <2>1, ReportOnLinked DEF verify, verify_history_against_store
<1> QED
  BY <1>1, <1>2, <1>3, Inductive, PTL DEF Spec

(***************************************************************************)
(* The journal implements the append-only log of SessionLog.               *)
(***************************************************************************)
\* The log of kinds depends on the event table alone.
LEMMA KindLogFrame == table' = table => KindLog' = KindLog
BY DEF KindLog, history_len

LEMMA AppendIs ==
  ASSUME NEW T, NEW q \in Seq(T), NEW x
  PROVE  Append(q, x) = [i \in 1..(Len(q) + 1) |-> IF i = Len(q) + 1 THEN x ELSE q[i]]
<1> DEFINE S == T \cup {x}
           n == Len(q)
<1>1. q \in Seq(S) /\ x \in S /\ n \in Nat
  OBVIOUS
<1> HIDE DEF S
<1>2. /\ Append(q, x) \in Seq(S) /\ Len(Append(q, x)) = n + 1
      /\ \A i \in 1..n : Append(q, x)[i] = q[i]
      /\ Append(q, x)[n + 1] = x
  BY <1>1
<1>3. Append(q, x) = [i \in 1..(n + 1) |-> Append(q, x)[i]]
  <2> DEFINE r == Append(q, x)
  <2> HIDE DEF r
  <2>1. r \in Seq(S) /\ Len(r) = n + 1
    BY <1>2 DEF r
  <2>2. r \in [1..(n + 1) -> S]
    BY <2>1
  <2> QED BY <2>2 DEF r
<1> HIDE DEF n
<1>4. \A i \in 1..(n + 1) : Append(q, x)[i] = IF i = n + 1 THEN x ELSE q[i]
  <2>1. \A i \in 1..(n + 1) : i \in 1..n \/ i = n + 1
    BY <1>1
  <2>2. ~(n + 1 \in 1..n)
    BY <1>1
  <2>3. \A i \in 1..n : i # n + 1
    BY <2>2
  <2> QED BY <1>2, <2>1, <2>3
<1> QED BY <1>3, <1>4, Zenon DEF n

\* An event put behind the last one of a session is appended to its log.
LEMMA KindLogExtends ==
  ASSUME TypeOK, TypeOK', NEW s \in Sessions, NEW e,
         DOMAIN table[s] = 0..(history_len(s) - 1),
         table'[s] = Insert(table[s], history_len(s), e),
         \A r \in Sessions \ {s} : table'[r] = table[r]
  PROVE  KindLog' = [KindLog EXCEPT ![s] = Append(@, e.event.kind.tag)]
<1> DEFINE n == history_len(s)
           tag == e.event.kind.tag
           kinds(r) == [i \in 1..history_len(r) |-> table[r][i-1].event.kind.tag]
<1>1. n \in Nat
  BY HistoryLenType
<1>2. DOMAIN table'[s] = 0..n
  BY <1>1 DEF Insert
<1>3. history_len(s)' = n + 1
  BY <1>1, <1>2, FS_Interval DEF history_len
<1>4. \A i \in 1..n : table'[s][i-1] = table[s][i-1]
  BY <1>1 DEF Insert
<1>5. table'[s][n] = e
  BY DEF Insert
<1>6. kinds(s) \in Seq({kinds(s)[i] : i \in 1..n}) /\ Len(kinds(s)) = n
  <2> DEFINE values == {kinds(s)[i] : i \in 1..n}
  <2>1. DOMAIN kinds(s) = 1..n /\ kinds(s) \in [1..n -> values]
    OBVIOUS
  <2> HIDE DEF kinds, n, values
  <2>2. kinds(s) \in Seq(values) /\ Len(kinds(s)) = n
    BY <1>1, <2>1
  <2> QED BY <2>2 DEF values
<1>7. Append(kinds(s), tag) = [i \in 1..(n+1) |-> IF i = n + 1 THEN tag ELSE kinds(s)[i]]
  <2> HIDE DEF kinds, tag
  <2> QED BY <1>6, AppendIs
<1>8. KindLog'[s] = Append(kinds(s), tag)
  <2>1. KindLog'[s] = [i \in 1..(n+1) |-> table'[s][i-1].event.kind.tag]
    BY <1>3 DEF KindLog
  <2>2. \A i \in 1..(n+1) :
           table'[s][i-1].event.kind.tag = IF i = n + 1 THEN tag ELSE kinds(s)[i]
    BY <1>1, <1>4, <1>5
  <2> HIDE DEF kinds, n
  <2> QED BY <1>7, <2>1, <2>2
<1>9. \A r \in Sessions \ {s} : KindLog'[r] = KindLog[r]
  BY DEF KindLog, history_len
<1>10. KindLog[s] = kinds(s)
  BY DEF KindLog
<1>11. /\ KindLog = [r \in Sessions |-> KindLog[r]]
       /\ KindLog' = [r \in Sessions |-> KindLog'[r]]
  BY DEF KindLog
<1> HIDE DEF kinds, n, tag
<1> QED
  BY <1>8, <1>9, <1>10, <1>11 DEF tag

\* A commit is an append of the log: the first event is SessionStart, no other is.
LEMMA CommitAppends ==
  ASSUME IndInv, IndInv', NEW w \in Emitters, Commit(w)
  PROVE  \E s \in Sessions : \E tag \in Tags : Log!AppendEvent(s, tag)
<1>1. PICK s, e :
        /\ s \in Sessions
        /\ handle = Some(s) /\ s \in DOMAIN heads
        /\ e.event.kind = KindOf(job[w])
        /\ table'[s] = Insert(table[s], history_len(s), e)
        /\ \A r \in Sessions \ {s} : table'[r] = table[r]
        /\ history_len(s) \in Nat /\ DOMAIN table[s] = 0..(history_len(s) - 1)
  BY CommitEffect
<1> DEFINE tag == job[w].tag
<1>2. tag \in Tags /\ e.event.kind.tag = tag
  BY <1>1 DEF IndInv, TypeOK, KindOf, EventKind
<1>3. handle[1] = s
  BY <1>1, SomeInjective
<1>4. DOMAIN heads' = DOMAIN heads
  <2>1. PICK v : heads' = Insert(heads, s, v)
    BY <1>3 DEF Commit
  <2> QED BY <1>1, <2>1 DEF Insert
<1>5. (KindLog[s] = <<>>) <=> (tag = "SessionStart")
  <2>1. (heads[s] = None) <=> (tag = "SessionStart")
    BY <1>3 DEF Commit, Accepted, IndInv, ReadsCurrent
  <2>2. (heads[s] = None) <=> (history_len(s) = 0)
    BY <1>1, SomeInjective DEF IndInv, ChainLinked, LinkedTable, history_len
  <2>3. KindLog[s] = [i \in 1..history_len(s) |-> table[s][i-1].event.kind.tag]
    BY <1>1 DEF KindLog
  <2>4. (KindLog[s] = <<>>) <=> (history_len(s) = 0)
    BY <1>1, <2>3
  <2> QED BY <2>1, <2>2, <2>4
<1>6. KindLog' = [KindLog EXCEPT ![s] = Append(@, tag)]
  BY <1>1, <1>2, KindLogExtends DEF IndInv
<1>7. Log!AppendEvent(s, tag)
  BY <1>1, <1>4, <1>5, <1>6 DEF Log!AppendEvent
<1> QED
  BY <1>1, <1>2, <1>7

\* No other step than OpenNew and Commit shows in the log.
LEMMA OthersStutter ==
  ASSUME [Next]_vars, \A w \in Emitters : ~Commit(w), \A s \in Sessions : ~OpenNew(s)
  PROVE  heads' = heads /\ table' = table
<1>1. table' = table
  BY OnlyCommitWrites
<1>2. ASSUME NEW w \in Emitters, Step(w) \/ PutFails(w) \/ AppendFails(w)
      PROVE  heads' = heads
  BY <1>2 DEF Step, Put, PutFails, Lock, ReadHead, ReadLen, Reject, AppendFails, store
<1>3. CASE AgentEmit \/ End \/ Drop \/ Crash
  BY <1>3 DEF AgentEmit, End, Drop, Crash, EmitSessionEnd, store
<1>4. ASSUME NEW w \in Wrappers, WrapperEmit(w) PROVE heads' = heads
  BY <1>4 DEF WrapperEmit, store
<1>5. ASSUME NEW s \in Sessions, Resume(s) PROVE heads' = heads
  BY <1>5 DEF Resume, store
<1>6. CASE UNCHANGED vars
  BY <1>6 DEF vars
<1> QED
  BY <1>1, <1>2, <1>3, <1>4, <1>5, <1>6 DEF Next

\* The journal, with its emitters, errors and crashes, implements the log that
\* readers rely on: created once, opened by SessionStart, only appended to.
THEOREM JournalImplementsLog == Spec => ImplementsLog
<1>1. Init => Log!LogInit
  <2> SUFFICES ASSUME Init PROVE Log!LogInit
    OBVIOUS
  <2>1. DOMAIN <<>> = {}
    OBVIOUS
  <2>2. \A s \in Sessions : history_len(s) = 0
    BY <2>1, FS_EmptySet DEF Init, history_len
  <2>3. KindLog = [s \in Sessions |-> <<>>]
    BY <2>2 DEF KindLog
  <2> QED BY <2>1, <2>3 DEF Init, Log!LogInit
<1>2. IndInv /\ IndInv' /\ [Next]_vars => [Log!LogNext]_(Log!logVars)
  <2> SUFFICES ASSUME IndInv, IndInv', [Next]_vars
               PROVE  [Log!LogNext]_(Log!logVars)
    OBVIOUS
  <2>1. CASE \E w \in Emitters : Commit(w)
    BY <2>1, CommitAppends DEF Log!LogNext
  <2>2. ASSUME NEW s \in Sessions, OpenNew(s) PROVE Log!Create(s)
    <3>1. s \notin DOMAIN heads /\ heads' = Insert(heads, s, None) /\ table' = table
      BY <2>2 DEF OpenNew
    <3> QED BY <3>1, InsertDomain, KindLogFrame DEF Log!Create
  <2>3. CASE (\A w \in Emitters : ~Commit(w)) /\ (\A s \in Sessions : ~OpenNew(s))
    BY <2>3, OthersStutter, KindLogFrame DEF Log!logVars
  <2> QED BY <2>1, <2>2, <2>3 DEF Log!LogNext
<1> QED
  BY <1>1, <1>2, Inductive, PTL DEF Spec, ImplementsLog, Log!LogSpec
=============================================================================
