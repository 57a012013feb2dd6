-------------------------- MODULE HeadlessRunProofs --------------------------
(***************************************************************************)
(* Machine-checked proofs about HeadlessRun, for any number of processes,  *)
(* projects and sessions, and with a kill or a failing write at any step;  *)
(* and about LlmSettings, for any models, hosts and settings.              *)
(***************************************************************************)
EXTENDS HeadlessRun, LlmSettings, FiniteSetTheorems, NaturalsInduction,
        WellFoundedInduction, TLAPS

(***************************************************************************)
(* The inductive invariant.                                                *)
(***************************************************************************)
Filing == {"evidence", "evidence_fill", "save", "save_fill", "index", "index_create",
           "index_fill", "exit"}
Active == {"turn", "plan", "audit", "audit_fill"} \union Filing
Steps == {"start", "load", "open", "done"} \union Active

SomeRun == Runs \union {None}
Entries == [Projects -> SomeRun]
Outcomes == {"None", "ok", "failed"}

Procs ==
    [command : Commands, at : Steps, session : SomeRun, resumed : BOOLEAN,
     read : Seq(Runs), context : Seq(Runs), entries : Entries, outcome : Outcomes,
     plan : BOOLEAN, hit : BOOLEAN, stale : BOOLEAN, indexed : BOOLEAN,
     exit : Outcomes \union {"no_session", "config", "locked", "killed"}]

TypeOK ==
    /\ procs \in [Runs -> Procs]
    /\ lock \in SomeRun
    /\ journal \in [Runs -> Seq(Runs)]
    /\ transcripts \in [Runs -> Transcripts \union {None}]
    /\ index \in [whole : BOOLEAN, entries : Entries]
    /\ audit \in [Paths -> AuditLogs \union {None}]
    /\ evidence \in [Runs -> EvidenceFiles \union {None}]
    /\ order \in Seq(Runs) /\ saves \subseteq Runs /\ torn \in BOOLEAN

Distinct(seq) == \A i, j \in 1..Len(seq) : seq[i] = seq[j] => i = j

(* One process at most is past the opening of the journal, the last that    *)
(* opened it; each opens it once.                                          *)
Placed(r) ==
    /\ procs[r].at \in Active => lock = r
    /\ procs[r].at \in {"start", "load"} => ~Opened(r)
    /\ Opened(r) => lock = r \/ procs[r].at = "done"
    /\ Opened(r) \/ procs[r].at \notin {"start", "done"} => Session(r) \in Runs
    /\ procs[r].at # "done" => procs[r].exit = "None"
    /\ procs[r].exit = "ok" => procs[r].outcome = "ok" /\ Opened(r)
    /\ Opened(r) \/ procs[r].outcome = "None"

LastOpened ==
    lock # None => /\ procs[lock].at \in Active \union {"open"}
                   /\ Opened(lock) /\ \A r : ~Precedes(lock, r)

Exclusive == (\A r \in Runs : Placed(r)) /\ LastOpened /\ Distinct(order)

(* A file that is being filled is there. *)
Created ==
    \A r \in Runs :
        /\ procs[r].at = "audit_fill" => audit[AuditPath(r)] # None
        /\ procs[r].at = "evidence_fill" => evidence[Session(r)] # None
        /\ procs[r].at = "save_fill" => transcripts[Session(r)] # None

(* A log and an evidence file that were written whole are there until a run *)
(* of the session or of the same path comes.                               *)
Undisturbed(r) ==
    /\ ~procs[r].hit
    /\ \A q \in OpenedSince(r) : Session(q) # Session(r) /\ AuditPath(q) # AuditPath(r)

Log(r) == [by |-> r, lines |-> "whole"]
Evidence(r, whole) ==
    [by |-> r, whole |-> whole, path |-> AuditPath(r), audit_chain_valid |-> TRUE,
     session_final_hash |-> Log(r)]

Filed(r) ==
    Opened(r) /\ Undisturbed(r) /\ procs[r].outcome = "ok" =>
        /\ procs[r].at \in Filing \/ procs[r].exit = "ok" => audit[AuditPath(r)] = Log(r)
        /\ procs[r].at = "evidence_fill" => evidence[Session(r)] = Evidence(r, FALSE)
        /\ procs[r].at \in Filing \ {"evidence", "evidence_fill"} \/ procs[r].exit = "ok" =>
              evidence[Session(r)] = Evidence(r, TRUE)

EvidenceInv == TypeOK /\ Exclusive /\ Created /\ \A r \in Runs : Filed(r)

(* The index names the last run of each project that recorded itself, and a *)
(* run that is about to write it has read the last one.                    *)
Recorded(p) == {r \in Runs : Opened(r) /\ procs[r].indexed /\ Project(r) = p}

NamesLast(s, p) ==
    IF Recorded(p) = {} THEN s = None
    ELSE \E r \in Recorded(p) : s = Session(r) /\ Recorded(p) \intersect OpenedSince(r) = {}

(* A session that is named has a run that saved it, or failed to. *)
HasTranscript(s, p) ==
    s # None => \E r \in Runs : /\ Opened(r) /\ Session(r) = s /\ Project(r) = p
                                /\ r \in saves \/ procs[r].hit

Indexing(r) ==
    /\ procs[r].indexed => procs[r].at \in {"exit", "done"}
    /\ procs[r].at \in {"index", "index_create", "index_fill"} => r \in saves \/ procs[r].hit
    /\ procs[r].at \in {"index_create", "index_fill"} =>
         /\ procs[r].entries[Project(r)] = Session(r)
         /\ \A p \in Projects : HasTranscript(procs[r].entries[p], p)
         /\ ~torn => \A p \in Projects \ {Project(r)} : NamesLast(procs[r].entries[p], p)
    /\ procs[r].at = "index_fill" => index.entries = procs[r].entries

IndexInv ==
    /\ EvidenceInv
    /\ \A r \in Runs : Indexing(r)
    /\ \A p \in Projects : HasTranscript(index.entries[p], p)
    /\ ~torn => /\ index.whole <=> \A r \in Runs : procs[r].at # "index_fill"
                /\ index.whole => \A p \in Projects : NamesLast(index.entries[p], p)

(* What a resumed run has read is the whole conversation of its session.   *)
SameProject(q, r) == ~procs[q].stale /\ Project(q) = Project(r)
GoodHistory(r) ==
    /\ ~procs[r].stale
    /\ \A q \in Earlier(r) : q \in saves /\ SameProject(q, r)

Whole(r) ==
    /\ \A q \in Runs : In(q, procs[r].read) <=> q \in Earlier(r) /\ In(q, procs[q].context)
    /\ \A i, j \in 1..Len(procs[r].read) :
         i < j => Precedes(procs[r].read[i], procs[r].read[j])

LastOf(r) == Opened(r) /\ \A q \in OpenedSince(r) : Session(q) # Session(r)

Saved(r, whole) == [whole |-> whole, project |-> Project(r), rows |-> procs[r].context]
Saving == {"turn", "plan", "audit", "audit_fill", "evidence", "evidence_fill", "save",
           "save_fill"}

(* What a process has read, and what it will save. *)
Reading(r) ==
    /\ procs[r].at \in {"start", "load"} => procs[r].read = <<>> /\ ~procs[r].stale
    /\ ~Opened(r) => procs[r].context = <<>>
    /\ ~procs[r].resumed => procs[r].read = <<>>
    /\ Opened(r) => /\ procs[r].context \in {procs[r].read, Append(procs[r].read, r)}
                    /\ procs[r].at = "turn" => procs[r].context = procs[r].read
                    /\ \A i \in 1..Len(procs[r].read) : Precedes(procs[r].read[i], r)
    /\ \A i \in 1..Len(procs[r].read) : Opened(procs[r].read[i])

SavesIt(r) ==
    /\ procs[r].at \in Saving => r \notin saves
    /\ r \in saves => Opened(r)
    /\ procs[r].at = "save_fill" => transcripts[Session(r)] = Saved(r, FALSE)
    /\ r \in saves /\ LastOf(r) => transcripts[Session(r)] = Saved(r, TRUE)

(* What a process that is about to open the journal has read is still true. *)
UpToDate(r) ==
    procs[r].at = "open" /\ ~Opened(r) /\ ~procs[r].stale =>
      /\ lock # None => Session(lock) # Session(r)
      /\ procs[r].resumed => procs[r].read = ResumeMessages(Session(r), Project(r))

Chosen(r) ==
    Session(r) # None =>
      IF procs[r].resumed THEN Session(r) # r /\ Opened(Session(r)) ELSE Session(r) = r

(* A transcript is of runs that opened the journal. *)
OfRuns(s) ==
    transcripts[s] # None =>
      /\ \E r \in Runs : Opened(r) /\ Session(r) = s
      /\ \A i \in 1..Len(transcripts[s].rows) : Opened(transcripts[s].rows[i])

ResumeInv ==
    /\ IndexInv
    /\ \A s \in Runs : (journal[s] # <<>> => Opened(s)) /\ OfRuns(s)
    /\ \A r \in Runs : /\ Chosen(r) /\ Reading(r) /\ SavesIt(r) /\ UpToDate(r)
                       /\ Opened(r) /\ GoodHistory(r) => Whole(r)

-----------------------------------------------------------------------------
(***************************************************************************)
(* The order in which runs opened the journal.                             *)
(***************************************************************************)
(* What precedes what is a strict order of the runs that were opened. *)
LEMMA OrderFacts ==
  ASSUME order \in Seq(Runs), Distinct(order)
  PROVE  /\ \A a, b : Precedes(a, b) => Opened(a) /\ Opened(b) /\ ~Precedes(b, a) /\ a # b
         /\ \A a, b, c : Precedes(a, b) /\ Precedes(b, c) => Precedes(a, c)
         /\ \A a, b : Opened(a) /\ Opened(b) => a = b \/ Precedes(a, b) \/ Precedes(b, a)
         /\ \A a : Opened(a) => a \in Runs
<1>1. Len(order) \in Nat  OBVIOUS
<1>2. ASSUME NEW a, NEW b, Precedes(a, b)
      PROVE  Opened(a) /\ Opened(b) /\ ~Precedes(b, a) /\ a # b
  <2>1. PICK i, j \in 1..Len(order) : order[i] = a /\ order[j] = b /\ i < j
    BY <1>2 DEF Precedes
  <2>2. Opened(a) /\ Opened(b)  BY <2>1 DEF Opened
  <2>3. a # b  BY <2>1, <1>1 DEF Distinct
  <2>4. ASSUME Precedes(b, a) PROVE FALSE
    <3>1. PICK k, l \in 1..Len(order) : order[k] = b /\ order[l] = a /\ k < l
      BY <2>4 DEF Precedes
    <3>2. k = j /\ l = i  BY <2>1, <3>1 DEF Distinct
    <3> QED  BY <3>1, <3>2, <2>1, <1>1
  <2> QED  BY <2>2, <2>3, <2>4
<1>3. ASSUME NEW a, NEW b, NEW c, Precedes(a, b), Precedes(b, c)
      PROVE  Precedes(a, c)
  <2>1. PICK i, j \in 1..Len(order) : order[i] = a /\ order[j] = b /\ i < j
    BY <1>3 DEF Precedes
  <2>2. PICK k, l \in 1..Len(order) : order[k] = b /\ order[l] = c /\ k < l
    BY <1>3 DEF Precedes
  <2>3. k = j  BY <2>1, <2>2 DEF Distinct
  <2>4. i < l  BY <2>1, <2>2, <2>3, <1>1
  <2> QED  BY <2>1, <2>2, <2>4 DEF Precedes
<1>4. ASSUME NEW a, NEW b, Opened(a), Opened(b)
      PROVE  a = b \/ Precedes(a, b) \/ Precedes(b, a)
  <2>1. PICK i \in 1..Len(order) : order[i] = a  BY <1>4 DEF Opened
  <2>2. PICK j \in 1..Len(order) : order[j] = b  BY <1>4 DEF Opened
  <2>3. i < j \/ j < i \/ i = j  BY <1>1
  <2> QED  BY <2>1, <2>2, <2>3 DEF Precedes
<1>5. ASSUME NEW a, Opened(a) PROVE a \in Runs
  BY <1>5 DEF Opened
<1> QED  BY <1>2, <1>3, <1>4, <1>5

(* A step that opens no journal changes none of this. *)
LEMMA OrderKept ==
  ASSUME order' = order
  PROVE  /\ \A a : Opened(a)' <=> Opened(a)
         /\ \A a, b : Precedes(a, b)' <=> Precedes(a, b)
BY DEF Opened, Precedes

(* A run that opens the journal comes after all that did so before. *)
LEMMA OrderGrows ==
  ASSUME order \in Seq(Runs), NEW q \in Runs, order' = Append(order, q)
  PROVE  /\ \A a : Opened(a)' <=> Opened(a) \/ a = q
         /\ \A a, b : Precedes(a, b)' <=> Precedes(a, b) \/ (Opened(a) /\ b = q)
         /\ order' \in Seq(Runs) /\ Len(order') = Len(order) + 1
         /\ order'[Len(order')] = q
         /\ Distinct(order) /\ ~Opened(q) => Distinct(order')
<1>1. /\ Len(order) \in Nat /\ Len(order') = Len(order) + 1 /\ order' \in Seq(Runs)
      /\ \A i \in 1..Len(order) : order'[i] = order[i]
      /\ order'[Len(order) + 1] = q
  OBVIOUS
<1>2. 1..Len(order') = 1..Len(order) \union {Len(order) + 1}  BY <1>1
<1>3. \A a : Opened(a)' <=> Opened(a) \/ a = q
  BY <1>1, <1>2 DEF Opened
<1>4. ASSUME NEW a, NEW b PROVE Precedes(a, b)' <=> Precedes(a, b) \/ (Opened(a) /\ b = q)
  <2>1. ASSUME Precedes(a, b)' PROVE Precedes(a, b) \/ (Opened(a) /\ b = q)
    <3>1. PICK i, j \in 1..Len(order') : order'[i] = a /\ order'[j] = b /\ i < j
      BY <2>1 DEF Precedes
    <3>2. i \in 1..Len(order)  BY <3>1, <1>1
    <3>3. Opened(a)  BY <3>1, <3>2, <1>1 DEF Opened
    <3>4. CASE j \in 1..Len(order)  BY <3>1, <3>2, <3>4, <1>1 DEF Precedes
    <3>5. CASE j = Len(order) + 1  BY <3>1, <3>3, <3>5, <1>1
    <3> QED  BY <3>4, <3>5, <1>2
  <2>2. ASSUME Precedes(a, b) PROVE Precedes(a, b)'
    BY <2>2, <1>1, <1>2 DEF Precedes
  <2>3. ASSUME Opened(a), b = q PROVE Precedes(a, b)'
    <3>1. PICK i \in 1..Len(order) : order[i] = a  BY <2>3 DEF Opened
    <3>2. /\ i \in 1..Len(order') /\ Len(order) + 1 \in 1..Len(order')
          /\ i < Len(order) + 1
      BY <3>1, <1>1
    <3> QED  BY <3>1, <3>2, <2>3, <1>1 DEF Precedes
  <2> QED  BY <2>1, <2>2, <2>3
<1>5. ASSUME Distinct(order), ~Opened(q) PROVE Distinct(order')
  <2> SUFFICES ASSUME NEW i \in 1..Len(order'), NEW j \in 1..Len(order'), order'[i] = order'[j]
               PROVE  i = j
    BY DEF Distinct
  <2>1. CASE i \in 1..Len(order) /\ j \in 1..Len(order)
    BY <2>1, <1>1, <1>5 DEF Distinct
  <2>2. CASE i \in 1..Len(order) /\ j = Len(order) + 1  BY <2>2, <1>1, <1>5 DEF Opened
  <2>3. CASE j \in 1..Len(order) /\ i = Len(order) + 1  BY <2>3, <1>1, <1>5 DEF Opened
  <2> QED  BY <2>1, <2>2, <2>3, <1>2
<1> QED  BY <1>1, <1>3, <1>4, <1>5

-----------------------------------------------------------------------------
(***************************************************************************)
(* What the steps have in common.                                          *)
(***************************************************************************)
Same(q, n) ==
    /\ n.command = procs[q].command /\ n.session = procs[q].session
    /\ n.resumed = procs[q].resumed /\ n.read = procs[q].read
    /\ n.stale = procs[q].stale

(* Process q becomes n, the others stay as they are. *)
Becomes(q, n) ==
    /\ n \in Procs
    /\ procs' = [procs EXCEPT ![q] = n]

(* A step of the run that holds the journal. *)
Works(q, n) ==
    /\ Becomes(q, n) /\ Same(q, n)
    /\ procs[q].at \in Active /\ n.at \in Active \union {"open"}
    /\ n.exit = procs[q].exit
    /\ lock' = lock /\ order' = order

(* The end of a process. *)
Leaves(q, code) ==
    /\ Becomes(q, [procs[q] EXCEPT !.at = "done", !.exit = code])
    /\ procs[q].at # "done"
    /\ lock' = IF lock = q THEN None ELSE lock
    /\ order' = order

LEMMA Became ==
  ASSUME TypeOK, NEW q \in Runs, NEW n, Becomes(q, n)
  PROVE  /\ procs' \in [Runs -> Procs] /\ procs'[q] = n
         /\ \A r \in Runs : r # q => procs'[r] = procs[r]
BY DEF TypeOK, Becomes

LEMMA LeaveStep ==
  ASSUME TypeOK, NEW q \in Runs, NEW code, Leave(q, procs, code), procs[q].at # "done",
         code \in Outcomes \union {"no_session", "config", "locked", "killed"},
         order' = order
  PROVE  Leaves(q, code)
<1> DEFINE n == [procs[q] EXCEPT !.at = "done", !.exit = code]
<1>1. procs[q] \in Procs  BY DEF TypeOK
<1>2. n \in Procs  BY <1>1 DEF Procs, Steps
<1>3. procs' = [procs EXCEPT ![q] = n]  BY DEF Leave
<1>4. lock' = IF lock = q THEN None ELSE lock  BY DEF Leave
<1> QED  BY <1>2, <1>3, <1>4 DEF Leaves, Becomes

LEMMA ConfigErrorStep ==
  ASSUME TypeOK, NEW q \in Runs, ConfigError(q)
  PROVE  Leaves(q, "config")
<1>1. /\ Leave(q, procs, "config") /\ procs[q].at # "done" /\ order' = order
  BY DEF ConfigError, At
<1> QED  BY <1>1, LeaveStep

LEMMA ExitStep ==
  ASSUME TypeOK, NEW q \in Runs, Exit(q)
  PROVE  Leaves(q, procs[q].outcome)
<1>1. /\ Leave(q, procs, procs[q].outcome) /\ procs[q].at # "done" /\ order' = order
  BY DEF Exit, At
<1>2. procs[q].outcome \in Outcomes  BY DEF TypeOK, Procs
<1> QED  BY <1>1, <1>2, LeaveStep

LEMMA KillStep ==
  ASSUME TypeOK, NEW q \in Runs, Kill(q)
  PROVE  Leaves(q, "killed")
<1>1. /\ Leave(q, procs, "killed") /\ procs[q].at # "done" /\ order' = order
  BY DEF Kill, At
<1> QED  BY <1>1, LeaveStep

LEMMA AuditPathOk ==
  ASSUME TypeOK, HeadlessRunAssumption, NEW q \in Runs, Session(q) \in Runs
  PROVE  AuditPath(q) \in Paths
<1>1. procs[q].command \in Commands  BY DEF TypeOK, Procs
<1>2. procs[q].command.audit_log \in {None, Custom}  BY <1>1 DEF HeadlessRunAssumption
<1> QED  BY <1>2 DEF AuditPath, Paths, Sessions

LEMMA CommandOk ==
  ASSUME TypeOK, HeadlessRunAssumption, NEW q \in Runs
  PROVE  /\ Project(q) \in Projects /\ Mode(q) \in {"task", "plan", "architect"}
         /\ procs[q].command.select \in {"new", "continue", "session"}
<1>1. procs[q].command \in Commands  BY DEF TypeOK, Procs
<1> QED  BY <1>1 DEF HeadlessRunAssumption, Project, Mode

LEMMA TurnStep ==
  ASSUME TypeOK, NEW q \in Runs, Turn(q)
  PROVE  \E outcome \in {"ok", "failed"}, context \in {procs[q].context, Append(procs[q].context, q)} :
           Works(q, [procs[q] EXCEPT !.at = AfterTurn(q, outcome), !.outcome = outcome,
                                     !.context = context])
<1>1. PICK outcome \in {"ok", "failed"}, answered \in BOOLEAN :
        /\ outcome = "ok" => answered
        /\ procs' = [Goes(q, AfterTurn(q, outcome)) EXCEPT
                       ![q].outcome = outcome,
                       ![q].context = IF answered THEN Answered(@, q) ELSE @]
  BY DEF Turn
<1> DEFINE context == IF answered THEN Append(procs[q].context, q) ELSE procs[q].context
<1> DEFINE n == [procs[q] EXCEPT !.at = AfterTurn(q, outcome), !.outcome = outcome,
                                 !.context = context]
<1>2. procs[q] \in Procs  BY DEF TypeOK
<1>3. context \in Seq(Runs)  BY <1>2 DEF Procs
<1>4. AfterTurn(q, outcome) \in {"plan", "audit"}  BY DEF AfterTurn
<1>5. n \in Procs  BY <1>2, <1>3, <1>4, ZenonT(60) DEF Procs, Steps, Active, Outcomes
<1>6. procs' = [procs EXCEPT ![q] = n]  BY <1>1, <1>2 DEF Goes, Answered, TypeOK, Procs
<1>7. Same(q, n) /\ n.exit = procs[q].exit /\ n.at = AfterTurn(q, outcome)
  BY <1>2 DEF Same, Procs
<1>8. procs[q].at \in Active /\ lock' = lock /\ order' = order
  BY DEF Turn, At, Active
<1>9. Works(q, n)
  BY <1>4, <1>5, <1>6, <1>7, <1>8 DEF Works, Becomes, Active
<1> QED  BY <1>9

(* The steps that only move the process on. *)
LEMMA GoesStep ==
  ASSUME TypeOK, NEW q \in Runs, NEW to \in Active \union {"open"},
         procs' = Goes(q, to), procs[q].at \in Active, lock' = lock, order' = order
  PROVE  Works(q, [procs[q] EXCEPT !.at = to])
<1> DEFINE n == [procs[q] EXCEPT !.at = to]
<1>1. procs[q] \in Procs  BY DEF TypeOK
<1>2. n \in Procs  BY <1>1 DEF Procs, Steps
<1>3. procs' = [procs EXCEPT ![q] = n]  BY <1>1 DEF Goes, TypeOK
<1>4. Same(q, n) /\ n.exit = procs[q].exit /\ n.at = to
  BY <1>1 DEF Same, Procs
<1> QED  BY <1>2, <1>3, <1>4 DEF Works, Becomes

LEMMA AfterAuditOk ==
  ASSUME NEW q
  PROVE  AfterAudit(q) \in {"evidence", "exit", "save"}
BY DEF AfterAudit

LEMMA SavePlanStep ==
  ASSUME TypeOK, NEW q \in Runs,
         SavePlan(q) \/ (PlanFails(q) /\ Mode(q) # "plan")
  PROVE  Works(q, [procs[q] EXCEPT !.at = IF Mode(q) = "plan" THEN "audit" ELSE "open",
                                   !.plan = TRUE])
<1> DEFINE to == IF Mode(q) = "plan" THEN "audit" ELSE "open"
           n == [procs[q] EXCEPT !.at = to, !.plan = TRUE]
<1>1. procs[q] \in Procs  BY DEF TypeOK
<1>2. to \in {"audit", "open"}  OBVIOUS
<1>3. n \in Procs  BY <1>1, <1>2 DEF Procs, Steps, Active
<1>4. /\ procs' = [Goes(q, to) EXCEPT ![q].plan = TRUE]
      /\ lock' = lock /\ order' = order /\ procs[q].at = "plan"
  BY DEF SavePlan, PlanFails, At
<1>5. procs' = [procs EXCEPT ![q] = n]  BY <1>4, <1>1 DEF Goes, TypeOK, Procs
<1>6. Same(q, n) /\ n.exit = procs[q].exit /\ n.at = to
  BY <1>1 DEF Same, Procs
<1> QED  BY <1>2, <1>3, <1>4, <1>5, <1>6 DEF Works, Becomes, Active

LEMMA LoadIndexStep ==
  ASSUME TypeOK, HeadlessRunAssumption, NEW q \in Runs, Session(q) \in Runs, LoadIndex(q)
  PROVE  Works(q, [procs[q] EXCEPT !.at = "index_create",
                     !.entries = [LoadedIndex EXCEPT ![Project(q)] = Session(q)]])
<1> DEFINE entries == [LoadedIndex EXCEPT ![Project(q)] = Session(q)]
           n == [procs[q] EXCEPT !.at = "index_create", !.entries = entries]
<1>1. procs[q] \in Procs  BY DEF TypeOK
<1>2. LoadedIndex \in Entries
  BY DEF TypeOK, LoadedIndex, NoEntries, Entries, SomeRun
<1>3. entries \in Entries  BY <1>2 DEF Entries, SomeRun
<1>4. n \in Procs  BY <1>1, <1>3 DEF Procs, Steps, Active, Filing
<1>5. /\ procs' = [Goes(q, "index_create") EXCEPT ![q].entries = entries]
      /\ lock' = lock /\ order' = order /\ procs[q].at = "index"
  BY DEF LoadIndex, At
<1>6. procs' = [procs EXCEPT ![q] = n]  BY <1>5, <1>1 DEF Goes, TypeOK, Procs
<1>7. Same(q, n) /\ n.exit = procs[q].exit /\ n.at = "index_create"
  BY <1>1 DEF Same, Procs
<1> QED  BY <1>4, <1>5, <1>6, <1>7 DEF Works, Becomes, Active, Filing

LEMMA FillIndexStep ==
  ASSUME TypeOK, NEW q \in Runs, FillIndex(q)
  PROVE  Works(q, [procs[q] EXCEPT !.at = "exit", !.indexed = TRUE])
<1> DEFINE n == [procs[q] EXCEPT !.at = "exit", !.indexed = TRUE]
<1>1. procs[q] \in Procs  BY DEF TypeOK
<1>2. n \in Procs  BY <1>1 DEF Procs, Steps, Active, Filing
<1>3. /\ procs' = [Goes(q, "exit") EXCEPT ![q].indexed = TRUE]
      /\ lock' = lock /\ order' = order /\ procs[q].at = "index_fill"
  BY DEF FillIndex, At
<1>4. procs' = [procs EXCEPT ![q] = n]  BY <1>3, <1>1 DEF Goes, TypeOK, Procs
<1>5. Same(q, n) /\ n.exit = procs[q].exit /\ n.at = "exit"
  BY <1>1 DEF Same, Procs
<1> QED  BY <1>2, <1>3, <1>4, <1>5 DEF Works, Becomes, Active, Filing

Breaks == {"audit", "audit_fill", "evidence", "evidence_fill", "save", "save_fill",
           "index_create", "index_fill"}

LEMMA FileFailsStep ==
  ASSUME TypeOK, NEW q \in Runs, FileFails(q)
  PROVE  /\ procs[q].at \in Breaks
         /\ Works(q, [procs[q] EXCEPT !.at = AfterFile(q), !.hit = TRUE])
         /\ AfterFile(q) \in {"evidence", "exit", "save", "index"}
         /\ procs[q].at = "save_fill" => AfterFile(q) = "index"
<1> DEFINE n == [procs[q] EXCEPT !.at = AfterFile(q), !.hit = TRUE]
<1>1. procs[q] \in Procs  BY DEF TypeOK
<1>2. /\ procs' = [Goes(q, AfterFile(q)) EXCEPT ![q].hit = TRUE]
      /\ lock' = lock /\ order' = order /\ procs[q].at \in Breaks
  BY DEF FileFails, HalfWritten, At, Breaks
<1>3. /\ AfterFile(q) \in {"evidence", "exit", "save", "index"}
      /\ procs[q].at = "save_fill" => AfterFile(q) = "index"
  BY <1>2, AfterAuditOk DEF AfterFile, Breaks
<1>4. n \in Procs  BY <1>1, <1>3 DEF Procs, Steps, Active, Filing
<1>5. procs' = [procs EXCEPT ![q] = n]  BY <1>2, <1>1 DEF Goes, TypeOK, Procs
<1>6. Same(q, n) /\ n.exit = procs[q].exit /\ n.at = AfterFile(q)
  BY <1>1 DEF Same, Procs
<1> QED  BY <1>2, <1>3, <1>4, <1>5, <1>6 DEF Works, Becomes, Active, Filing, Breaks
-----------------------------------------------------------------------------
(***************************************************************************)
(* One process at a time holds the journal.                                *)
(***************************************************************************)

LEMMA WorkKeepsPlaces ==
  ASSUME TypeOK, Exclusive, HeadlessRunAssumption, NEW q \in Runs, NEW n, Works(q, n)
  PROVE  Exclusive'
<1>1. /\ procs'[q] = n /\ \A r \in Runs : r # q => procs'[r] = procs[r]
  BY Became DEF Works
<1>2. /\ \A a : Opened(a)' <=> Opened(a)
      /\ order' = order /\ lock' = lock
  BY OrderKept DEF Works
<1>3. lock = q /\ lock # None /\ Opened(q)
  BY DEF Exclusive, Works, Placed, LastOpened, HeadlessRunAssumption
<1>4. procs[q].exit = "None" /\ Session(q) \in Runs
  BY <1>3 DEF Exclusive, Placed, Works, Active, Filing
<1>5. Placed(q)'
  BY <1>1, <1>2, <1>3, <1>4 DEF Placed, Works, Same, Session, Active, Filing
<1>6. ASSUME NEW r \in Runs, r # q PROVE Placed(r)'
  <2>1. Placed(r)  BY DEF Exclusive
  <2> QED  BY <1>1, <1>2, <1>6, <2>1 DEF Placed, Session
<1>7. LastOpened'
  <2>1. \A r : Precedes(q, r)' <=> Precedes(q, r)  BY <1>2, OrderKept
  <2>2. \A r : ~Precedes(q, r)  BY <1>3 DEF Exclusive, LastOpened
  <2> QED  BY <1>1, <1>2, <1>3, <2>1, <2>2 DEF LastOpened, Works
<1>8. Distinct(order')  BY <1>2 DEF Exclusive
<1> QED  BY <1>5, <1>6, <1>7, <1>8 DEF Exclusive

LEMMA LeavingKeepsPlaces ==
  ASSUME TypeOK, Exclusive, HeadlessRunAssumption, NEW q \in Runs, NEW code, Leaves(q, code),
         code = "ok" => procs[q].outcome = "ok" /\ Opened(q)
  PROVE  Exclusive'
<1> DEFINE n == [procs[q] EXCEPT !.at = "done", !.exit = code]
<1>1. /\ procs'[q] = n /\ \A r \in Runs : r # q => procs'[r] = procs[r]
  BY Became DEF Leaves
<1>2. /\ \A a : Opened(a)' <=> Opened(a)
      /\ order' = order
  BY OrderKept DEF Leaves
<1>3. /\ n.at = "done" /\ n.exit = code /\ n.session = procs[q].session
      /\ n.outcome = procs[q].outcome
  BY DEF TypeOK, Procs
<1>4. Placed(q)'
  <2>1. Placed(q)  BY DEF Exclusive
  <2> QED  BY <1>1, <1>2, <1>3, <2>1 DEF Placed, Session, Active, Filing, Leaves
<1>5. ASSUME NEW r \in Runs, r # q PROVE Placed(r)'
  <2>1. Placed(r)  BY DEF Exclusive
  <2>2. lock = r => lock' = r  BY <1>5 DEF Leaves
  <2> QED  BY <1>1, <1>2, <1>5, <2>1, <2>2 DEF Placed, Session
<1>6. LastOpened'
  <2>1. \A a, r : Precedes(a, r)' <=> Precedes(a, r)  BY <1>2, OrderKept
  <2>2. lock' = None \/ (lock' = lock /\ lock # q)  BY DEF Leaves
  <2>3. lock \in SomeRun  BY DEF TypeOK
  <2> QED  BY <1>1, <1>2, <2>1, <2>2, <2>3 DEF LastOpened, Exclusive, SomeRun
<1>7. Distinct(order')  BY <1>2 DEF Exclusive
<1> QED  BY <1>4, <1>5, <1>6, <1>7 DEF Exclusive

LEMMA ResolveStep ==
  ASSUME TypeOK, HeadlessRunAssumption, NEW q \in Runs, Resolve(q)
  PROVE  \/ Leaves(q, "no_session")
         \/ \E s \in Runs : LET n == [procs[q] EXCEPT !.session = s, !.at = "load",
                                         !.resumed = procs[q].command.select # "new"]
                            IN  /\ Becomes(q, n) /\ lock' = lock /\ procs[q].at = "start"
                                /\ procs[q].command.select = "new" => s = q
                                /\ procs[q].command.select = "continue" =>
                                      s = LoadedIndex[Project(q)] /\ s # None
                                /\ procs[q].command.select = "session" => journal[s] # <<>>
<1> DEFINE c == procs[q].command
           found == CASE c.select = "new" -> {q}
                      [] c.select = "continue" -> {LoadedIndex[c.project]} \ {None}
                      [] c.select = "session" -> {s \in Sessions : journal[s] # <<>>}
<1>1. procs[q] \in Procs  BY DEF TypeOK
<1>2. c.select \in {"new", "continue", "session"} /\ c.project \in Projects
  BY CommandOk DEF Project
<1>3. LoadedIndex \in Entries
  BY DEF TypeOK, LoadedIndex, NoEntries, Entries, SomeRun
<1>4. ASSUME NEW s \in found PROVE s \in Runs
  <2>1. CASE c.select = "new"  BY <2>1
  <2>2. CASE c.select = "continue"  BY <2>2, <1>2, <1>3 DEF Entries, SomeRun
  <2>3. CASE c.select = "session"  BY <2>3 DEF Sessions
  <2> QED  BY <2>1, <2>2, <2>3, <1>2
<1>5. procs[q].at = "start" /\ order' = order  BY DEF Resolve, At
<1>6. CASE /\ \E s \in found :
                procs' = [procs EXCEPT ![q].session = s, ![q].resumed = c.select # "new",
                                       ![q].at = "load"]
           /\ UNCHANGED lock
  <2>1. PICK s \in found :
          procs' = [procs EXCEPT ![q].session = s, ![q].resumed = c.select # "new",
                                 ![q].at = "load"]
    BY <1>6
  <2> DEFINE n == [procs[q] EXCEPT !.session = s, !.at = "load",
                                   !.resumed = c.select # "new"]
  <2>2. s \in Runs  BY <1>4
  <2>3. n \in Procs  BY <2>2, <1>1 DEF Procs, Steps, SomeRun
  <2>4. procs' = [procs EXCEPT ![q] = n]  BY <2>1, <1>1, ZenonT(60) DEF TypeOK, Procs
  <2>5. /\ c.select = "new" => s = q
        /\ c.select = "continue" => s = LoadedIndex[c.project] /\ s # None
        /\ c.select = "session" => journal[s] # <<>>
    <3>1. CASE c.select = "new"  BY <3>1
    <3>2. CASE c.select = "continue"  BY <3>2
    <3>3. CASE c.select = "session"  BY <3>3
    <3> QED  BY <3>1, <3>2, <3>3, <1>2
  <2> HIDE DEF n, found
  <2>6. Becomes(q, n)  BY <2>3, <2>4 DEF Becomes
  <2> QED  BY <2>2, <2>5, <2>6, <1>5, <1>6 DEF n, Project
<1>7. CASE Leave(q, procs, "no_session")
  BY <1>7, <1>5, LeaveStep
<1> HIDE DEF found
<1>8. \/ /\ \E s \in found :
              procs' = [procs EXCEPT ![q].session = s, ![q].resumed = c.select # "new",
                                     ![q].at = "load"]
         /\ UNCHANGED lock
      \/ Leave(q, procs, "no_session")
  BY DEF Resolve, found
<1> QED  BY <1>6, <1>7, <1>8

(* What a run reads of a transcript. *)
Readable(q) == IF procs[q].resumed THEN ResumeMessages(Session(q), Project(q)) ELSE <<>>
Overtaken(q) == lock # None /\ Session(lock) = Session(q)

LEMMA MessagesOk ==
  ASSUME TypeOK, NEW s \in Runs, NEW p
  PROVE  ResumeMessages(s, p) \in Seq(Runs)
<1>1. CASE transcripts[s] = None  BY <1>1 DEF ResumeMessages
<1>2. CASE transcripts[s] # None
  <2>1. transcripts[s] \in Transcripts  BY <1>2 DEF TypeOK
  <2>2. transcripts[s].rows \in Seq(Runs)  BY <2>1 DEF Transcripts
  <2> QED  BY <2>2 DEF ResumeMessages
<1> QED  BY <1>1, <1>2

LEMMA LoadStep ==
  ASSUME TypeOK, NEW q \in Runs, LoadTranscript(q), Session(q) \in Runs
  PROVE  /\ Becomes(q, [procs[q] EXCEPT !.at = "open", !.stale = Overtaken(q),
                                        !.read = Readable(q)])
         /\ procs[q].at = "load" /\ lock' = lock /\ order' = order
<1> DEFINE n == [procs[q] EXCEPT !.at = "open", !.stale = Overtaken(q), !.read = Readable(q)]
<1>1. procs[q] \in Procs  BY DEF TypeOK
<1>2. Readable(q) \in Seq(Runs)  BY MessagesOk DEF Readable
<1>3. Overtaken(q) \in BOOLEAN  BY DEF Overtaken
<1>4. n \in Procs  BY <1>1, <1>2, <1>3 DEF Procs, Steps
<1>5. procs' = [Goes(q, "open") EXCEPT ![q].stale = Overtaken(q), ![q].read = Readable(q)]
  BY DEF LoadTranscript, Overtaken, Readable
<1>6. procs' = [procs EXCEPT ![q] = n]  BY <1>5, <1>1 DEF Goes, TypeOK, Procs
<1>7. procs[q].at = "load" /\ lock' = lock /\ order' = order  BY DEF LoadTranscript, At
<1> QED  BY <1>4, <1>6, <1>7 DEF Becomes

(* A step of a run that has not opened the journal. *)
Prepares(q, n) ==
    /\ Becomes(q, n)
    /\ procs[q].at \in {"start", "load"} /\ n.at \in {"load", "open"}
    /\ procs[q].at = "start" => n.at = "load"
    /\ n.session \in Runs /\ (procs[q].at = "load" => n.session = Session(q))
    /\ n.command = procs[q].command /\ n.context = procs[q].context
    /\ n.outcome = procs[q].outcome /\ n.exit = procs[q].exit
    /\ n.indexed = procs[q].indexed /\ n.hit = procs[q].hit
    /\ lock' = lock /\ order' = order

LEMMA PrepareSteps ==
  ASSUME TypeOK, Exclusive, HeadlessRunAssumption, NEW q \in Runs,
         Resolve(q) \/ LoadTranscript(q)
  PROVE  Leaves(q, "no_session") \/ \E n \in Procs : Prepares(q, n)
<1>1. procs[q] \in Procs  BY DEF TypeOK
<1>2. CASE Resolve(q)
  <2>1. CASE Leaves(q, "no_session")  BY <2>1
  <2>2. ASSUME NEW s \in Runs,
               Becomes(q, [procs[q] EXCEPT !.session = s, !.at = "load",
                             !.resumed = procs[q].command.select # "new"]),
               lock' = lock, procs[q].at = "start"
        PROVE  \E n \in Procs : Prepares(q, n)
    <3> DEFINE n == [procs[q] EXCEPT !.session = s, !.at = "load",
                                     !.resumed = procs[q].command.select # "new"]
    <3>1. Becomes(q, n)  BY <2>2
    <3>2. /\ n.at = "load" /\ n.session = s
          /\ n.command = procs[q].command /\ n.context = procs[q].context
          /\ n.outcome = procs[q].outcome /\ n.exit = procs[q].exit
          /\ n.indexed = procs[q].indexed /\ n.hit = procs[q].hit
      BY <1>1 DEF Procs
    <3>3. order' = order  BY <1>2 DEF Resolve
    <3>4. n \in Procs  BY <3>1 DEF Becomes
    <3> HIDE DEF n
    <3>5. Prepares(q, n)  BY <2>2, <3>1, <3>2, <3>3 DEF Prepares
    <3> QED  BY <3>4, <3>5
  <2> QED  BY <1>2, <2>1, <2>2, ResolveStep
<1>3. CASE LoadTranscript(q)
  <2> DEFINE n == [procs[q] EXCEPT !.at = "open", !.stale = Overtaken(q), !.read = Readable(q)]
  <2>1. procs[q].at = "load"  BY <1>3 DEF LoadTranscript, At
  <2>2. Session(q) \in Runs  BY <2>1 DEF Exclusive, Placed
  <2>3. Becomes(q, n) /\ lock' = lock /\ order' = order  BY <1>3, <2>2, LoadStep
  <2>4. /\ n.at = "open" /\ n.session = Session(q)
        /\ n.command = procs[q].command /\ n.context = procs[q].context
        /\ n.outcome = procs[q].outcome /\ n.exit = procs[q].exit
        /\ n.indexed = procs[q].indexed /\ n.hit = procs[q].hit
    BY <1>1 DEF Procs, Session
  <2>5. n \in Procs  BY <2>3 DEF Becomes
  <2> HIDE DEF n
  <2>6. Prepares(q, n)  BY <2>1, <2>2, <2>3, <2>4 DEF Prepares
  <2> QED  BY <2>5, <2>6
<1> QED  BY <1>2, <1>3

LEMMA PreparingKeepsPlaces ==
  ASSUME TypeOK, Exclusive, HeadlessRunAssumption, NEW q \in Runs, NEW n, Prepares(q, n)
  PROVE  Exclusive'
<1>1. /\ procs'[q] = n /\ \A r \in Runs : r # q => procs'[r] = procs[r]
  BY Became DEF Prepares
<1>2. /\ \A a : Opened(a)' <=> Opened(a)
      /\ order' = order /\ lock' = lock
  BY OrderKept DEF Prepares
<1>3. Placed(q)  BY DEF Exclusive
<1>4. Placed(q)'
  BY <1>1, <1>2, <1>3 DEF Placed, Prepares, Session, Active, Filing
<1>5. ASSUME NEW r \in Runs, r # q PROVE Placed(r)'
  <2>1. Placed(r)  BY DEF Exclusive
  <2> QED  BY <1>1, <1>2, <1>5, <2>1 DEF Placed, Session
<1>6. LastOpened'
  <2>1. \A a, r : Precedes(a, r)' <=> Precedes(a, r)  BY <1>2, OrderKept
  <2>2. lock # None => lock # q
    BY <1>3 DEF Exclusive, LastOpened, Prepares, Active, Filing
  <2>3. lock \in SomeRun  BY DEF TypeOK
  <2> QED  BY <1>1, <1>2, <2>1, <2>2, <2>3 DEF LastOpened, Exclusive, SomeRun
<1>7. Distinct(order')  BY <1>2 DEF Exclusive
<1> QED  BY <1>4, <1>5, <1>6, <1>7 DEF Exclusive

Behind(r, q) == At(r, "open") /\ Session(r) = Session(q)

(* Run q opens the journal. *)
Enters(q) ==
    /\ lock = None /\ lock' = q /\ order' = Append(order, q)
    /\ procs' \in [Runs -> Procs]
    /\ procs'[q] = [procs[q] EXCEPT !.at = "turn", !.context = @ \o procs[q].read]
    /\ \A r \in Runs \ {q} :
          procs'[r] = IF Behind(r, q) THEN [procs[r] EXCEPT !.stale = TRUE] ELSE procs[r]
    /\ procs[q].at = "open" /\ ~Opened(q)

LEMMA OpenStep ==
  ASSUME TypeOK, Exclusive, HeadlessRunAssumption, NEW q \in Runs, OpenJournal(q)
  PROVE  Leaves(q, "locked") \/ Enters(q)
<1>1. procs[q].at = "open"  BY DEF OpenJournal, At
<1>2. CASE lock # None
  <2>1. Leave(q, procs, "locked") /\ order' = order  BY <1>2 DEF OpenJournal
  <2> QED  BY <2>1, <1>1, LeaveStep
<1>3. CASE lock = None
  <2> DEFINE n == [procs[q] EXCEPT !.at = "turn", !.context = @ \o procs[q].read]
             m(r) == IF Behind(r, q) THEN [procs[r] EXCEPT !.stale = TRUE] ELSE procs[r]
  <2>1. /\ lock' = q /\ order' = Append(order, q)
        /\ procs' = [r \in Runs |-> IF r = q THEN n ELSE m(r)]
    BY <1>3 DEF OpenJournal, Behind
  <2>2. procs[q] \in Procs  BY DEF TypeOK
  <2>3. procs[q].context \in Seq(Runs) /\ procs[q].read \in Seq(Runs)  BY <2>2 DEF Procs
  <2>4. procs[q].context \o procs[q].read \in Seq(Runs)  BY <2>3
  <2>5. n \in Procs  BY <2>2, <2>4 DEF Procs, Steps, Active
  <2>6. ASSUME NEW r \in Runs PROVE m(r) \in Procs
    <3>1. procs[r] \in Procs  BY DEF TypeOK
    <3> QED  BY <3>1 DEF Procs
  <2> HIDE DEF n, m
  <2>7. /\ procs' \in [Runs -> Procs] /\ procs'[q] = n
        /\ \A r \in Runs \ {q} : procs'[r] = m(r)
    BY <2>1, <2>5, <2>6
  <2>8. ~Opened(q)
    BY <1>1, <1>3, HeadlessRunAssumption DEF Exclusive, Placed, HeadlessRunAssumption
  <2> QED  BY <1>1, <1>3, <2>1, <2>7, <2>8 DEF Enters, n, m
<1> QED  BY <1>2, <1>3

(* Only what it has read is older for the others. *)
LEMMA EntersFields ==
  ASSUME TypeOK, NEW q \in Runs, Enters(q)
  PROVE  /\ \A r \in Runs \ {q} :
              LET n == procs'[r] IN
              /\ n.at = procs[r].at /\ n.command = procs[r].command
              /\ n.session = procs[r].session /\ n.resumed = procs[r].resumed
              /\ n.read = procs[r].read /\ n.context = procs[r].context
              /\ n.entries = procs[r].entries /\ n.outcome = procs[r].outcome
              /\ n.hit = procs[r].hit /\ n.indexed = procs[r].indexed
              /\ n.exit = procs[r].exit
              /\ n.stale = (procs[r].stale \/ Behind(r, q))
         /\ LET n == procs'[q] IN
            /\ n.at = "turn" /\ n.command = procs[q].command
            /\ n.session = procs[q].session /\ n.resumed = procs[q].resumed
            /\ n.read = procs[q].read /\ n.context = procs[q].context \o procs[q].read
            /\ n.entries = procs[q].entries /\ n.outcome = procs[q].outcome
            /\ n.hit = procs[q].hit /\ n.indexed = procs[q].indexed
            /\ n.exit = procs[q].exit /\ n.stale = procs[q].stale
<1>1. ASSUME NEW r \in Runs \ {q}
      PROVE  LET n == procs'[r] IN
              /\ n.at = procs[r].at /\ n.command = procs[r].command
              /\ n.session = procs[r].session /\ n.resumed = procs[r].resumed
              /\ n.read = procs[r].read /\ n.context = procs[r].context
              /\ n.entries = procs[r].entries /\ n.outcome = procs[r].outcome
              /\ n.hit = procs[r].hit /\ n.indexed = procs[r].indexed
              /\ n.exit = procs[r].exit
              /\ n.stale = (procs[r].stale \/ Behind(r, q))
  <2>1. procs[r] \in Procs  BY DEF TypeOK
  <2>2. procs'[r] = IF Behind(r, q) THEN [procs[r] EXCEPT !.stale = TRUE] ELSE procs[r]
    BY DEF Enters
  <2>3. CASE Behind(r, q)  BY <2>1, <2>2, <2>3 DEF Procs
  <2>4. CASE ~Behind(r, q)
    <3>1. procs[r].stale \in BOOLEAN  BY <2>1 DEF Procs
    <3> QED  BY <2>2, <2>4, <3>1
  <2> QED  BY <2>3, <2>4
<1>2. procs[q] \in Procs  BY DEF TypeOK
<1>3. procs'[q] = [procs[q] EXCEPT !.at = "turn", !.context = @ \o procs[q].read]
  BY DEF Enters
<1> QED  BY <1>1, <1>2, <1>3 DEF Procs

LEMMA EnteringKeepsPlaces ==
  ASSUME TypeOK, Exclusive, HeadlessRunAssumption, NEW q \in Runs, Enters(q)
  PROVE  Exclusive'
<1>1. /\ \A a : Opened(a)' <=> Opened(a) \/ a = q
      /\ \A a, b : Precedes(a, b)' <=> Precedes(a, b) \/ (Opened(a) /\ b = q)
      /\ Distinct(order')
  BY OrderGrows DEF Enters, TypeOK, Exclusive
<1>2. Placed(q)'
  <2>1. Placed(q)  BY DEF Exclusive
  <2> QED  BY <1>1, <2>1, EntersFields DEF Placed, Enters, Session, Active, Filing
<1>3. ASSUME NEW r \in Runs, r # q PROVE Placed(r)'
  <2>1. Placed(r)  BY DEF Exclusive
  <2>2. procs[r].at \notin Active  BY <2>1, HeadlessRunAssumption
    DEF Placed, Enters, HeadlessRunAssumption
  <2>3. Opened(r) => procs[r].at = "done"
    BY <2>1, HeadlessRunAssumption DEF Placed, Enters, HeadlessRunAssumption
  <2>4. /\ procs'[r].at = procs[r].at /\ procs'[r].session = procs[r].session
        /\ procs'[r].outcome = procs[r].outcome /\ procs'[r].exit = procs[r].exit
    <3>1. r \in Runs \ {q}  BY <1>3
    <3> QED  BY <3>1, EntersFields, Zenon
  <2>5. Opened(r)' <=> Opened(r)  BY <1>1, <1>3
  <2> QED  BY <2>1, <2>2, <2>3, <2>4, <2>5 DEF Placed, Session
<1>4. LastOpened'
  <2>1. \A a, b : Precedes(a, b) => Opened(a)
    BY OrderFacts DEF TypeOK, Exclusive
  <2>2. ~Opened(q) /\ lock' = q  BY DEF Enters
  <2>3. procs'[q].at = "turn"  BY EntersFields
  <2> QED  BY <1>1, <2>1, <2>2, <2>3 DEF LastOpened, Active
<1> QED  BY <1>1, <1>2, <1>3, <1>4 DEF Exclusive

(* What process r may do next. *)
Step(r) ==
    \/ Resolve(r) \/ LoadTranscript(r) \/ ConfigError(r) \/ OpenJournal(r)
    \/ Turn(r) \/ SavePlan(r) \/ PlanFails(r)
    \/ CreateAudit(r) \/ FillAudit(r) \/ CreateEvidence(r) \/ FillEvidence(r)
    \/ CreateTranscript(r) \/ FillTranscript(r)
    \/ LoadIndex(r) \/ CreateIndex(r) \/ FillIndex(r) \/ Exit(r)
    \/ FileFails(r) \/ Kill(r)

Codes == {"no_session", "config", "locked", "killed"}

LEMMA NextIsStep == Next <=> \E r \in Runs : Step(r)
BY DEF Next, Step

(* The steps that only move the process on, each with where it stands next. *)
LEMMA FilingStep ==
  ASSUME TypeOK, NEW q \in Runs,
         CreateAudit(q) \/ FillAudit(q) \/ CreateEvidence(q) \/ FillEvidence(q)
           \/ CreateTranscript(q) \/ FillTranscript(q) \/ CreateIndex(q)
  PROVE  \E to \in Active :
           /\ Works(q, [procs[q] EXCEPT !.at = to])
           /\ CreateAudit(q) => to = "audit_fill"
           /\ FillAudit(q) => to = AfterAudit(q)
           /\ CreateEvidence(q) => to = "evidence_fill"
           /\ FillEvidence(q) => to = "save"
           /\ CreateTranscript(q) => to = "save_fill"
           /\ FillTranscript(q) => to = "index"
           /\ CreateIndex(q) => to = "index_fill"
<1>1. procs[q] \in Procs  BY DEF TypeOK
<1> DEFINE to == CASE procs[q].at = "audit" -> "audit_fill"
                   [] procs[q].at = "audit_fill" -> AfterAudit(q)
                   [] procs[q].at = "evidence" -> "evidence_fill"
                   [] procs[q].at = "evidence_fill" -> "save"
                   [] procs[q].at = "save" -> "save_fill"
                   [] procs[q].at = "save_fill" -> "index"
                   [] procs[q].at = "index_create" -> "index_fill"
<1>2. /\ lock' = lock /\ order' = order
      /\ procs[q].at \in {"audit", "audit_fill", "evidence", "evidence_fill", "save",
                          "save_fill", "index_create"}
  BY DEF CreateAudit, FillAudit, CreateEvidence, FillEvidence, CreateTranscript,
         FillTranscript, CreateIndex, At
<1>3. to \in Active  BY <1>2, AfterAuditOk DEF Active, Filing
<1>4. procs' = Goes(q, to)
  BY DEF CreateAudit, FillAudit, CreateEvidence, FillEvidence, CreateTranscript,
         FillTranscript, CreateIndex, At
<1>5. /\ CreateAudit(q) => to = "audit_fill"
      /\ FillAudit(q) => to = AfterAudit(q)
      /\ CreateEvidence(q) => to = "evidence_fill"
      /\ FillEvidence(q) => to = "save"
      /\ CreateTranscript(q) => to = "save_fill"
      /\ FillTranscript(q) => to = "index"
      /\ CreateIndex(q) => to = "index_fill"
  BY DEF CreateAudit, FillAudit, CreateEvidence, FillEvidence, CreateTranscript,
         FillTranscript, CreateIndex, At
<1> HIDE DEF to
<1>6. procs[q].at \in Active  BY <1>2 DEF Active, Filing
<1>7. Works(q, [procs[q] EXCEPT !.at = to])  BY <1>2, <1>3, <1>4, <1>6, GoesStep
<1> QED  BY <1>3, <1>5, <1>7

LEMMA StepKinds ==
  ASSUME TypeOK, Exclusive, HeadlessRunAssumption, NEW q \in Runs, Step(q)
  PROVE  \/ \E n \in Procs : Works(q, n)
         \/ \E code \in Codes : Leaves(q, code)
         \/ Exit(q) /\ Leaves(q, procs[q].outcome)
         \/ \E n \in Procs : Prepares(q, n)
         \/ Enters(q)
<1> DEFINE Working == \E n \in Procs : Works(q, n)
           Leaving == \E code \in Codes : Leaves(q, code)
<1>1. ASSUME NEW n, Works(q, n) PROVE Working  BY <1>1 DEF Works, Becomes
<1>2. procs[q].at \in Active => Session(q) \in Runs
  BY DEF Exclusive, Placed, Active, Filing
<1> HIDE DEF Working
<1>3. CASE Resolve(q) \/ LoadTranscript(q)  BY <1>3, PrepareSteps DEF Codes
<1>4. CASE ConfigError(q)  BY <1>4, ConfigErrorStep DEF Codes
<1>5. CASE OpenJournal(q)  BY <1>5, OpenStep DEF Codes
<1>6. CASE Turn(q)
  <2>1. PICK outcome \in {"ok", "failed"},
             context \in {procs[q].context, Append(procs[q].context, q)} :
           Works(q, [procs[q] EXCEPT !.at = AfterTurn(q, outcome), !.outcome = outcome,
                                     !.context = context])
    BY <1>6, TurnStep
  <2> QED  BY <2>1, <1>1 DEF Working
<1>7. CASE SavePlan(q) \/ (PlanFails(q) /\ Mode(q) # "plan")
  <2>1. Working  BY <1>1, <1>7, SavePlanStep
  <2> QED  BY <2>1 DEF Working
<1>8. CASE PlanFails(q) /\ Mode(q) = "plan"
  <2>1. Leave(q, procs, "config") /\ order' = order /\ procs[q].at = "plan"
    BY <1>8 DEF PlanFails, At
  <2>2. Leaves(q, "config")  BY <2>1, LeaveStep
  <2> QED  BY <2>2 DEF Codes
<1>9. CASE CreateAudit(q) \/ FillAudit(q) \/ CreateEvidence(q) \/ FillEvidence(q)
           \/ CreateTranscript(q) \/ FillTranscript(q) \/ CreateIndex(q)
  <2>1. PICK to \in Active : Works(q, [procs[q] EXCEPT !.at = to])
    BY <1>9, FilingStep
  <2>2. Working  BY <2>1, <1>1
  <2> QED  BY <2>2 DEF Working
<1>10. CASE LoadIndex(q)
  <2>1. Session(q) \in Runs  BY <1>10, <1>2 DEF LoadIndex, At, Active, Filing
  <2>2. Working  BY <2>1, <1>1, <1>10, LoadIndexStep
  <2> QED  BY <2>2 DEF Working
<1>11. CASE FillIndex(q)
  <2>1. Working  BY <1>1, <1>11, FillIndexStep
  <2> QED  BY <2>1 DEF Working
<1>12. CASE Exit(q)  BY <1>12, ExitStep
<1>13. CASE FileFails(q)
  <2>1. Working  BY <1>1, <1>13, FileFailsStep
  <2> QED  BY <2>1 DEF Working
<1>14. CASE Kill(q)  BY <1>14, KillStep DEF Codes
<1> QED
  BY <1>3, <1>4, <1>5, <1>6, <1>7, <1>8, <1>9, <1>10, <1>11, <1>12, <1>13, <1>14 DEF Step

LEMMA ExclusiveStep ==
  ASSUME TypeOK, Exclusive, HeadlessRunAssumption, NEW q \in Runs, Step(q)
  PROVE  Exclusive'
<1>1. CASE \E n \in Procs : Works(q, n)  BY <1>1, WorkKeepsPlaces
<1>2. CASE \E code \in Codes : Leaves(q, code)
  <2>1. PICK code \in Codes : Leaves(q, code)  BY <1>2
  <2>2. code # "ok"  BY DEF Codes
  <2> QED  BY <2>1, <2>2, LeavingKeepsPlaces
<1>3. CASE Exit(q) /\ Leaves(q, procs[q].outcome)
  <2>1. procs[q].at \in Active  BY <1>3 DEF Exit, At, Active, Filing
  <2>2. Opened(q)
    BY <2>1 DEF Exclusive, Placed, LastOpened, HeadlessRunAssumption
  <2> QED  BY <1>3, <2>2, LeavingKeepsPlaces
<1>4. CASE \E n \in Procs : Prepares(q, n)  BY <1>4, PreparingKeepsPlaces
<1>5. CASE Enters(q)  BY <1>5, EnteringKeepsPlaces
<1> QED  BY <1>1, <1>2, <1>3, <1>4, <1>5, StepKinds

-----------------------------------------------------------------------------
(***************************************************************************)
(* The files hold what they are meant to hold.                             *)
(***************************************************************************)

(* A step of a run that writes a file knows its session. *)
LEMMA WriterKnows ==
  ASSUME TypeOK, Exclusive, HeadlessRunAssumption, NEW q \in Runs, procs[q].at \in Active
  PROVE  /\ Session(q) \in Runs /\ AuditPath(q) \in Paths /\ lock = q /\ Opened(q)
         /\ procs[q].exit = "None"
<1>1. Session(q) \in Runs  BY DEF Exclusive, Placed, Active, Filing
<1>2. lock = q  BY DEF Exclusive, Placed
<1>3. lock # None  BY <1>2 DEF HeadlessRunAssumption
<1> QED  BY <1>1, <1>2, <1>3, AuditPathOk DEF Exclusive, Placed, LastOpened, Active, Filing

LEMMA AuditSteps ==
  ASSUME TypeOK, Exclusive, Created, HeadlessRunAssumption, NEW q \in Runs, Step(q)
  PROVE  /\ audit' \in [Paths -> AuditLogs \union {None}]
         /\ \A path \in Paths : audit[path] # None => audit'[path] # None
         /\ CreateAudit(q) => audit'[AuditPath(q)] # None
         /\ audit' # audit => /\ procs[q].at \in Active
                              /\ \A path \in Paths : path # AuditPath(q) => audit'[path] = audit[path]
<1>1. audit \in [Paths -> AuditLogs \union {None}]  BY DEF TypeOK
<1>2. ASSUME NEW log \in AuditLogs, audit' = [audit EXCEPT ![AuditPath(q)] = log],
             procs[q].at \in Active
      PROVE  /\ audit' \in [Paths -> AuditLogs \union {None}]
             /\ \A path \in Paths : audit[path] # None => audit'[path] # None
             /\ audit'[AuditPath(q)] # None
             /\ procs[q].at \in Active
             /\ \A path \in Paths : path # AuditPath(q) => audit'[path] = audit[path]
  <2>1. AuditPath(q) \in Paths  BY <1>2, WriterKnows
  <2>2. log # None  BY DEF HeadlessRunAssumption
  <2> HIDE DEF AuditLogs, Paths
  <2> QED  BY <1>1, <1>2, <2>1, <2>2
<1>3. ASSUME NEW lines \in {"empty", "prefix", "torn", "whole"}
      PROVE  [by |-> q, lines |-> lines] \in AuditLogs
  BY DEF AuditLogs
<1>4. CASE CreateAudit(q)
  <2>1. [by |-> q, lines |-> "empty"] \in AuditLogs  BY <1>3
  <2>2. /\ audit' = [audit EXCEPT ![AuditPath(q)] = [by |-> q, lines |-> "empty"]]
        /\ procs[q].at \in Active
    BY <1>4 DEF CreateAudit, At, Active
  <2> QED  BY <1>2, <2>1, <2>2
<1>5. CASE FillAudit(q)
  <2>1. [by |-> q, lines |-> "whole"] \in AuditLogs  BY <1>3
  <2>2. /\ audit' = [audit EXCEPT ![AuditPath(q)] = [by |-> q, lines |-> "whole"]]
        /\ procs[q].at \in Active /\ ~CreateAudit(q)
    BY <1>5 DEF FillAudit, CreateAudit, At, Active
  <2> QED  BY <1>2, <2>1, <2>2
<1>6. CASE HalfAudit(q) /\ ~CreateAudit(q)
  <2>1. CASE At(q, "audit_fill")
    <3>1. PICK lines \in {"empty", "prefix", "torn"} :
            audit' = [audit EXCEPT ![AuditPath(q)].lines = lines]
      BY <1>6, <2>1 DEF HalfAudit
    <3>2. procs[q].at = "audit_fill" /\ procs[q].at \in Active  BY <2>1 DEF At, Active
    <3>3. AuditPath(q) \in Paths  BY <3>2, WriterKnows
    <3>4. audit[AuditPath(q)] \in AuditLogs  BY <3>2, <3>3, <1>1 DEF Created
    <3>5. [audit[AuditPath(q)] EXCEPT !.lines = lines] \in AuditLogs
      BY <3>4 DEF AuditLogs
    <3>6. audit' = [audit EXCEPT ![AuditPath(q)] = [audit[AuditPath(q)] EXCEPT !.lines = lines]]
      BY <3>1
    <3> QED  BY <1>2, <1>6, <3>2, <3>5, <3>6
  <2>2. CASE ~At(q, "audit_fill")
    <3>1. audit' = audit  BY <1>6, <2>2 DEF HalfAudit
    <3> QED  BY <3>1, <1>1, <1>6
  <2> QED  BY <2>1, <2>2
<1>7. CASE FileFails(q) \/ Kill(q)
  <2>1. CASE CreateAudit(q)  BY <2>1, <1>4
  <2>2. HalfAudit(q)  BY <1>7 DEF FileFails, Kill
  <2> QED  BY <2>1, <2>2, <1>6
<1>8. CASE audit' = audit
  <2>1. CASE CreateAudit(q)  BY <2>1, <1>4
  <2>2. CASE ~CreateAudit(q)  BY <2>2, <1>8, <1>1
  <2> QED  BY <2>1, <2>2
<1>9. CASE \/ Resolve(q) \/ LoadTranscript(q) \/ ConfigError(q) \/ OpenJournal(q)
           \/ Turn(q) \/ SavePlan(q) \/ PlanFails(q)
           \/ CreateEvidence(q) \/ FillEvidence(q)
           \/ CreateTranscript(q) \/ FillTranscript(q)
           \/ LoadIndex(q) \/ CreateIndex(q) \/ FillIndex(q) \/ Exit(q)
  <2>1. audit' = audit
    BY <1>9 DEF Resolve, LoadTranscript, ConfigError, OpenJournal, Turn, SavePlan, PlanFails,
      CreateEvidence, FillEvidence, CreateTranscript, FillTranscript, LoadIndex, CreateIndex,
      FillIndex, Exit
  <2> QED  BY <2>1, <1>8
<1> QED  BY <1>4, <1>5, <1>7, <1>9 DEF Step

LEMMA EvidenceSteps ==
  ASSUME TypeOK, Exclusive, Created, HeadlessRunAssumption, NEW q \in Runs, Step(q)
  PROVE  /\ evidence' \in [Runs -> EvidenceFiles \union {None}]
         /\ \A s \in Runs : evidence[s] # None => evidence'[s] # None
         /\ CreateEvidence(q) => evidence'[Session(q)] # None
         /\ evidence' # evidence => /\ procs[q].at \in Active
                                    /\ \A s \in Runs : s # Session(q) => evidence'[s] = evidence[s]
<1>1. evidence \in [Runs -> EvidenceFiles \union {None}]  BY DEF TypeOK
<1>2. ASSUME NEW file \in EvidenceFiles, evidence' = [evidence EXCEPT ![Session(q)] = file],
             procs[q].at \in Active
      PROVE  /\ evidence' \in [Runs -> EvidenceFiles \union {None}]
             /\ \A s \in Runs : evidence[s] # None => evidence'[s] # None
             /\ evidence'[Session(q)] # None
             /\ procs[q].at \in Active
             /\ \A s \in Runs : s # Session(q) => evidence'[s] = evidence[s]
  <2>1. Session(q) \in Runs  BY <1>2, WriterKnows
  <2>2. file # None  BY DEF HeadlessRunAssumption
  <2> HIDE DEF EvidenceFiles
  <2> QED  BY <1>1, <1>2, <2>1, <2>2
<1>3. CASE CreateEvidence(q)
  <2> DEFINE path == AuditPath(q)
             file == [by |-> q, whole |-> FALSE, path |-> path,
                      audit_chain_valid |-> ChainValid(path),
                      session_final_hash |-> audit[path]]
  <2>1. /\ evidence' = [evidence EXCEPT ![Session(q)] = file]
        /\ procs[q].at \in Active
    BY <1>3 DEF CreateEvidence, At, Active, Filing, LogOf
  <2>2. path \in Paths  BY <2>1, WriterKnows
  <2>3. audit[path] \in AuditLogs \union {None}  BY <2>2 DEF TypeOK
  <2>4. ChainValid(path) \in BOOLEAN  BY DEF ChainValid
  <2>5. file \in EvidenceFiles
    <3> HIDE DEF path
    <3> QED  BY <2>2, <2>3, <2>4 DEF EvidenceFiles
  <2> QED  BY <2>1, <2>5, <1>2
<1>4. CASE FillEvidence(q)
  <2>1. /\ evidence' = [evidence EXCEPT ![Session(q)].whole = TRUE]
        /\ procs[q].at = "evidence_fill" /\ ~CreateEvidence(q)
    BY <1>4 DEF FillEvidence, CreateEvidence, At
  <2>2. procs[q].at \in Active  BY <2>1 DEF Active, Filing
  <2>3. Session(q) \in Runs  BY <2>2, WriterKnows
  <2>4. evidence[Session(q)] \in EvidenceFiles  BY <2>1, <2>3, <1>1 DEF Created
  <2>5. [evidence[Session(q)] EXCEPT !.whole = TRUE] \in EvidenceFiles
    BY <2>4 DEF EvidenceFiles
  <2>6. evidence' = [evidence EXCEPT ![Session(q)] = [evidence[Session(q)] EXCEPT !.whole = TRUE]]
    BY <2>1
  <2> QED  BY <2>1, <2>2, <2>5, <2>6, <1>2
<1>5. CASE evidence' = evidence
  <2>1. CASE CreateEvidence(q)  BY <2>1, <1>3
  <2>2. CASE ~CreateEvidence(q)  BY <2>2, <1>5, <1>1
  <2> QED  BY <2>1, <2>2
<1>6. CASE ~CreateEvidence(q) /\ ~FillEvidence(q)
  <2>1. evidence' = evidence
    BY <1>6 DEF Step, Resolve, LoadTranscript, ConfigError, OpenJournal, Turn, SavePlan,
      PlanFails, CreateAudit, FillAudit, CreateTranscript, FillTranscript, LoadIndex,
      CreateIndex, FillIndex, Exit, FileFails, Kill
  <2> QED  BY <2>1, <1>5
<1> QED  BY <1>3, <1>4, <1>6

LEMMA TranscriptSteps ==
  ASSUME TypeOK, Exclusive, Created, HeadlessRunAssumption, NEW q \in Runs, Step(q)
  PROVE  /\ transcripts' \in [Runs -> Transcripts \union {None}]
         /\ \A s \in Runs : transcripts[s] # None => transcripts'[s] # None
         /\ CreateTranscript(q) => transcripts'[Session(q)] # None
         /\ transcripts' # transcripts =>
              /\ procs[q].at \in {"save", "save_fill"}
              /\ \A s \in Runs : s # Session(q) => transcripts'[s] = transcripts[s]
<1>1. transcripts \in [Runs -> Transcripts \union {None}]  BY DEF TypeOK
<1>2. ASSUME NEW file \in Transcripts, transcripts' = [transcripts EXCEPT ![Session(q)] = file],
             procs[q].at \in {"save", "save_fill"}
      PROVE  /\ transcripts' \in [Runs -> Transcripts \union {None}]
             /\ \A s \in Runs : transcripts[s] # None => transcripts'[s] # None
             /\ transcripts'[Session(q)] # None
             /\ procs[q].at \in {"save", "save_fill"}
             /\ \A s \in Runs : s # Session(q) => transcripts'[s] = transcripts[s]
  <2>1. Session(q) \in Runs  BY <1>2, WriterKnows DEF Active, Filing
  <2>2. file # None  BY DEF HeadlessRunAssumption
  <2> HIDE DEF Transcripts
  <2> QED  BY <1>1, <1>2, <2>1, <2>2
<1>3. CASE CreateTranscript(q)
  <2> DEFINE file == [whole |-> FALSE, project |-> Project(q), rows |-> procs[q].context]
  <2>1. /\ transcripts' = [transcripts EXCEPT ![Session(q)] = file]
        /\ procs[q].at = "save"
    BY <1>3 DEF CreateTranscript, At
  <2>2. procs[q] \in Procs  BY DEF TypeOK
  <2>3. procs[q].context \in Seq(Runs)  BY <2>2 DEF Procs
  <2>4. file \in Transcripts  BY <2>3, CommandOk DEF Transcripts
  <2> QED  BY <2>1, <2>4, <1>2
<1>4. CASE FillTranscript(q)
  <2>1. /\ transcripts' = [transcripts EXCEPT ![Session(q)].whole = TRUE]
        /\ procs[q].at = "save_fill" /\ ~CreateTranscript(q)
    BY <1>4 DEF FillTranscript, CreateTranscript, At
  <2>2. procs[q].at \in Active  BY <2>1 DEF Active, Filing
  <2>3. Session(q) \in Runs  BY <2>2, WriterKnows
  <2>4. transcripts[Session(q)] \in Transcripts  BY <2>1, <2>3, <1>1 DEF Created
  <2>5. [transcripts[Session(q)] EXCEPT !.whole = TRUE] \in Transcripts
    BY <2>4 DEF Transcripts
  <2>6. transcripts' = [transcripts EXCEPT ![Session(q)] =
                          [transcripts[Session(q)] EXCEPT !.whole = TRUE]]
    BY <2>1
  <2> QED  BY <2>1, <2>5, <2>6, <1>2
<1>5. CASE transcripts' = transcripts
  <2>1. CASE CreateTranscript(q)  BY <2>1, <1>3
  <2>2. CASE ~CreateTranscript(q)  BY <2>2, <1>5, <1>1
  <2> QED  BY <2>1, <2>2
<1>6. CASE ~CreateTranscript(q) /\ ~FillTranscript(q)
  <2>1. transcripts' = transcripts
    BY <1>6 DEF Step, Resolve, LoadTranscript, ConfigError, OpenJournal, Turn, SavePlan,
      PlanFails, CreateAudit, FillAudit, CreateEvidence, FillEvidence, LoadIndex,
      CreateIndex, FillIndex, Exit, FileFails, Kill
  <2> QED  BY <2>1, <1>5
<1> QED  BY <1>3, <1>4, <1>6


LEMMA OtherFiles ==
  ASSUME TypeOK, Exclusive, HeadlessRunAssumption, NEW q \in Runs, Step(q)
  PROVE  /\ journal' \in [Runs -> Seq(Runs)]
         /\ index' \in [whole : BOOLEAN, entries : Entries]
         /\ saves' \subseteq Runs /\ torn' \in BOOLEAN
<1>1. /\ journal \in [Runs -> Seq(Runs)]
      /\ index \in [whole : BOOLEAN, entries : Entries]
      /\ saves \subseteq Runs /\ torn \in BOOLEAN /\ procs[q] \in Procs
  BY DEF TypeOK
<1>2. journal' \in [Runs -> Seq(Runs)]
  <2>1. CASE Turn(q)
    <3>1. procs[q].at \in Active  BY <2>1 DEF Turn, At, Active
    <3>2. Session(q) \in Runs  BY <3>1, WriterKnows
    <3>3. journal' = [journal EXCEPT ![Session(q)] = Append(journal[Session(q)], q)]
      BY <2>1 DEF Turn
    <3>4. Append(journal[Session(q)], q) \in Seq(Runs)  BY <1>1, <3>2
    <3> QED  BY <1>1, <3>2, <3>3, <3>4
  <2>2. CASE ~Turn(q)
    <3>1. journal' = journal
      BY <2>2 DEF Step, Resolve, LoadTranscript, ConfigError, OpenJournal, SavePlan, PlanFails,
        CreateAudit, FillAudit, CreateEvidence, FillEvidence, CreateTranscript, FillTranscript,
        LoadIndex, CreateIndex, FillIndex, Exit, FileFails, Kill
    <3> QED  BY <1>1, <3>1
  <2> QED  BY <2>1, <2>2
<1>3. index' \in [whole : BOOLEAN, entries : Entries]
  <2>1. CASE CreateIndex(q)
    <3>1. index' = [whole |-> FALSE, entries |-> procs[q].entries]
      BY <2>1 DEF CreateIndex
    <3>2. procs[q].entries \in Entries  BY <1>1 DEF Procs
    <3> QED  BY <3>1, <3>2
  <2>2. CASE FillIndex(q)
    <3>1. index' = [index EXCEPT !.whole = TRUE]  BY <2>2 DEF FillIndex
    <3> QED  BY <1>1, <3>1
  <2>3. CASE ~CreateIndex(q) /\ ~FillIndex(q)
    <3>1. index' = index
      BY <2>3 DEF Step, Resolve, LoadTranscript, ConfigError, OpenJournal, Turn, SavePlan,
        PlanFails, CreateAudit, FillAudit, CreateEvidence, FillEvidence, CreateTranscript,
        FillTranscript, LoadIndex, Exit, FileFails, Kill
    <3> QED  BY <1>1, <3>1
  <2> QED  BY <2>1, <2>2, <2>3
<1>4. saves' \subseteq Runs
  <2>1. saves' = saves \/ saves' = saves \union {q}
    BY DEF Step, Resolve, LoadTranscript, ConfigError, OpenJournal, Turn, SavePlan, PlanFails,
      CreateAudit, FillAudit, CreateEvidence, FillEvidence, CreateTranscript, FillTranscript,
      LoadIndex, CreateIndex, FillIndex, Exit, FileFails, Kill
  <2> QED  BY <1>1, <2>1
<1>5. torn' \in BOOLEAN
  <2>1. torn' = torn \/ torn' = (torn \/ At(q, "index_fill"))
    BY DEF Step, Resolve, LoadTranscript, ConfigError, OpenJournal, Turn, SavePlan, PlanFails,
      CreateAudit, FillAudit, CreateEvidence, FillEvidence, CreateTranscript, FillTranscript,
      LoadIndex, CreateIndex, FillIndex, Exit, FileFails, Kill
  <2> QED  BY <1>1, <2>1
<1> QED  BY <1>2, <1>3, <1>4, <1>5

LEMMA TypeStep ==
  ASSUME TypeOK, Exclusive, Created, HeadlessRunAssumption, NEW q \in Runs, Step(q)
  PROVE  TypeOK'
<1>1. procs' \in [Runs -> Procs] /\ lock' \in SomeRun /\ order' \in Seq(Runs)
  <2>1. lock \in SomeRun /\ order \in Seq(Runs)  BY DEF TypeOK
  <2>2. CASE \E n \in Procs : Works(q, n)  BY <2>1, <2>2, Became DEF Works
  <2>3. CASE \E code : Leaves(q, code)
    BY <2>1, <2>3, Became DEF Leaves, SomeRun
  <2>4. CASE \E n \in Procs : Prepares(q, n)  BY <2>1, <2>4, Became DEF Prepares
  <2>5. CASE Enters(q)
    <3>1. order' \in Seq(Runs)  BY <2>1, <2>5, OrderGrows DEF Enters
    <3> QED  BY <2>5, <3>1 DEF Enters, SomeRun
  <2> QED  BY <2>2, <2>3, <2>4, <2>5, StepKinds
<1>2. audit' \in [Paths -> AuditLogs \union {None}]  BY AuditSteps
<1>3. evidence' \in [Runs -> EvidenceFiles \union {None}]  BY EvidenceSteps
<1>4. transcripts' \in [Runs -> Transcripts \union {None}]  BY TranscriptSteps
<1> QED  BY <1>1, <1>2, <1>3, <1>4, OtherFiles DEF TypeOK

(* The processes that a step of q leaves where they are. *)
LEMMA OthersStay ==
  ASSUME TypeOK, Exclusive, HeadlessRunAssumption, NEW q \in Runs, Step(q),
         NEW r \in Runs, r # q
  PROVE  /\ procs'[r].at = procs[r].at /\ procs'[r].command = procs[r].command
         /\ procs'[r].session = procs[r].session /\ procs'[r].resumed = procs[r].resumed
         /\ procs'[r].read = procs[r].read /\ procs'[r].context = procs[r].context
         /\ procs'[r].entries = procs[r].entries /\ procs'[r].outcome = procs[r].outcome
         /\ procs'[r].hit = procs[r].hit /\ procs'[r].indexed = procs[r].indexed
         /\ procs'[r].exit = procs[r].exit
         /\ procs[r].stale => procs'[r].stale
         /\ procs'[r].stale # procs[r].stale => Enters(q) /\ Behind(r, q)
<1>1. CASE procs'[r] = procs[r]  BY <1>1
<1>2. CASE \E n \in Procs : Works(q, n)  BY <1>1, <1>2, Became DEF Works
<1>3. CASE \E code : Leaves(q, code)  BY <1>1, <1>3, Became DEF Leaves
<1>4. CASE \E n \in Procs : Prepares(q, n)  BY <1>1, <1>4, Became DEF Prepares
<1>5. CASE Enters(q)
  <2>1. r \in Runs \ {q} /\ procs[r].stale \in BOOLEAN  BY DEF TypeOK, Procs
  <2>2. /\ procs'[r].at = procs[r].at /\ procs'[r].command = procs[r].command
        /\ procs'[r].session = procs[r].session /\ procs'[r].resumed = procs[r].resumed
        /\ procs'[r].read = procs[r].read /\ procs'[r].context = procs[r].context
        /\ procs'[r].entries = procs[r].entries /\ procs'[r].outcome = procs[r].outcome
        /\ procs'[r].hit = procs[r].hit /\ procs'[r].indexed = procs[r].indexed
        /\ procs'[r].exit = procs[r].exit
        /\ procs'[r].stale = (procs[r].stale \/ Behind(r, q))
    BY <2>1, <1>5, EntersFields, Zenon
  <2> QED  BY <1>5, <2>1, <2>2
<1> QED  BY <1>2, <1>3, <1>4, <1>5, StepKinds

(* What q itself keeps: its command, and its session once it is chosen. *)
LEMMA ItselfStays ==
  ASSUME TypeOK, Exclusive, HeadlessRunAssumption, NEW q \in Runs, Step(q)
  PROVE  /\ procs'[q].command = procs[q].command
         /\ procs[q].at # "start" => procs'[q].session = procs[q].session
<1>1. procs[q] \in Procs  BY DEF TypeOK
<1>2. CASE \E n \in Procs : Works(q, n)  BY <1>2, Became DEF Works, Same
<1>3. CASE \E code : Leaves(q, code)
  <2>1. PICK code : Leaves(q, code)  BY <1>3
  <2>2. procs'[q] = [procs[q] EXCEPT !.at = "done", !.exit = code]
    BY <2>1, Became DEF Leaves
  <2> QED  BY <2>2, <1>1 DEF Procs
<1>4. CASE \E n \in Procs : Prepares(q, n)  BY <1>4, Became DEF Prepares, Session
<1>5. CASE Enters(q)  BY <1>5, EntersFields
<1> QED  BY <1>2, <1>3, <1>4, <1>5, StepKinds

LEMMA PathsStay ==
  ASSUME TypeOK, Exclusive, HeadlessRunAssumption, NEW q \in Runs, Step(q)
  PROVE  \A r \in Runs : /\ Project(r)' = Project(r) /\ Mode(r)' = Mode(r)
                         /\ r # q \/ procs[q].at # "start" =>
                               Session(r)' = Session(r) /\ AuditPath(r)' = AuditPath(r)
<1>1. ASSUME NEW r \in Runs
      PROVE  /\ procs'[r].command = procs[r].command
             /\ r # q \/ procs[q].at # "start" => procs'[r].session = procs[r].session
  BY OthersStay, ItselfStays
<1> QED  BY <1>1 DEF Project, Mode, Session, AuditPath

(* A process gets to the filling of a file by creating it. *)
LEMMA FillsWhatItCreates ==
  ASSUME TypeOK, Exclusive, HeadlessRunAssumption, NEW q \in Runs, Step(q)
  PROVE  /\ procs'[q].at = "audit_fill" => CreateAudit(q)
         /\ procs'[q].at = "evidence_fill" => CreateEvidence(q)
         /\ procs'[q].at = "save_fill" => CreateTranscript(q)
         /\ procs'[q].at = "index_fill" => CreateIndex(q)
         /\ procs'[q].at = "index_create" => LoadIndex(q)
<1>1. procs[q] \in Procs  BY DEF TypeOK
<1> DEFINE Filling == {"audit_fill", "evidence_fill", "save_fill", "index_fill", "index_create"}
<1>2. CASE procs'[q].at \notin Filling  BY <1>2
<1>3. ASSUME NEW n, Works(q, n), n.at \notin Filling PROVE procs'[q].at \notin Filling
  BY <1>3, Became DEF Works
<1>4. CASE Turn(q)
  <2>1. PICK outcome \in {"ok", "failed"},
             context \in {procs[q].context, Append(procs[q].context, q)} :
           Works(q, [procs[q] EXCEPT !.at = AfterTurn(q, outcome), !.outcome = outcome,
                                     !.context = context])
    BY <1>4, TurnStep
  <2>2. [procs[q] EXCEPT !.at = AfterTurn(q, outcome), !.outcome = outcome,
                         !.context = context].at \in {"plan", "audit"}
    BY <1>1 DEF Procs, AfterTurn
  <2> QED  BY <1>2, <1>3, <2>1, <2>2
<1>5. CASE SavePlan(q) \/ (PlanFails(q) /\ Mode(q) # "plan")
  <2>1. Works(q, [procs[q] EXCEPT !.at = IF Mode(q) = "plan" THEN "audit" ELSE "open",
                                  !.plan = TRUE])
    BY <1>5, SavePlanStep
  <2>2. [procs[q] EXCEPT !.at = IF Mode(q) = "plan" THEN "audit" ELSE "open",
                         !.plan = TRUE].at \in {"audit", "open"}
    BY <1>1 DEF Procs
  <2> QED  BY <1>2, <1>3, <2>1, <2>2
<1>6. CASE CreateAudit(q) \/ FillAudit(q) \/ CreateEvidence(q) \/ FillEvidence(q)
           \/ CreateTranscript(q) \/ FillTranscript(q) \/ CreateIndex(q)
  <2>1. PICK to \in Active :
           /\ Works(q, [procs[q] EXCEPT !.at = to])
           /\ FillAudit(q) => to = AfterAudit(q)
           /\ FillEvidence(q) => to = "save"
           /\ FillTranscript(q) => to = "index"
           /\ CreateAudit(q) => to = "audit_fill"
           /\ CreateEvidence(q) => to = "evidence_fill"
           /\ CreateTranscript(q) => to = "save_fill"
           /\ CreateIndex(q) => to = "index_fill"
    BY <1>6, FilingStep
  <2>2. [procs[q] EXCEPT !.at = to].at = to  BY <1>1 DEF Procs
  <2>3. procs'[q].at = to  BY <2>1, <2>2, Became DEF Works
  <2> QED  BY <1>6, <2>1, <2>3, AfterAuditOk
<1>7. CASE LoadIndex(q)
  <2>1. procs[q].at = "index" /\ procs[q].at \in Active
    BY <1>7 DEF LoadIndex, At, Active, Filing
  <2>2. procs' = [Goes(q, "index_create") EXCEPT
                   ![q].entries = [LoadedIndex EXCEPT ![Project(q)] = Session(q)]]
    BY <1>7 DEF LoadIndex
  <2>3. procs'[q].at = "index_create"  BY <2>2, <1>1 DEF Goes, TypeOK, Procs
  <2> QED  BY <1>7, <2>3
<1>8. CASE FillIndex(q)
  <2>1. [procs[q] EXCEPT !.at = "exit", !.indexed = TRUE].at = "exit"  BY <1>1 DEF Procs
  <2> QED  BY <1>2, <1>3, <1>8, <2>1, FillIndexStep
<1>9. CASE FileFails(q)
  <2>1. [procs[q] EXCEPT !.at = AfterFile(q), !.hit = TRUE].at = AfterFile(q)
    BY <1>1 DEF Procs
  <2>2. AfterFile(q) \notin Filling  BY <1>9, FileFailsStep
  <2> QED  BY <1>2, <1>3, <1>9, <2>1, <2>2, FileFailsStep
<1>10. CASE \E code : Leaves(q, code)
  <2>1. PICK code : Leaves(q, code)  BY <1>10
  <2>2. procs'[q] = [procs[q] EXCEPT !.at = "done", !.exit = code]
    BY <2>1, Became DEF Leaves
  <2>3. procs'[q].at = "done"  BY <2>2, <1>1 DEF Procs
  <2> QED  BY <1>2, <2>3
<1>11. CASE \E n \in Procs : Prepares(q, n)  BY <1>2, <1>11, Became DEF Prepares
<1>12. CASE Enters(q)  BY <1>2, <1>12, EntersFields
<1>13. CASE Resolve(q) \/ LoadTranscript(q)  BY <1>10, <1>11, <1>13, PrepareSteps
<1>14. CASE ConfigError(q)  BY <1>10, <1>14, ConfigErrorStep
<1>15. CASE OpenJournal(q)  BY <1>10, <1>12, <1>15, OpenStep
<1>16. CASE PlanFails(q) /\ Mode(q) = "plan"
  <2>1. Leave(q, procs, "config") /\ order' = order /\ procs[q].at = "plan"
    BY <1>16 DEF PlanFails, At
  <2>2. Leaves(q, "config")  BY <2>1, LeaveStep
  <2> QED  BY <2>2, <1>10
<1>17. CASE Exit(q)  BY <1>10, <1>17, ExitStep
<1>18. CASE Kill(q)  BY <1>10, <1>18, KillStep
<1> QED
  BY <1>4, <1>5, <1>6, <1>7, <1>8, <1>9, <1>13, <1>14, <1>15, <1>16, <1>17, <1>18 DEF Step

LEMMA CreatedStep ==
  ASSUME TypeOK, Exclusive, Created, HeadlessRunAssumption, NEW q \in Runs, Step(q)
  PROVE  Created'
<1> SUFFICES ASSUME NEW r \in Runs,
                    procs'[r].at \in {"audit_fill", "evidence_fill", "save_fill"}
             PROVE  /\ procs'[r].at = "audit_fill" => audit'[AuditPath(r)'] # None
                    /\ procs'[r].at = "evidence_fill" => evidence'[Session(r)'] # None
                    /\ procs'[r].at = "save_fill" => transcripts'[Session(r)'] # None
  BY DEF Created
<1>1. procs'[q].at \in {"audit_fill", "evidence_fill", "save_fill"} => procs[q].at # "start"
  BY FillsWhatItCreates DEF CreateAudit, CreateEvidence, CreateTranscript, At
<1>2. Session(r)' = Session(r) /\ AuditPath(r)' = AuditPath(r)
  BY <1>1, PathsStay
<1>3. CASE r = q
  BY <1>2, <1>3, FillsWhatItCreates, AuditSteps, EvidenceSteps, TranscriptSteps
<1>4. CASE r # q
  <2>1. procs'[r].at = procs[r].at  BY <1>4, OthersStay
  <2>2. procs[r].at \in Active  BY <2>1 DEF Active, Filing
  <2>3. Session(r) \in Runs /\ AuditPath(r) \in Paths  BY <2>2, WriterKnows
  <2>4. /\ procs[r].at = "audit_fill" => audit[AuditPath(r)] # None
        /\ procs[r].at = "evidence_fill" => evidence[Session(r)] # None
        /\ procs[r].at = "save_fill" => transcripts[Session(r)] # None
    BY DEF Created
  <2> QED  BY <1>2, <2>1, <2>3, <2>4, AuditSteps, EvidenceSteps, TranscriptSteps
<1> QED  BY <1>3, <1>4
(* An evidence file, field by field. *)
LEMMA EvidenceFields ==
  ASSUME NEW r, NEW whole \in BOOLEAN
  PROVE  /\ Evidence(r, whole).by = r /\ Evidence(r, whole).whole = whole
         /\ Evidence(r, whole).path = AuditPath(r)
         /\ Evidence(r, whole).audit_chain_valid = TRUE
         /\ Evidence(r, whole).session_final_hash = Log(r)
         /\ \A filled \in BOOLEAN :
              [Evidence(r, whole) EXCEPT !.whole = filled] = Evidence(r, filled)
         /\ r \in Runs /\ AuditPath(r) \in Paths /\ Log(r) \in AuditLogs =>
               Evidence(r, whole) \in EvidenceFiles
<1> DEFINE yes == TRUE
           path == AuditPath(r)
           log == Log(r)
           Record(w) == [by |-> r, whole |-> w, path |-> path,
                         audit_chain_valid |-> yes, session_final_hash |-> log]
<1>1. \A w \in BOOLEAN : Evidence(r, w) = Record(w)  BY DEF Evidence
<1>2. yes = TRUE /\ yes \in BOOLEAN /\ path = AuditPath(r) /\ log = Log(r)  OBVIOUS
<1> HIDE DEF yes, path, log
<1>3. /\ Record(whole).by = r /\ Record(whole).whole = whole
      /\ Record(whole).path = path
      /\ Record(whole).audit_chain_valid = yes
      /\ Record(whole).session_final_hash = log
  OBVIOUS
<1>4. \A filled \in BOOLEAN : [Record(whole) EXCEPT !.whole = filled] = Record(filled)
  OBVIOUS
<1>5. r \in Runs /\ path \in Paths /\ log \in AuditLogs => Record(whole) \in EvidenceFiles
  BY <1>2 DEF EvidenceFiles
<1> HIDE DEF Record
<1>6. Evidence(r, whole) = Record(whole)  BY <1>1
<1>7. ASSUME NEW filled \in BOOLEAN
      PROVE  [Evidence(r, whole) EXCEPT !.whole = filled] = Evidence(r, filled)
  BY <1>1, <1>4, <1>6
<1> QED  BY <1>2, <1>3, <1>5, <1>6, <1>7

(* What has been opened stays opened, in the same order. *)
LEMMA OrderStep ==
  ASSUME TypeOK, Exclusive, HeadlessRunAssumption, NEW q \in Runs, Step(q)
  PROVE  \/ /\ Enters(q)
            /\ \A a : Opened(a)' <=> Opened(a) \/ a = q
            /\ \A a, b : Precedes(a, b)' <=> Precedes(a, b) \/ (Opened(a) /\ b = q)
         \/ /\ \A a : Opened(a)' <=> Opened(a)
            /\ \A a, b : Precedes(a, b)' <=> Precedes(a, b)
            /\ ~Enters(q)
<1>1. CASE order' = order
  <2>1. ~Enters(q)
    <3>1. order # Append(order, q)
      <4>1. order \in Seq(Runs)  BY DEF TypeOK
      <4>2. Len(Append(order, q)) = Len(order) + 1 /\ Len(order) \in Nat  BY <4>1
      <4> QED  BY <4>2
    <3> QED  BY <1>1, <3>1 DEF Enters
  <2> QED  BY <1>1, <2>1, OrderKept
<1>2. CASE Enters(q)  BY <1>2, OrderGrows DEF Enters, TypeOK
<1> QED  BY <1>1, <1>2, StepKinds DEF Works, Leaves, Prepares

(* The holder of the journal comes after every other run that opened it. *)
LEMMA HolderIsLast ==
  ASSUME TypeOK, Exclusive, HeadlessRunAssumption, NEW q \in Runs, procs[q].at \in Active,
         NEW r \in Runs, Opened(r), r # q
  PROVE  q \in OpenedSince(r)
<1>1. Opened(q) /\ lock = q /\ lock # None
  BY WriterKnows DEF HeadlessRunAssumption
<1>2. ~Precedes(q, r)  BY <1>1 DEF Exclusive, LastOpened
<1> QED  BY <1>1, <1>2, OrderFacts DEF TypeOK, Exclusive, OpenedSince

LEMMA UndisturbedBefore ==
  ASSUME TypeOK, Exclusive, HeadlessRunAssumption, NEW q \in Runs, Step(q),
         NEW r \in Runs, Opened(r), Undisturbed(r)', procs[r].hit => procs'[r].hit
  PROVE  Undisturbed(r)
<1>1. ASSUME NEW o \in OpenedSince(r)
      PROVE  Session(o) # Session(r) /\ AuditPath(o) # AuditPath(r)
  <2>1. o \in Runs /\ Precedes(r, o)  BY <1>1 DEF OpenedSince
  <2>2. Opened(o)  BY <2>1, OrderFacts DEF TypeOK, Exclusive
  <2>3. procs[o].at # "start" /\ procs[r].at # "start"  BY <2>1, <2>2 DEF Exclusive, Placed
  <2>4. /\ Session(o)' = Session(o) /\ AuditPath(o)' = AuditPath(o)
        /\ Session(r)' = Session(r) /\ AuditPath(r)' = AuditPath(r)
    BY <2>1, <2>3, PathsStay
  <2>5. Precedes(r, o)'  BY <2>1, OrderStep
  <2>6. o \in OpenedSince(r)'  BY <2>1, <2>5 DEF OpenedSince
  <2> QED  BY <2>4, <2>6 DEF Undisturbed
<1>2. ~procs[r].hit  BY DEF Undisturbed
<1> QED  BY <1>1, <1>2 DEF Undisturbed

(* Another run that writes where r wrote disturbs it. *)
LEMMA OthersFilesStay ==
  ASSUME TypeOK, Exclusive, Created, HeadlessRunAssumption, NEW q \in Runs, Step(q),
         NEW r \in Runs, r # q, Opened(r), Filed(r)
  PROVE  Filed(r)'
<1> SUFFICES ASSUME Undisturbed(r)', procs'[r].outcome = "ok"
             PROVE  /\ procs'[r].at \in Filing \/ procs'[r].exit = "ok" =>
                          audit'[AuditPath(r)'] = Log(r)
                    /\ procs'[r].at = "evidence_fill" =>
                          evidence'[Session(r)'] = Evidence(r, FALSE)'
                    /\ procs'[r].at \in Filing \ {"evidence", "evidence_fill"}
                         \/ procs'[r].exit = "ok" =>
                          evidence'[Session(r)'] = Evidence(r, TRUE)'
  BY DEF Filed, Log
<1>1. /\ procs'[r].at = procs[r].at /\ procs'[r].exit = procs[r].exit
      /\ procs'[r].outcome = procs[r].outcome /\ procs'[r].hit = procs[r].hit
  BY OthersStay
<1>2. Session(r)' = Session(r) /\ AuditPath(r)' = AuditPath(r)  BY PathsStay
<1>3. Undisturbed(r)  BY <1>1, UndisturbedBefore
<1>4. Session(r) \in Runs /\ AuditPath(r) \in Paths
  BY AuditPathOk DEF Exclusive, Placed
<1>5. audit'[AuditPath(r)] = audit[AuditPath(r)] /\ evidence'[Session(r)] = evidence[Session(r)]
  <2>1. CASE procs[q].at \in Active
    <3>1. q \in OpenedSince(r)  BY <2>1, HolderIsLast
    <3>2. Session(q) # Session(r) /\ AuditPath(q) # AuditPath(r)
      BY <3>1, <1>3 DEF Undisturbed
    <3> QED  BY <3>2, <1>4, AuditSteps, EvidenceSteps
  <2>2. CASE procs[q].at \notin Active
    BY <2>2, AuditSteps, EvidenceSteps
  <2> QED  BY <2>1, <2>2
<1>6. Evidence(r, FALSE)' = Evidence(r, FALSE) /\ Evidence(r, TRUE)' = Evidence(r, TRUE)
  BY <1>2 DEF Evidence, Log
<1> QED  BY <1>1, <1>2, <1>3, <1>5, <1>6 DEF Filed

(* What the run itself writes. *)
LEMMA OwnFilesHold ==
  ASSUME TypeOK, Exclusive, Created, HeadlessRunAssumption, NEW q \in Runs, Step(q),
         Filed(q)
  PROVE  Filed(q)'
<1> SUFFICES ASSUME Opened(q)', Undisturbed(q)', procs'[q].outcome = "ok"
             PROVE  /\ procs'[q].at \in Filing \/ procs'[q].exit = "ok" =>
                          audit'[AuditPath(q)'] = Log(q)
                    /\ procs'[q].at = "evidence_fill" =>
                          evidence'[Session(q)'] = Evidence(q, FALSE)'
                    /\ procs'[q].at \in Filing \ {"evidence", "evidence_fill"}
                         \/ procs'[q].exit = "ok" =>
                          evidence'[Session(q)'] = Evidence(q, TRUE)'
  BY DEF Filed, Log
<1>1. procs[q] \in Procs /\ ~procs'[q].hit  BY DEF TypeOK, Undisturbed
<1>2. CASE procs'[q].at \notin Filing /\ procs'[q].exit # "ok"
  <2>1. procs'[q].at # "evidence_fill"  BY <1>2 DEF Filing
  <2> QED  BY <1>2, <2>1
<1>3. procs[q].at # "start" =>
        /\ Session(q)' = Session(q) /\ AuditPath(q)' = AuditPath(q)
        /\ Evidence(q, FALSE)' = Evidence(q, FALSE) /\ Evidence(q, TRUE)' = Evidence(q, TRUE)
  BY PathsStay DEF Evidence, Log
<1>4. procs[q].at \in Active =>
        /\ Session(q) \in Runs /\ AuditPath(q) \in Paths /\ Opened(q) /\ procs[q].exit = "None"
        /\ procs[q].at # "start"
  BY WriterKnows DEF Active, Filing
<1>5. Undisturbed(q) \/ ~Opened(q) \/ procs[q].hit  BY <1>1, UndisturbedBefore
<1>6. ASSUME NEW to, procs'[q].at = to, procs'[q] = [procs[q] EXCEPT !.at = to]
      PROVE  /\ procs'[q].outcome = procs[q].outcome /\ procs'[q].exit = procs[q].exit
             /\ procs'[q].hit = procs[q].hit
  BY <1>1, <1>6 DEF Procs
<1>7. CASE CreateAudit(q) \/ FillAudit(q) \/ CreateEvidence(q) \/ FillEvidence(q)
           \/ CreateTranscript(q) \/ FillTranscript(q) \/ CreateIndex(q)
  <2>1. PICK to \in Active :
           /\ Works(q, [procs[q] EXCEPT !.at = to])
           /\ CreateAudit(q) => to = "audit_fill"
           /\ FillAudit(q) => to = AfterAudit(q)
           /\ CreateEvidence(q) => to = "evidence_fill"
           /\ FillEvidence(q) => to = "save"
           /\ CreateTranscript(q) => to = "save_fill"
           /\ FillTranscript(q) => to = "index"
           /\ CreateIndex(q) => to = "index_fill"
    BY <1>7, FilingStep
  <2>2. procs'[q] = [procs[q] EXCEPT !.at = to]  BY <2>1, Became DEF Works
  <2>3. /\ procs'[q].at = to /\ procs'[q].outcome = procs[q].outcome
        /\ procs'[q].exit = procs[q].exit /\ procs'[q].hit = procs[q].hit
    BY <2>2, <1>1 DEF Procs
  <2>4. /\ procs[q].at \in Active /\ procs[q].exit = "None" /\ procs[q].outcome = "ok"
        /\ Opened(q) /\ Session(q) \in Runs /\ AuditPath(q) \in Paths
        /\ procs[q].at # "start"
    BY <2>1, <2>3, <1>4 DEF Works
  <2>5. Undisturbed(q)  BY <2>3, <2>4, <1>1, <1>5
  <2>6. /\ procs[q].at \in Filing => audit[AuditPath(q)] = Log(q)
        /\ procs[q].at = "evidence_fill" => evidence[Session(q)] = Evidence(q, FALSE)
        /\ procs[q].at \in Filing \ {"evidence", "evidence_fill"} =>
              evidence[Session(q)] = Evidence(q, TRUE)
    BY <2>4, <2>5 DEF Filed
  <2>7. /\ Session(q)' = Session(q) /\ AuditPath(q)' = AuditPath(q)
        /\ Evidence(q, FALSE)' = Evidence(q, FALSE) /\ Evidence(q, TRUE)' = Evidence(q, TRUE)
    BY <2>4, <1>3
  <2>8. audit \in [Paths -> AuditLogs \union {None}]
        /\ evidence \in [Runs -> EvidenceFiles \union {None}]
    BY DEF TypeOK
  <2>9. CASE CreateAudit(q)
    <3>1. to = "audit_fill"  BY <2>1, <2>9
    <3> QED  BY <3>1, <1>2, <2>3, <2>4 DEF Filing
  <2>10. CASE FillAudit(q)
    <3>1. to = "evidence"  BY <2>1, <2>10, <2>4 DEF AfterAudit
    <3>2. audit' = [audit EXCEPT ![AuditPath(q)] = Log(q)]  BY <2>10 DEF FillAudit, Log
    <3>3. audit'[AuditPath(q)] = Log(q)
      <4> HIDE DEF AuditLogs, Paths
      <4> QED  BY <3>2, <2>8, <2>4
    <3> QED  BY <3>1, <3>3, <2>3, <2>4, <2>7
  <2>11. CASE CreateEvidence(q)
    <3>1. to = "evidence_fill" /\ procs[q].at = "evidence" /\ audit' = audit
      BY <2>1, <2>11 DEF CreateEvidence, At
    <3>2. audit[AuditPath(q)] = Log(q)  BY <3>1, <2>6 DEF Filing
    <3>3. evidence' = [evidence EXCEPT ![Session(q)] =
                      [by |-> q, whole |-> FALSE, path |-> AuditPath(q),
                       audit_chain_valid |-> ChainValid(AuditPath(q)),
                       session_final_hash |-> Log(q)]]
      BY <2>11, <3>2 DEF CreateEvidence, LogOf
    <3>4. ChainValid(AuditPath(q)) = TRUE
      <4>1. Log(q) \in AuditLogs /\ Log(q).lines = "whole"  BY DEF Log, AuditLogs
      <4>2. Log(q) # None  BY <4>1 DEF HeadlessRunAssumption
      <4> QED  BY <3>2, <4>1, <4>2 DEF ChainValid
    <3>5. evidence' = [evidence EXCEPT ![Session(q)] = Evidence(q, FALSE)]
      BY <3>3, <3>4 DEF Evidence
    <3>6. evidence'[Session(q)] = Evidence(q, FALSE)
      <4> HIDE DEF EvidenceFiles
      <4> QED  BY <3>5, <2>8, <2>4
    <3> QED  BY <3>1, <3>2, <3>6, <2>3, <2>4, <2>7
  <2>12. CASE FillEvidence(q)
    <3>1. to = "save" /\ procs[q].at = "evidence_fill" /\ audit' = audit
      BY <2>1, <2>12 DEF FillEvidence, At
    <3>2. audit[AuditPath(q)] = Log(q) /\ evidence[Session(q)] = Evidence(q, FALSE)
      BY <3>1, <2>6 DEF Filing
    <3>3. evidence' = [evidence EXCEPT ![Session(q)] = [Evidence(q, FALSE) EXCEPT !.whole = TRUE]]
      BY <2>12, <3>2 DEF FillEvidence
    <3>4. [Evidence(q, FALSE) EXCEPT !.whole = TRUE] = Evidence(q, TRUE)
      BY EvidenceFields
    <3>5. evidence'[Session(q)] = Evidence(q, TRUE)
      <4> HIDE DEF EvidenceFiles
      <4> QED  BY <3>3, <3>4, <2>8, <2>4
    <3> QED  BY <3>1, <3>2, <3>5, <2>3, <2>4, <2>7
  <2>13. CASE CreateTranscript(q) \/ FillTranscript(q) \/ CreateIndex(q)
    <3>1. /\ to \in {"save_fill", "index", "index_fill"} /\ audit' = audit /\ evidence' = evidence
          /\ procs[q].at \in {"save", "save_fill", "index_create"}
      BY <2>1, <2>13 DEF CreateTranscript, FillTranscript, CreateIndex, At
    <3>2. audit[AuditPath(q)] = Log(q) /\ evidence[Session(q)] = Evidence(q, TRUE)
      BY <3>1, <2>6 DEF Filing
    <3> QED  BY <3>1, <3>2, <2>3, <2>4, <2>7
  <2> QED  BY <1>7, <2>9, <2>10, <2>11, <2>12, <2>13
<1>8. CASE LoadIndex(q) \/ FillIndex(q) \/ Exit(q)
  <2>1. /\ procs[q].at \in {"index", "index_fill", "exit"} /\ audit' = audit /\ evidence' = evidence
    BY <1>8 DEF LoadIndex, FillIndex, Exit, At
  <2>2. procs[q].at \in Active  BY <2>1 DEF Active, Filing
  <2>3. procs'[q].outcome = procs[q].outcome /\ procs'[q].hit = procs[q].hit
        /\ procs'[q].at # "evidence_fill"
    BY <1>8, <1>1 DEF LoadIndex, FillIndex, Exit, Leave, Goes, TypeOK, Procs
  <2>4. Undisturbed(q) /\ Opened(q) /\ procs[q].outcome = "ok"
    BY <2>2, <2>3, <1>1, <1>4, <1>5
  <2>5. audit[AuditPath(q)] = Log(q) /\ evidence[Session(q)] = Evidence(q, TRUE)
    BY <2>1, <2>4 DEF Filed, Filing
  <2> QED  BY <2>1, <2>2, <2>3, <2>5, <1>3, <1>4
<1>9. CASE FileFails(q)
  <2>1. Works(q, [procs[q] EXCEPT !.at = AfterFile(q), !.hit = TRUE])
    BY <1>9, FileFailsStep
  <2>2. procs'[q] = [procs[q] EXCEPT !.at = AfterFile(q), !.hit = TRUE]
    BY <2>1, Became DEF Works
  <2>3. procs'[q].hit = TRUE  BY <2>2, <1>1 DEF Procs
  <2> QED  BY <2>3, <1>1
<1>10. CASE Turn(q)
  <2>1. PICK outcome \in {"ok", "failed"},
             context \in {procs[q].context, Append(procs[q].context, q)} :
           Works(q, [procs[q] EXCEPT !.at = AfterTurn(q, outcome), !.outcome = outcome,
                                     !.context = context])
    BY <1>10, TurnStep
  <2>2. procs'[q] = [procs[q] EXCEPT !.at = AfterTurn(q, outcome), !.outcome = outcome,
                                     !.context = context]
    BY <2>1, Became DEF Works
  <2>3. procs'[q].at \in {"plan", "audit"} /\ procs'[q].exit = procs[q].exit
    BY <2>2, <1>1 DEF Procs, AfterTurn
  <2>4. procs[q].at \in Active  BY <2>1 DEF Works
  <2> QED  BY <1>2, <1>4, <2>3, <2>4 DEF Filing
<1>11. CASE SavePlan(q) \/ (PlanFails(q) /\ Mode(q) # "plan")
  <2>1. Works(q, [procs[q] EXCEPT !.at = IF Mode(q) = "plan" THEN "audit" ELSE "open",
                                  !.plan = TRUE])
    BY <1>11, SavePlanStep
  <2>2. procs'[q] = [procs[q] EXCEPT !.at = IF Mode(q) = "plan" THEN "audit" ELSE "open",
                                     !.plan = TRUE]
    BY <2>1, Became DEF Works
  <2>3. procs'[q].at \in {"audit", "open"} /\ procs'[q].exit = procs[q].exit
    BY <2>2, <1>1 DEF Procs
  <2>4. procs[q].at \in Active  BY <2>1 DEF Works
  <2> QED  BY <1>2, <1>4, <2>3, <2>4 DEF Filing
<1>12. CASE \E code \in Codes : Leaves(q, code)
  <2>1. PICK code \in Codes : Leaves(q, code)  BY <1>12
  <2>2. procs'[q] = [procs[q] EXCEPT !.at = "done", !.exit = code]
    BY <2>1, Became DEF Leaves
  <2>3. procs'[q].at = "done" /\ procs'[q].exit = code  BY <2>2, <1>1 DEF Procs
  <2> QED  BY <1>2, <2>1, <2>3 DEF Filing, Codes
<1>13. CASE \E n \in Procs : Prepares(q, n)
  <2>1. ~Opened(q)'
    BY <1>13, OrderKept DEF Prepares, Exclusive, Placed
  <2> QED  BY <2>1
<1>14. CASE Enters(q)
  <2>1. procs'[q].at = "turn" /\ procs'[q].exit = procs[q].exit /\ procs[q].exit # "ok"
    BY <1>14, EntersFields DEF Enters, Exclusive, Placed
  <2> QED  BY <1>2, <2>1 DEF Filing
<1>15. CASE Resolve(q) \/ LoadTranscript(q)
  BY <1>12, <1>13, <1>15, PrepareSteps DEF Codes
<1>16. CASE ConfigError(q)  BY <1>12, <1>16, ConfigErrorStep DEF Codes
<1>17. CASE OpenJournal(q)  BY <1>12, <1>14, <1>17, OpenStep DEF Codes
<1>18. CASE PlanFails(q) /\ Mode(q) = "plan"
  <2>1. Leave(q, procs, "config") /\ order' = order /\ procs[q].at = "plan"
    BY <1>18 DEF PlanFails, At
  <2>2. Leaves(q, "config")  BY <2>1, LeaveStep
  <2> QED  BY <2>2, <1>12 DEF Codes
<1>19. CASE Kill(q)  BY <1>12, <1>19, KillStep DEF Codes
<1> QED
  BY <1>7, <1>8, <1>9, <1>10, <1>11, <1>15, <1>16, <1>17, <1>18, <1>19 DEF Step

(***************************************************************************)
(* The initial state.                                                      *)
(***************************************************************************)
LEMMA InitEvidence ==
  ASSUME Init, HeadlessRunAssumption
  PROVE  EvidenceInv
<1>1. NoEntries \in Entries  BY DEF NoEntries, Entries, SomeRun
<1>2. PICK commands \in [Runs -> Commands] :
        procs = [r \in Runs |->
           [command |-> commands[r], at |-> "start", session |-> None,
            resumed |-> FALSE, read |-> <<>>, context |-> <<>>,
            entries |-> NoEntries, outcome |-> "None",
            plan |-> FALSE, hit |-> FALSE, stale |-> FALSE,
            indexed |-> FALSE, exit |-> "None"]]
  <2> DEFINE P(c) == [command |-> c, at |-> "start", session |-> None,
            resumed |-> FALSE, read |-> <<>>, context |-> <<>>,
            entries |-> NoEntries, outcome |-> "None",
            plan |-> FALSE, hit |-> FALSE, stale |-> FALSE,
            indexed |-> FALSE, exit |-> "None"]
  <2>1. procs \in [Runs -> {P(c) : c \in Commands}]  BY DEF Init
  <2>2. \A r \in Runs : \E c \in Commands : procs[r] = P(c)
    <3> HIDE DEF P
    <3> QED  BY <2>1
  <2> DEFINE w == [r \in Runs |-> CHOOSE c \in Commands : procs[r] = P(c)]
  <2>3. w \in [Runs -> Commands] /\ \A r \in Runs : procs[r] = P(w[r])
    <3> HIDE DEF P
    <3> QED  BY <2>2
  <2>4. procs = [r \in Runs |-> P(w[r])]
    <3> HIDE DEF P, w
    <3> QED  BY <2>1, <2>3
  <2> HIDE DEF w
  <2> QED  BY <2>3, <2>4
<1>3. ASSUME NEW r \in Runs
      PROVE  /\ procs[r] \in Procs /\ procs[r].at = "start" /\ procs[r].session = None
             /\ procs[r].outcome = "None" /\ procs[r].exit = "None"
             /\ procs[r].read = <<>> /\ procs[r].context = <<>>
             /\ procs[r].resumed = FALSE /\ procs[r].indexed = FALSE
             /\ procs[r].stale = FALSE /\ procs[r].hit = FALSE
             /\ procs[r].entries = NoEntries
  <2>1. <<>> \in Seq(Runs)  OBVIOUS
  <2> QED  BY <1>1, <1>2, <2>1 DEF Procs, Steps, Active, Filing, SomeRun, Outcomes
<1>4. procs \in [Runs -> Procs]  BY <1>2, <1>3
<1>5. TypeOK
  <2>1. /\ journal \in [Runs -> Seq(Runs)] /\ order \in Seq(Runs) /\ saves \subseteq Runs
        /\ torn \in BOOLEAN /\ lock \in SomeRun
    <3>1. journal = [s \in Runs |-> <<>>] /\ <<>> \in Seq(Runs)  BY DEF Init, Sessions
    <3>2. journal \in [Runs -> Seq(Runs)]  BY <3>1
    <3>3. order \in Seq(Runs)  BY <3>1 DEF Init
    <3>4. torn = FALSE /\ saves = {} /\ lock = None  BY DEF Init
    <3> QED  BY <3>2, <3>3, <3>4 DEF SomeRun
  <2>2. transcripts \in [Runs -> Transcripts \union {None}]
    BY DEF Init, Sessions
  <2>3. evidence \in [Runs -> EvidenceFiles \union {None}]
    BY DEF Init, Sessions
  <2>4. audit \in [Paths -> AuditLogs \union {None}]
    BY DEF Init
  <2>5. index \in [whole : BOOLEAN, entries : Entries]
    BY <1>1 DEF Init
  <2> QED  BY <1>4, <2>1, <2>2, <2>3, <2>4, <2>5 DEF TypeOK
<1>6. \A a : ~Opened(a)  BY DEF Init, Opened
<1>7. Exclusive
  <2>1. Distinct(order)  BY DEF Init, Distinct
  <2>2. LastOpened  BY DEF Init, LastOpened
  <2>3. \A r \in Runs : Placed(r)  BY <1>3, <1>6 DEF Placed, Active, Filing
  <2> QED  BY <2>1, <2>2, <2>3 DEF Exclusive
<1>8. Created  BY <1>3 DEF Created
<1> QED  BY <1>5, <1>6, <1>7, <1>8 DEF EvidenceInv, Filed

(***************************************************************************)
(* The theorems.                                                           *)
(***************************************************************************)
LEMMA EvidenceStep ==
  ASSUME EvidenceInv, HeadlessRunAssumption, [Next]_vars
  PROVE  EvidenceInv'
<1>1. CASE UNCHANGED vars
  <2>1. /\ procs' = procs /\ lock' = lock /\ journal' = journal /\ transcripts' = transcripts
        /\ index' = index /\ audit' = audit /\ evidence' = evidence /\ order' = order
        /\ saves' = saves /\ torn' = torn
    BY <1>1 DEF vars
  <2>2. TypeOK'  BY <2>1 DEF EvidenceInv, TypeOK
  <2>3. /\ \A a : Opened(a)' <=> Opened(a)
        /\ \A a, b : Precedes(a, b)' <=> Precedes(a, b)
        /\ \A r : /\ Session(r)' = Session(r) /\ AuditPath(r)' = AuditPath(r)
    BY <2>1, OrderKept DEF Session, AuditPath
  <2>4. Exclusive'
    BY <2>1, <2>3 DEF EvidenceInv, Exclusive, Placed, LastOpened
  <2>5. Created'  BY <2>1, <2>3 DEF EvidenceInv, Created
  <2>6. ASSUME NEW r \in Runs PROVE Filed(r)'
    <3>1. OpenedSince(r)' = OpenedSince(r)  BY <2>3 DEF OpenedSince
    <3>2. Undisturbed(r)' <=> Undisturbed(r)  BY <2>1, <2>3, <3>1 DEF Undisturbed
    <3>3. Evidence(r, TRUE)' = Evidence(r, TRUE) /\ Evidence(r, FALSE)' = Evidence(r, FALSE)
      BY <2>3 DEF Evidence, Log
    <3>4. Filed(r)  BY DEF EvidenceInv
    <3> QED  BY <2>1, <2>3, <3>2, <3>3, <3>4 DEF Filed, Log
  <2> QED  BY <2>2, <2>4, <2>5, <2>6 DEF EvidenceInv
<1>2. ASSUME NEW q \in Runs, Step(q) PROVE EvidenceInv'
  <2>1. TypeOK /\ Exclusive /\ Created /\ \A r \in Runs : Filed(r)  BY DEF EvidenceInv
  <2>2. TypeOK' /\ Exclusive' /\ Created'
    BY <1>2, <2>1, TypeStep, ExclusiveStep, CreatedStep
  <2>3. ASSUME NEW r \in Runs PROVE Filed(r)'
    <3>1. CASE r = q  BY <3>1, <1>2, <2>1, OwnFilesHold
    <3>2. CASE r # q /\ Opened(r)  BY <3>2, <1>2, <2>1, OthersFilesStay
    <3>3. CASE r # q /\ ~Opened(r)
      <4>1. ~Opened(r)'  BY <3>3, <1>2, <2>1, OrderStep
      <4> QED  BY <4>1 DEF Filed
    <3> QED  BY <3>1, <3>2, <3>3
  <2> QED  BY <2>2, <2>3 DEF EvidenceInv
<1> QED  BY <1>1, <1>2, NextIsStep

(* The files of the runs are typed and written by one run at a time. *)
THEOREM FilesInductive == Spec => []EvidenceInv
<1>1. Init => EvidenceInv  BY InitEvidence, HeadlessRunAssumption
<1>2. EvidenceInv /\ [Next]_vars => EvidenceInv'  BY EvidenceStep, HeadlessRunAssumption
<1> QED  BY <1>1, <1>2, PTL DEF Spec

(* A run that reports success leaves evidence that verifies, and a log of   *)
(* this run alone, until another run of the session or the path begins.    *)
THEOREM EvidenceStands == Spec => []EvidenceHolds
<1>1. EvidenceInv => EvidenceHolds
  <2> SUFFICES ASSUME EvidenceInv, NEW r \in Runs, procs[r].exit = "ok", Undisturbed(r)
               PROVE  /\ EvidenceVerifies(Session(r))
                      /\ evidence[Session(r)].by = r
                      /\ audit[AuditPath(r)] = [by |-> r, lines |-> "whole"]
    BY DEF EvidenceHolds, Undisturbed
  <2>1. procs[r].outcome = "ok" /\ Opened(r)
    BY DEF EvidenceInv, Exclusive, Placed
  <2>2. Session(r) \in Runs  BY <2>1 DEF EvidenceInv, Exclusive, Placed
  <2>3. audit[AuditPath(r)] = Log(r) /\ evidence[Session(r)] = Evidence(r, TRUE)
    BY <2>1 DEF EvidenceInv, Filed
  <2>4. /\ evidence[Session(r)].by = r /\ evidence[Session(r)].whole = TRUE
        /\ evidence[Session(r)].path = AuditPath(r)
        /\ evidence[Session(r)].audit_chain_valid = TRUE
        /\ evidence[Session(r)].session_final_hash = Log(r)
    BY <2>3, EvidenceFields, ZenonT(60)
  <2>5. Log(r) \in AuditLogs /\ Log(r).lines = "whole"  BY DEF Log, AuditLogs
  <2>6. ChainValid(AuditPath(r))
    BY <2>3, <2>5, HeadlessRunAssumption DEF ChainValid, HeadlessRunAssumption
  <2>7. evidence[Session(r)] # None
    <3>1. AuditPath(r) \in Paths  BY <2>2, AuditPathOk, HeadlessRunAssumption DEF EvidenceInv
    <3>2. Evidence(r, TRUE) \in EvidenceFiles  BY <2>5, <3>1, EvidenceFields
    <3> QED  BY <2>3, <3>2, HeadlessRunAssumption DEF HeadlessRunAssumption
  <2> QED  BY <2>3, <2>4, <2>6, <2>7 DEF EvidenceVerifies, Log
<1> QED  BY <1>1, FilesInductive, PTL

-----------------------------------------------------------------------------
(***************************************************************************)
(* The index.                                                              *)
(***************************************************************************)

(* What a step does to the process that takes it, field by field. *)
OwnFields(q) ==
    /\ procs[q].hit => procs'[q].hit
    /\ ~FillIndex(q) => procs'[q].indexed = procs[q].indexed
    /\ FillIndex(q) => procs'[q].indexed = TRUE
    /\ ~LoadIndex(q) => procs'[q].entries = procs[q].entries
    /\ LoadIndex(q) =>
         procs'[q].entries = [LoadedIndex EXCEPT ![Project(q)] = Session(q)]
    /\ ~Turn(q) /\ ~Enters(q) => procs'[q].context = procs[q].context
    /\ Turn(q) => procs'[q].context \in {procs[q].context, Append(procs[q].context, q)}
    /\ ~Resolve(q) => procs'[q].resumed = procs[q].resumed
    /\ ~LoadTranscript(q) =>
         procs'[q].read = procs[q].read /\ procs'[q].stale = procs[q].stale
    /\ procs[q].at \notin {"exit", "start", "load", "open"} => procs'[q].at # "turn"
    /\ procs[q].at = "exit" => procs'[q].at = "done"
    /\ procs'[q].at = "exit" => ~procs'[q].indexed \/ FillIndex(q)
    /\ procs'[q].at = "index" => FillTranscript(q) \/ procs'[q].hit
    /\ procs'[q].at = "load" => Resolve(q)
    /\ procs'[q].at = "turn" => Enters(q)
    /\ procs'[q].at # "start" /\ procs[q].at # "done"

LEMMA OwnSteps ==
  ASSUME TypeOK, Exclusive, HeadlessRunAssumption, NEW q \in Runs, Step(q),
         procs[q].indexed => procs[q].at \in {"exit", "done"}
  PROVE  OwnFields(q)
<1>1. procs[q] \in Procs  BY DEF TypeOK
<1>3. CASE Turn(q)
  <2>1. PICK outcome \in {"ok", "failed"},
             context \in {procs[q].context, Append(procs[q].context, q)} :
           Works(q, [procs[q] EXCEPT !.at = AfterTurn(q, outcome), !.outcome = outcome,
                                     !.context = context])
    BY <1>3, TurnStep
  <2>2. procs'[q] = [procs[q] EXCEPT !.at = AfterTurn(q, outcome), !.outcome = outcome,
                                     !.context = context]
    BY <2>1, Became DEF Works
  <2>3. /\ procs'[q].at \in {"plan", "audit"} /\ procs'[q].context = context
        /\ procs'[q].hit = procs[q].hit /\ procs'[q].indexed = procs[q].indexed
        /\ procs'[q].entries = procs[q].entries /\ procs'[q].resumed = procs[q].resumed
        /\ procs'[q].read = procs[q].read /\ procs'[q].stale = procs[q].stale
    BY <2>2, <1>1 DEF Procs, AfterTurn
  <2>4. procs[q].at = "turn" /\ ~FillIndex(q) /\ ~LoadIndex(q) /\ ~LoadTranscript(q)
    BY <1>3 DEF Turn, FillIndex, LoadIndex, LoadTranscript, At
  <2> QED  BY <1>3, <2>3, <2>4 DEF OwnFields
<1>4. CASE SavePlan(q) \/ (PlanFails(q) /\ Mode(q) # "plan")
  <2>1. Works(q, [procs[q] EXCEPT !.at = IF Mode(q) = "plan" THEN "audit" ELSE "open",
                                  !.plan = TRUE])
    BY <1>4, SavePlanStep
  <2>2. procs'[q] = [procs[q] EXCEPT !.at = IF Mode(q) = "plan" THEN "audit" ELSE "open",
                                     !.plan = TRUE]
    BY <2>1, Became DEF Works
  <2>3. /\ procs'[q].at \in {"audit", "open"} /\ procs'[q].context = procs[q].context
        /\ procs'[q].hit = procs[q].hit /\ procs'[q].indexed = procs[q].indexed
        /\ procs'[q].entries = procs[q].entries /\ procs'[q].resumed = procs[q].resumed
        /\ procs'[q].read = procs[q].read /\ procs'[q].stale = procs[q].stale
    BY <2>2, <1>1 DEF Procs
  <2>4. /\ procs[q].at = "plan" /\ ~FillIndex(q) /\ ~LoadIndex(q) /\ ~LoadTranscript(q)
        /\ ~Turn(q)
    BY <1>4 DEF SavePlan, PlanFails, Turn, FillIndex, LoadIndex, LoadTranscript, At
  <2> QED  BY <2>3, <2>4 DEF OwnFields
<1>5. CASE CreateAudit(q) \/ FillAudit(q) \/ CreateEvidence(q) \/ FillEvidence(q)
           \/ CreateTranscript(q) \/ FillTranscript(q) \/ CreateIndex(q)
  <2>1. PICK to \in Active :
           /\ Works(q, [procs[q] EXCEPT !.at = to])
           /\ CreateAudit(q) => to = "audit_fill"
           /\ FillAudit(q) => to = AfterAudit(q)
           /\ CreateEvidence(q) => to = "evidence_fill"
           /\ FillEvidence(q) => to = "save"
           /\ CreateTranscript(q) => to = "save_fill"
           /\ FillTranscript(q) => to = "index"
           /\ CreateIndex(q) => to = "index_fill"
    BY <1>5, FilingStep
  <2>2. procs'[q] = [procs[q] EXCEPT !.at = to]  BY <2>1, Became DEF Works
  <2>3. /\ procs'[q].at = to /\ procs'[q].context = procs[q].context
        /\ procs'[q].hit = procs[q].hit /\ procs'[q].indexed = procs[q].indexed
        /\ procs'[q].entries = procs[q].entries /\ procs'[q].resumed = procs[q].resumed
        /\ procs'[q].read = procs[q].read /\ procs'[q].stale = procs[q].stale
    BY <2>2, <1>1 DEF Procs
  <2>4. /\ procs[q].at \in {"audit", "audit_fill", "evidence", "evidence_fill", "save",
                            "save_fill", "index_create"}
        /\ ~FillIndex(q) /\ ~LoadIndex(q) /\ ~LoadTranscript(q) /\ ~Turn(q)
    BY <1>5 DEF CreateAudit, FillAudit, CreateEvidence, FillEvidence, CreateTranscript,
      FillTranscript, CreateIndex, Turn, FillIndex, LoadIndex, LoadTranscript, At
  <2>5. /\ to \in {"audit_fill", "evidence", "exit", "save", "evidence_fill", "save_fill",
                   "index", "index_fill"}
        /\ to = "index" => FillTranscript(q)
    BY <1>5, <2>1, <2>4, AfterAuditOk
  <2>6. ~procs[q].indexed  BY <2>4
  <2> QED  BY <2>3, <2>4, <2>5, <2>6 DEF OwnFields
<1>6. CASE LoadIndex(q)
  <2>1. procs[q].at = "index" /\ procs[q].at \in Active /\ ~procs[q].indexed
    BY <1>6 DEF LoadIndex, At, Active, Filing
  <2>2. Session(q) \in Runs  BY <2>1, WriterKnows
  <2>3. Works(q, [procs[q] EXCEPT !.at = "index_create",
                     !.entries = [LoadedIndex EXCEPT ![Project(q)] = Session(q)]])
    BY <1>6, <2>2, LoadIndexStep
  <2>4. procs'[q] = [procs[q] EXCEPT !.at = "index_create",
                     !.entries = [LoadedIndex EXCEPT ![Project(q)] = Session(q)]]
    BY <2>3, Became DEF Works
  <2>5. /\ procs'[q].at = "index_create" /\ procs'[q].context = procs[q].context
        /\ procs'[q].hit = procs[q].hit /\ procs'[q].indexed = procs[q].indexed
        /\ procs'[q].entries = [LoadedIndex EXCEPT ![Project(q)] = Session(q)]
        /\ procs'[q].resumed = procs[q].resumed
        /\ procs'[q].read = procs[q].read /\ procs'[q].stale = procs[q].stale
    BY <2>4, <1>1 DEF Procs
  <2>6. ~FillIndex(q) /\ ~LoadTranscript(q) /\ ~Turn(q)
    BY <2>1 DEF Turn, FillIndex, LoadTranscript, At
  <2> QED  BY <1>6, <2>1, <2>5, <2>6 DEF OwnFields
<1>7. CASE FillIndex(q)
  <2>1. procs[q].at = "index_fill"  BY <1>7 DEF FillIndex, At
  <2>2. procs'[q] = [procs[q] EXCEPT !.at = "exit", !.indexed = TRUE]
    BY <1>7, FillIndexStep, Became DEF Works
  <2>3. /\ procs'[q].at = "exit" /\ procs'[q].context = procs[q].context
        /\ procs'[q].hit = procs[q].hit /\ procs'[q].indexed = TRUE
        /\ procs'[q].entries = procs[q].entries /\ procs'[q].resumed = procs[q].resumed
        /\ procs'[q].read = procs[q].read /\ procs'[q].stale = procs[q].stale
    BY <2>2, <1>1 DEF Procs
  <2>4. ~LoadIndex(q) /\ ~LoadTranscript(q) /\ ~Turn(q)
    BY <2>1 DEF Turn, LoadIndex, LoadTranscript, At
  <2> QED  BY <1>7, <2>1, <2>3, <2>4 DEF OwnFields
<1>8. CASE FileFails(q)
  <2>1. /\ procs[q].at \in Breaks /\ AfterFile(q) \in {"evidence", "exit", "save", "index"}
        /\ Works(q, [procs[q] EXCEPT !.at = AfterFile(q), !.hit = TRUE])
    BY <1>8, FileFailsStep
  <2>2. procs'[q] = [procs[q] EXCEPT !.at = AfterFile(q), !.hit = TRUE]
    BY <2>1, Became DEF Works
  <2>3. /\ procs'[q].at = AfterFile(q) /\ procs'[q].context = procs[q].context
        /\ procs'[q].hit = TRUE /\ procs'[q].indexed = procs[q].indexed
        /\ procs'[q].entries = procs[q].entries /\ procs'[q].resumed = procs[q].resumed
        /\ procs'[q].read = procs[q].read /\ procs'[q].stale = procs[q].stale
    BY <2>2, <1>1 DEF Procs
  <2>4. ~LoadIndex(q) /\ ~LoadTranscript(q) /\ ~Turn(q) /\ ~procs[q].indexed
    BY <2>1 DEF Turn, LoadIndex, LoadTranscript, At, Breaks
  <2>5. ~FillIndex(q)
    <3>1. FillIndex(q) => procs'[q].hit = procs[q].hit /\ procs'[q].indexed = TRUE
      <4> SUFFICES ASSUME FillIndex(q)
                   PROVE  procs'[q].hit = procs[q].hit /\ procs'[q].indexed = TRUE
        OBVIOUS
      <4>1. procs'[q] = [procs[q] EXCEPT !.at = "exit", !.indexed = TRUE]
        BY FillIndexStep, Became DEF Works
      <4> QED  BY <4>1, <1>1 DEF Procs
    <3>2. procs[q].indexed \in BOOLEAN  BY <1>1 DEF Procs
    <3> QED  BY <3>1, <3>2, <2>3, <2>4
  <2> QED  BY <2>1, <2>3, <2>4, <2>5 DEF OwnFields, Breaks
<1>9. CASE \E code : Leaves(q, code)
  <2>1. PICK code : Leaves(q, code)  BY <1>9
  <2>2. procs'[q] = [procs[q] EXCEPT !.at = "done", !.exit = code] /\ procs[q].at # "done"
    BY <2>1, Became DEF Leaves
  <2>3. /\ procs'[q].at = "done" /\ procs'[q].context = procs[q].context
        /\ procs'[q].hit = procs[q].hit /\ procs'[q].indexed = procs[q].indexed
        /\ procs'[q].entries = procs[q].entries /\ procs'[q].resumed = procs[q].resumed
        /\ procs'[q].read = procs[q].read /\ procs'[q].stale = procs[q].stale
    BY <2>2, <1>1 DEF Procs
  <2>4. ~LoadIndex(q) /\ ~FillIndex(q) /\ ~Turn(q) /\ ~LoadTranscript(q)
    <3>1. LoadIndex(q) => procs'[q].at = "index_create"
      <4> SUFFICES ASSUME LoadIndex(q) PROVE procs'[q].at = "index_create"  OBVIOUS
      <4>1. procs' = [Goes(q, "index_create") EXCEPT
                   ![q].entries = [LoadedIndex EXCEPT ![Project(q)] = Session(q)]]
        BY DEF LoadIndex
      <4> QED  BY <4>1, <1>1 DEF Goes, TypeOK, Procs
    <3>2. FillIndex(q) => procs'[q].at = "exit"
      <4> SUFFICES ASSUME FillIndex(q) PROVE procs'[q].at = "exit"  OBVIOUS
      <4>1. procs'[q] = [procs[q] EXCEPT !.at = "exit", !.indexed = TRUE]
        BY FillIndexStep, Became DEF Works
      <4> QED  BY <4>1, <1>1 DEF Procs
    <3>3. Turn(q) => procs'[q].at \in {"plan", "audit"}
      <4> SUFFICES ASSUME Turn(q) PROVE procs'[q].at \in {"plan", "audit"}  OBVIOUS
      <4>1. PICK outcome \in {"ok", "failed"},
                 context \in {procs[q].context, Append(procs[q].context, q)} :
               Works(q, [procs[q] EXCEPT !.at = AfterTurn(q, outcome), !.outcome = outcome,
                                         !.context = context])
        BY TurnStep
      <4>2. procs'[q] = [procs[q] EXCEPT !.at = AfterTurn(q, outcome), !.outcome = outcome,
                                         !.context = context]
        BY <4>1, Became DEF Works
      <4> QED  BY <4>2, <1>1 DEF Procs, AfterTurn
    <3>4. LoadTranscript(q) => procs'[q].at = "open"
      <4> SUFFICES ASSUME LoadTranscript(q) PROVE procs'[q].at = "open"  OBVIOUS
      <4>1. procs[q].at = "load"  BY DEF LoadTranscript, At
      <4>2. Session(q) \in Runs  BY <4>1 DEF Exclusive, Placed
      <4>3. procs'[q] = [procs[q] EXCEPT !.at = "open", !.stale = Overtaken(q),
                                         !.read = Readable(q)]
        BY <4>2, LoadStep, Became
      <4> QED  BY <4>3, <1>1 DEF Procs
    <3> QED  BY <3>1, <3>2, <3>3, <3>4, <2>3
  <2> QED  BY <2>2, <2>3, <2>4 DEF OwnFields
<1>10. CASE Resolve(q)
  <2>1. CASE Leaves(q, "no_session")  BY <2>1, <1>9
  <2>2. ASSUME NEW s \in Runs,
               Becomes(q, [procs[q] EXCEPT !.session = s, !.at = "load",
                             !.resumed = procs[q].command.select # "new"]),
               procs[q].at = "start"
        PROVE  OwnFields(q)
    <3>1. procs'[q] = [procs[q] EXCEPT !.session = s, !.at = "load",
                             !.resumed = procs[q].command.select # "new"]
      BY <2>2, Became
    <3>2. /\ procs'[q].at = "load" /\ procs'[q].context = procs[q].context
          /\ procs'[q].hit = procs[q].hit /\ procs'[q].indexed = procs[q].indexed
          /\ procs'[q].entries = procs[q].entries
          /\ procs'[q].read = procs[q].read /\ procs'[q].stale = procs[q].stale
      BY <3>1, <1>1 DEF Procs
    <3>3. ~LoadIndex(q) /\ ~FillIndex(q) /\ ~Turn(q)
      BY <2>2 DEF LoadIndex, FillIndex, Turn, At
    <3> QED  BY <1>10, <2>2, <3>2, <3>3 DEF OwnFields
  <2> QED  BY <1>10, <2>1, <2>2, ResolveStep
<1>11. CASE LoadTranscript(q)
  <2>1. procs[q].at = "load"  BY <1>11 DEF LoadTranscript, At
  <2>2. Session(q) \in Runs  BY <2>1 DEF Exclusive, Placed
  <2>3. procs'[q] = [procs[q] EXCEPT !.at = "open", !.stale = Overtaken(q), !.read = Readable(q)]
    BY <1>11, <2>2, LoadStep, Became
  <2>4. /\ procs'[q].at = "open" /\ procs'[q].context = procs[q].context
        /\ procs'[q].hit = procs[q].hit /\ procs'[q].indexed = procs[q].indexed
        /\ procs'[q].entries = procs[q].entries /\ procs'[q].resumed = procs[q].resumed
    BY <2>3, <1>1 DEF Procs
  <2>5. ~LoadIndex(q) /\ ~FillIndex(q) /\ ~Turn(q)
    BY <2>1 DEF LoadIndex, FillIndex, Turn, At
  <2> QED  BY <1>11, <2>1, <2>4, <2>5 DEF OwnFields
<1>12. CASE Enters(q)
  <2>1. procs[q].at = "open"  BY <1>12 DEF Enters
  <2>2. ~LoadIndex(q) /\ ~FillIndex(q) /\ ~Turn(q) /\ ~LoadTranscript(q)
    BY <2>1 DEF LoadIndex, FillIndex, Turn, LoadTranscript, At
  <2> QED  BY <1>12, <2>1, <2>2, EntersFields DEF OwnFields
<1>13. CASE ConfigError(q)  BY <1>9, <1>13, ConfigErrorStep
<1>14. CASE OpenJournal(q)  BY <1>9, <1>12, <1>14, OpenStep
<1>15. CASE PlanFails(q) /\ Mode(q) = "plan"
  <2>1. Leave(q, procs, "config") /\ order' = order /\ procs[q].at = "plan"
    BY <1>15 DEF PlanFails, At
  <2>2. Leaves(q, "config")  BY <2>1, LeaveStep
  <2> QED  BY <2>2, <1>9
<1>16. CASE Exit(q)  BY <1>9, <1>16, ExitStep
<1>17. CASE Kill(q)  BY <1>9, <1>17, KillStep
<1> QED
  BY <1>3, <1>4, <1>5, <1>6, <1>7, <1>8, <1>10, <1>11, <1>13, <1>14, <1>15, <1>16, <1>17 DEF Step

(* The other steps leave the index and what is recorded in it alone. *)
LEMMA RecordedStays ==
  ASSUME TypeOK, Exclusive, HeadlessRunAssumption, NEW q \in Runs, Step(q),
         \A r \in Runs : procs[r].indexed => procs[r].at \in {"exit", "done"},
         NEW p, ~FillIndex(q)
  PROVE  /\ Recorded(p)' = Recorded(p)
         /\ \A s : NamesLast(s, p)' <=> NamesLast(s, p)
<1>1. \A r \in Runs : procs'[r].indexed = procs[r].indexed
  BY OthersStay, OwnSteps, ZenonT(60) DEF OwnFields
<1>2. ASSUME NEW r \in Runs PROVE r \in Recorded(p)' <=> r \in Recorded(p)
  <2>1. Project(r)' = Project(r)  BY PathsStay
  <2>2. procs[r].indexed => (Opened(r)' <=> Opened(r))
    <3>1. CASE Enters(q)
      <4>1. procs[q].at = "open"  BY <3>1 DEF Enters
      <4> QED  BY <3>1, <4>1, OrderStep
    <3>2. CASE ~Enters(q)  BY <3>2, OrderStep
    <3> QED  BY <3>1, <3>2
  <2> QED  BY <1>1, <2>1, <2>2 DEF Recorded
<1>3. Recorded(p)' = Recorded(p)  BY <1>2 DEF Recorded
<1>4. ASSUME NEW r \in Recorded(p), NEW o \in Recorded(p)
      PROVE  o \in OpenedSince(r)' <=> o \in OpenedSince(r)
  <2>1. procs[o].at # "open"  BY DEF Recorded
  <2>2. Precedes(r, o)' <=> Precedes(r, o)
    <3>1. CASE Enters(q)
      <4>1. procs[q].at = "open"  BY <3>1 DEF Enters
      <4> QED  BY <3>1, <4>1, <2>1, OrderStep
    <3>2. CASE ~Enters(q)  BY <3>2, OrderStep
    <3> QED  BY <3>1, <3>2
  <2> QED  BY <2>2 DEF OpenedSince
<1>5. ASSUME NEW r \in Recorded(p) PROVE Session(r)' = Session(r)
  <2>1. r \in Runs /\ procs[r].at # "start"  BY DEF Recorded
  <2> QED  BY <2>1, PathsStay
<1>6. ASSUME NEW s PROVE NamesLast(s, p)' <=> NamesLast(s, p)
  <2>1. \A r \in Recorded(p) :
          Recorded(p) \intersect OpenedSince(r)' = {} <=>
          Recorded(p) \intersect OpenedSince(r) = {}
    BY <1>4
  <2> QED  BY <1>3, <1>5, <2>1 DEF NamesLast
<1> QED  BY <1>3, <1>6

(* A run that is done with the index is the last of its project in it. *)
LEMMA RecordedGrows ==
  ASSUME TypeOK, Exclusive, HeadlessRunAssumption, NEW q \in Runs, FillIndex(q),
         \A r \in Runs : procs[r].indexed => procs[r].at \in {"exit", "done"}
  PROVE  /\ NamesLast(Session(q), Project(q))'
         /\ \A s, p : p # Project(q) => (NamesLast(s, p)' <=> NamesLast(s, p))
<1>1. Step(q)  BY DEF Step
<1>2. procs[q].at = "index_fill" /\ procs[q].at \in Active /\ procs[q].at # "start"
  BY DEF FillIndex, At, Active, Filing
<1>3. Opened(q) /\ lock = q /\ lock # None  BY <1>2, WriterKnows DEF HeadlessRunAssumption
<1>4. order' = order  BY DEF FillIndex
<1>5. \A r \in Runs : /\ Project(r)' = Project(r) /\ Session(r)' = Session(r)
                      /\ OpenedSince(r)' = OpenedSince(r) /\ Opened(r)' = Opened(r)
  <2>1. \A r \in Runs : Project(r)' = Project(r) /\ Session(r)' = Session(r)
    BY <1>1, <1>2, PathsStay
  <2>2. \A r \in Runs : OpenedSince(r)' = OpenedSince(r) /\ Opened(r)' = Opened(r)
    BY <1>4 DEF OpenedSince, Precedes, Opened
  <2> QED  BY <2>1, <2>2
<1>6. procs'[q].indexed = TRUE /\ \A r \in Runs : r # q => procs'[r].indexed = procs[r].indexed
  <2>1. procs'[q].indexed = TRUE  BY <1>1, OwnSteps DEF OwnFields
  <2> QED  BY <1>1, <2>1, OthersStay
<1>7. NamesLast(Session(q), Project(q))'
  <2>1. q \in Recorded(Project(q))'  BY <1>3, <1>5, <1>6 DEF Recorded
  <2>2. OpenedSince(q)' = {}
    <3>1. OpenedSince(q) = {}  BY <1>3 DEF Exclusive, LastOpened, OpenedSince
    <3> QED  BY <3>1, <1>5
  <2> QED  BY <2>1, <2>2 DEF NamesLast
<1>8. ASSUME NEW s, NEW p, p # Project(q) PROVE NamesLast(s, p)' <=> NamesLast(s, p)
  <2>1. Recorded(p)' = Recorded(p)  BY <1>5, <1>6, <1>8 DEF Recorded
  <2>2. \A r \in Recorded(p) : r \in Runs  BY DEF Recorded
  <2> QED  BY <1>5, <2>1, <2>2 DEF NamesLast
<1> QED  BY <1>7, <1>8

(* What has a transcript keeps it. *)
LEMMA TranscriptStays ==
  ASSUME TypeOK, Exclusive, HeadlessRunAssumption, NEW q \in Runs, Step(q),
         procs[q].indexed => procs[q].at \in {"exit", "done"},
         NEW p, NEW s, HasTranscript(s, p)
  PROVE  HasTranscript(s, p)'
<1> SUFFICES ASSUME s # None PROVE HasTranscript(s, p)'
  BY DEF HasTranscript
<1>1. PICK r \in Runs : /\ Opened(r) /\ Session(r) = s /\ Project(r) = p
                        /\ r \in saves \/ procs[r].hit
  BY DEF HasTranscript
<1>2. procs[r].at # "start"  BY <1>1 DEF Exclusive, Placed
<1>3. Session(r)' = s /\ Project(r)' = p  BY <1>1, <1>2, PathsStay
<1>4. Opened(r)'  BY <1>1, OrderStep
<1>5. procs[r].hit => procs'[r].hit  BY OthersStay, OwnSteps, ZenonT(60) DEF OwnFields
<1>6. saves \subseteq saves'
  BY DEF Step, Resolve, LoadTranscript, ConfigError, OpenJournal, Turn, SavePlan, PlanFails,
      CreateAudit, FillAudit, CreateEvidence, FillEvidence, CreateTranscript, FillTranscript,
      LoadIndex, CreateIndex, FillIndex, Exit, FileFails, Kill
<1> QED  BY <1>1, <1>3, <1>4, <1>5, <1>6 DEF HasTranscript

(* Who writes the index; what leaves it half-written is remembered. *)
LEMMA IndexWrites ==
  ASSUME TypeOK, Exclusive, HeadlessRunAssumption, NEW q \in Runs, Step(q)
  PROVE  /\ CreateIndex(q) => /\ procs[q].at = "index_create" /\ torn' = torn
                              /\ index' = [whole |-> FALSE, entries |-> procs[q].entries]
         /\ FillIndex(q) => /\ procs[q].at = "index_fill" /\ torn' = torn
                            /\ index' = [whole |-> TRUE, entries |-> index.entries]
         /\ ~CreateIndex(q) /\ ~FillIndex(q) =>
              /\ index' = index
              /\ torn' = torn \/ torn' = TRUE
              /\ procs[q].at = "index_fill" => torn' = TRUE
         /\ FillTranscript(q) => q \in saves'
<1>1. index \in [whole : BOOLEAN, entries : Entries] /\ torn \in BOOLEAN  BY DEF TypeOK
<1>2. CASE CreateIndex(q)
  BY <1>2 DEF CreateIndex, FillIndex, FillTranscript, At
<1>3. CASE FillIndex(q)
  <2>1. procs[q].at = "index_fill" /\ torn' = torn /\ index' = [index EXCEPT !.whole = TRUE]
    BY <1>3 DEF FillIndex, At
  <2>2. index' = [whole |-> TRUE, entries |-> index.entries]  BY <1>1, <2>1
  <2> QED  BY <1>3, <2>1, <2>2 DEF CreateIndex, FillTranscript, At
<1>4. CASE ~CreateIndex(q) /\ ~FillIndex(q)
  <2>1. /\ index' = index
        /\ torn' = torn \/ torn' = (torn \/ At(q, "index_fill"))
        /\ FillTranscript(q) => q \in saves'
    BY <1>4 DEF Step, Resolve, LoadTranscript, ConfigError, OpenJournal, Turn, SavePlan, PlanFails,
      CreateAudit, FillAudit, CreateEvidence, FillEvidence, CreateTranscript, FillTranscript,
      LoadIndex, Exit, FileFails, Kill
  <2>2. procs[q].at = "index_fill" => torn' = (torn \/ At(q, "index_fill"))
    BY <1>4 DEF Step, Resolve, LoadTranscript, ConfigError, OpenJournal, Turn, SavePlan, PlanFails,
      CreateAudit, FillAudit, CreateEvidence, FillEvidence, CreateTranscript, FillTranscript,
      LoadIndex, Exit, FileFails, Kill, At
  <2> QED  BY <1>1, <1>4, <2>1, <2>2 DEF At
<1> QED  BY <1>2, <1>3, <1>4

LEMMA IndexStep ==
  ASSUME IndexInv, HeadlessRunAssumption, NEW q \in Runs, Step(q), EvidenceInv'
  PROVE  IndexInv'
<1>1. TypeOK /\ Exclusive /\ \A r \in Runs : Indexing(r)
  BY DEF IndexInv, EvidenceInv
<1>2. \A r \in Runs : procs[r].indexed => procs[r].at \in {"exit", "done"}
  BY <1>1 DEF Indexing
<1>3. OwnFields(q)  BY <1>1, <1>2, OwnSteps
<1>4. \A p, s : HasTranscript(s, p) => HasTranscript(s, p)'
  BY <1>1, <1>2, TranscriptStays
<1>5. torn \in BOOLEAN /\ (torn => torn')
  <2>1. torn \in BOOLEAN  BY <1>1 DEF TypeOK
  <2> QED  BY <1>1, <2>1, IndexWrites
<1>6. ~FillIndex(q) => \A p, s : NamesLast(s, p)' <=> NamesLast(s, p)
  BY <1>1, <1>2, RecordedStays
<1>7. \A r \in Runs : procs[r].at \in Active => lock = r
  BY <1>1 DEF Exclusive, Placed
<1>8. \A r \in Runs : r # q => /\ procs'[r].at = procs[r].at
                               /\ procs'[r].entries = procs[r].entries
                               /\ procs'[r].hit = procs[r].hit
                               /\ procs'[r].indexed = procs[r].indexed
  BY <1>1, OthersStay
<1>9. saves \subseteq saves'
  BY DEF Step, Resolve, LoadTranscript, ConfigError, OpenJournal, Turn, SavePlan, PlanFails,
      CreateAudit, FillAudit, CreateEvidence, FillEvidence, CreateTranscript, FillTranscript,
      LoadIndex, CreateIndex, FillIndex, Exit, FileFails, Kill
<1>10. \A r \in Runs : Project(r) \in Projects /\ Project(r)' = Project(r)
  BY <1>1, CommandOk, PathsStay
<1>11. \A r \in Runs : r # q \/ procs[q].at # "start" => Session(r)' = Session(r)
  BY <1>1, PathsStay
<1>12. /\ procs'[q].at = "index_fill" => CreateIndex(q)
       /\ procs'[q].at = "index_create" => LoadIndex(q)
  BY <1>1, FillsWhatItCreates
(* What the run that holds the journal finds in the index. *)
<1>13. ASSUME procs[q].at \in {"index", "index_create"}, ~torn
       PROVE  index.whole
  <2>1. procs[q].at \in Active  BY <1>13 DEF Active, Filing
  <2>2. \A r \in Runs : r # q => procs[r].at # "index_fill"
    BY <1>7, <2>1 DEF Active, Filing
  <2>3. \A r \in Runs : procs[r].at # "index_fill"  BY <2>2, <1>13
  <2> QED  BY <1>13, <2>3 DEF IndexInv
<1>14. ASSUME NEW r \in Runs PROVE Indexing(r)'
  <2>1. Indexing(r)  BY <1>1
  <2>2. CASE r # q
    <3>1. /\ procs'[r].at = procs[r].at /\ procs'[r].entries = procs[r].entries
          /\ procs'[r].hit = procs[r].hit /\ procs'[r].indexed = procs[r].indexed
          /\ Session(r)' = Session(r) /\ Project(r)' = Project(r)
      BY <2>2, <1>8, <1>10, <1>11
    <3>2. ASSUME procs[r].at \in {"index_create", "index_fill"}
          PROVE  ~FillIndex(q) /\ index' = index
      <4>1. procs[q].at \notin Active  BY <2>2, <3>2, <1>7 DEF Active, Filing
      <4>2. ~FillIndex(q) /\ ~CreateIndex(q)
        BY <4>1 DEF FillIndex, CreateIndex, At, Active, Filing
      <4> QED  BY <4>2, <1>1, IndexWrites
    <3>3. procs[r].at \in {"index_create", "index_fill"} =>
            \A p \in Projects : \A s : s = procs[r].entries[p] =>
              /\ HasTranscript(s, p)'
              /\ ~torn' /\ p # Project(r) => NamesLast(s, p)'
      BY <2>1, <3>2, <1>4, <1>5, <1>6 DEF Indexing
    <3>4. procs'[r].at = "index_fill" => index'.entries = procs'[r].entries
      BY <2>1, <3>1, <3>2 DEF Indexing
    <3>5. procs'[r].indexed => procs'[r].at \in {"exit", "done"}
      BY <2>1, <3>1 DEF Indexing
    <3>6. procs'[r].at \in {"index", "index_create", "index_fill"} => r \in saves' \/ procs'[r].hit
      BY <2>1, <3>1, <1>9 DEF Indexing
    <3>7. procs'[r].at \in {"index_create", "index_fill"} =>
            procs'[r].entries[Project(r)'] = Session(r)'
      BY <2>1, <3>1 DEF Indexing
    <3>8. procs'[r].at \in {"index_create", "index_fill"} =>
            (/\ \A p \in Projects : HasTranscript(procs[r].entries[p], p)
             /\ ~torn => \A p \in Projects \ {Project(r)} : NamesLast(procs[r].entries[p], p))'
      BY <3>1, <3>3
    <3> QED  BY <3>4, <3>5, <3>6, <3>7, <3>8 DEF Indexing
  <2>3. CASE r = q
    <3>1. procs'[q].indexed => procs'[q].at \in {"exit", "done"}
      <4>1. CASE FillIndex(q)
        <5>1. procs'[q] = [procs[q] EXCEPT !.at = "exit", !.indexed = TRUE]
          BY <4>1, <1>1, FillIndexStep, Became DEF Works
        <5> QED  BY <5>1, <1>1 DEF TypeOK, Procs
      <4>2. CASE ~FillIndex(q)
        BY <4>2, <1>2, <1>3 DEF OwnFields
      <4> QED  BY <4>1, <4>2
    <3>2. CASE procs'[q].at \notin {"index", "index_create", "index_fill"}
      BY <2>3, <3>1, <3>2 DEF Indexing
    <3>3. CASE procs'[q].at = "index"
      <4>1. q \in saves' \/ procs'[q].hit
        BY <3>3, <1>1, <1>3, IndexWrites DEF OwnFields
      <4> QED  BY <2>3, <3>1, <3>3, <4>1 DEF Indexing
    <3>4. CASE procs'[q].at = "index_create"
      <4>1. LoadIndex(q)  BY <3>4, <1>12
      <4>2. procs[q].at = "index" /\ torn' = torn /\ saves' = saves /\ index' = index
        BY <4>1 DEF LoadIndex, At
      <4>3. ~FillIndex(q)  BY <4>2 DEF FillIndex, At
      <4>4. q \in saves' \/ procs'[q].hit
        BY <4>2, <2>1, <2>3, <1>3 DEF Indexing, OwnFields
      <4>5. procs[q].at \in Active /\ procs[q].at # "start"  BY <4>2 DEF Active, Filing
      <4>6. Opened(q) /\ Session(q) \in Runs  BY <4>5, <1>1, WriterKnows
      <4>7. LoadedIndex \in Entries
        BY <1>1 DEF TypeOK, LoadedIndex, NoEntries, Entries, SomeRun
      <4>8. procs'[q].entries = [LoadedIndex EXCEPT ![Project(q)] = Session(q)]
        BY <4>1, <1>3 DEF OwnFields
      <4>9. /\ procs'[q].entries[Project(q)] = Session(q)
            /\ \A p \in Projects : p # Project(q) => procs'[q].entries[p] = LoadedIndex[p]
        BY <4>7, <4>8, <1>10 DEF Entries
      <4>10. \A p \in Projects : HasTranscript(LoadedIndex[p], p)
        <5>1. CASE index.whole  BY <5>1 DEF LoadedIndex, IndexInv
        <5>2. CASE ~index.whole
          <6>1. \A p \in Projects : LoadedIndex[p] = None  BY <5>2 DEF LoadedIndex, NoEntries
          <6> QED  BY <6>1 DEF HasTranscript
        <5> QED  BY <5>1, <5>2
      <4>11. HasTranscript(Session(q), Project(q))
        BY <4>2, <4>6, <2>1, <2>3 DEF HasTranscript, Indexing
      <4>12. \A p \in Projects : \A s : s = procs'[q].entries[p] => HasTranscript(s, p)
        BY <4>9, <4>10, <4>11
      <4>13. ASSUME ~torn', NEW p \in Projects \ {Project(q)}
             PROVE  NamesLast(procs[q].entries[p], p)'
        <5>1. ~torn /\ index.whole  BY <4>2, <4>13, <1>13
        <5>2. LoadedIndex = index.entries  BY <5>1 DEF LoadedIndex
        <5>3. NamesLast(index.entries[p], p)  BY <5>1 DEF IndexInv
        <5>4. index.entries[p] = procs'[q].entries[p]  BY <5>2, <4>9
        <5>5. \A s : s = index.entries[p] => NamesLast(s, p)'  BY <5>3, <4>3, <1>6
        <5> QED  BY <5>4, <5>5
      <4>14. Session(q)' = Session(q) /\ Project(q)' = Project(q)
        BY <4>5, <1>10, <1>11
      <4>15. \A p \in Projects : HasTranscript(procs[q].entries[p], p)'
        BY <4>12, <1>4
      <4> QED  BY <2>3, <3>1, <3>4, <4>4, <4>9, <4>13, <4>14, <4>15 DEF Indexing
    <3>5. CASE procs'[q].at = "index_fill"
      <4>1. CreateIndex(q)  BY <3>5, <1>12
      <4>2. /\ procs[q].at = "index_create" /\ torn' = torn /\ saves' = saves
            /\ index' = [whole |-> FALSE, entries |-> procs[q].entries]
        BY <4>1 DEF CreateIndex, At
      <4>3. ~FillIndex(q) /\ ~LoadIndex(q)  BY <4>2 DEF FillIndex, LoadIndex, At
      <4>4. procs'[q].entries = procs[q].entries /\ (procs[q].hit => procs'[q].hit)
        BY <4>3, <1>3 DEF OwnFields
      <4>5. index'.entries = procs'[q].entries  BY <4>2, <4>4
      <4>6. Session(q)' = Session(q) /\ Project(q)' = Project(q)
        BY <4>2, <1>10, <1>11
      <4>7. /\ procs[q].entries[Project(q)] = Session(q)
            /\ q \in saves \/ procs[q].hit
            /\ \A p \in Projects : HasTranscript(procs[q].entries[p], p)
            /\ ~torn => \A p \in Projects \ {Project(q)} : NamesLast(procs[q].entries[p], p)
        BY <2>1, <2>3, <4>2 DEF Indexing
      <4>8. \A p \in Projects : HasTranscript(procs[q].entries[p], p)'
        <5>1. \A p \in Projects : \A s : s = procs[q].entries[p] => HasTranscript(s, p)'
          BY <4>7, <1>4
        <5> QED  BY <5>1, <4>4
      <4>9. ~torn' => \A p \in Projects \ {Project(q)} : NamesLast(procs[q].entries[p], p)'
        <5>1. ~torn' => \A p \in Projects \ {Project(q)} : \A s :
                s = procs[q].entries[p] => NamesLast(s, p)'
          BY <4>2, <4>3, <4>7, <1>6
        <5> QED  BY <5>1, <4>4, <4>6
      <4> QED  BY <2>3, <3>1, <3>5, <4>2, <4>4, <4>5, <4>6, <4>7, <4>8, <4>9 DEF Indexing
    <3> QED  BY <3>2, <3>3, <3>4, <3>5
  <2> QED  BY <2>2, <2>3
<1>15. \A p \in Projects : HasTranscript(index.entries[p], p)'
  <2>1. \A p \in Projects : \A s : s = index'.entries[p] => HasTranscript(s, p)
    <3>1. CASE CreateIndex(q)
      <4>1. procs[q].at = "index_create" /\ index'.entries = procs[q].entries
        BY <3>1 DEF CreateIndex, At
      <4> QED  BY <4>1, <1>1 DEF Indexing
    <3>2. CASE ~CreateIndex(q)
      <4>1. index'.entries = index.entries
        <5>1. CASE FillIndex(q)
          <6>1. index' = [whole |-> TRUE, entries |-> index.entries]
            BY <5>1, <1>1, IndexWrites
          <6> QED  BY <6>1
        <5>2. CASE ~FillIndex(q)  BY <3>2, <5>2, <1>1, IndexWrites
        <5> QED  BY <5>1, <5>2
      <4> QED  BY <4>1 DEF IndexInv
    <3> QED  BY <3>1, <3>2
  <2> QED  BY <2>1, <1>4
<1>16. ASSUME ~torn'
       PROVE  /\ index'.whole <=> \A r \in Runs : procs'[r].at # "index_fill"
              /\ index'.whole => \A p \in Projects : NamesLast(index.entries[p], p)'
  <2>1. ~torn  BY <1>5, <1>16
  <2>2. index.whole <=> \A r \in Runs : procs[r].at # "index_fill"  BY <2>1 DEF IndexInv
  <2>3. CASE CreateIndex(q)
    <3>1. index' = [whole |-> FALSE, entries |-> procs[q].entries]  BY <2>3 DEF CreateIndex
    <3>2. procs'[q].at = "index_fill"
      <4>1. PICK to \in Active : /\ Works(q, [procs[q] EXCEPT !.at = to])
                                 /\ CreateIndex(q) => to = "index_fill"
        BY <2>3, <1>1, FilingStep
      <4>2. procs'[q] = [procs[q] EXCEPT !.at = to]  BY <4>1, <1>1, Became DEF Works
      <4> QED  BY <2>3, <4>1, <4>2, <1>1 DEF TypeOK, Procs
    <3> QED  BY <3>1, <3>2
  <2>4. CASE FillIndex(q)
    <3>1. /\ procs[q].at = "index_fill"
          /\ index' = [whole |-> TRUE, entries |-> index.entries]
      BY <2>4, <1>1, IndexWrites
    <3>2. procs[q].at \in Active  BY <3>1 DEF Active, Filing
    <3>3. \A r \in Runs : procs'[r].at # "index_fill"
      <4>1. \A r \in Runs : r # q => procs[r].at # "index_fill"
        BY <3>2, <1>7 DEF Active, Filing
      <4>2. procs'[q].at # "index_fill"
        <5>1. procs'[q].at = "index_fill" => CreateIndex(q)  BY <1>12
        <5>2. ~CreateIndex(q)  BY <3>1 DEF CreateIndex, At
        <5> QED  BY <5>1, <5>2
      <4> QED  BY <4>1, <4>2, <1>8
    <3>4. index.entries = procs[q].entries /\ procs[q].entries[Project(q)] = Session(q)
      BY <3>1, <1>1 DEF Indexing
    <3>5. \A p \in Projects \ {Project(q)} : NamesLast(procs[q].entries[p], p)
      BY <3>1, <2>1, <1>1 DEF Indexing
    <3>6. /\ NamesLast(Session(q), Project(q))'
          /\ \A s, p : p # Project(q) => (NamesLast(s, p)' <=> NamesLast(s, p))
      BY <2>4, <1>1, <1>2, RecordedGrows
    <3>7. ASSUME NEW p \in Projects PROVE NamesLast(index.entries[p], p)'
      <4>1. index'.entries = index.entries /\ index'.whole = TRUE  BY <3>1
      <4>2. CASE p = Project(q)
        <5>1. index.entries[p] = Session(q)  BY <4>2, <3>4
        <5>2. Session(q)' = Session(q) /\ Project(q)' = Project(q)
          BY <3>1, <1>10, <1>11
        <5>3. \A s : s = Session(q)' => NamesLast(s, Project(q))'  BY <3>6
        <5> QED  BY <5>1, <5>2, <5>3, <4>1, <4>2
      <4>3. CASE p # Project(q)
        <5>1. NamesLast(index.entries[p], p)  BY <4>3, <3>4, <3>5
        <5>2. \A s : s = index.entries[p] => NamesLast(s, p)'  BY <5>1, <4>3, <3>6
        <5> QED  BY <5>2, <4>1
      <4> QED  BY <4>2, <4>3
    <3>8. index'.whole = TRUE  BY <3>1
    <3> QED  BY <3>3, <3>7, <3>8
  <2>5. CASE ~CreateIndex(q) /\ ~FillIndex(q)
    <3>1. index' = index /\ procs[q].at # "index_fill"
      BY <2>5, <1>1, <1>16, IndexWrites
    <3>2. procs'[q].at # "index_fill"  BY <2>5, <1>12
    <3>3. index'.whole <=> \A r \in Runs : procs'[r].at # "index_fill"
      BY <3>1, <3>2, <2>2, <1>8
    <3>4. index.whole => \A p \in Projects : \A s : s = index.entries[p] => NamesLast(s, p)'
      BY <2>1, <2>5, <1>6 DEF IndexInv
    <3> QED  BY <3>1, <3>3, <3>4
  <2> QED  BY <2>3, <2>4, <2>5
<1> QED  BY <1>14, <1>15, <1>16 DEF IndexInv

(* `akmon --continue` finds the last session of its project, and never one *)
(* that no run of the project saved or failed to save.                     *)
THEOREM ContinueHolds == Spec => [](IndexInv /\ ContinueFindsLast)
<1>1. Init => IndexInv
  <2> SUFFICES ASSUME Init PROVE IndexInv  OBVIOUS
  <2>1. EvidenceInv  BY InitEvidence, HeadlessRunAssumption
  <2>2. \A r \in Runs : procs[r].at = "start" /\ procs[r].indexed = FALSE
    BY DEF Init
  <2>3. index = [whole |-> TRUE, entries |-> NoEntries] /\ torn = FALSE  BY DEF Init
  <2>4. \A p \in Projects : index.entries[p] = None  BY <2>3 DEF NoEntries
  <2>5. \A p : Recorded(p) = {}  BY <2>2 DEF Recorded
  <2>6. \A r \in Runs : Indexing(r)  BY <2>2 DEF Indexing
  <2> QED
    BY <2>1, <2>2, <2>3, <2>4, <2>5, <2>6 DEF IndexInv, HasTranscript, NamesLast
<1>2. IndexInv /\ [Next]_vars => IndexInv'
  <2> SUFFICES ASSUME IndexInv, [Next]_vars PROVE IndexInv'  OBVIOUS
  <2>1. EvidenceInv'  BY EvidenceStep, HeadlessRunAssumption DEF IndexInv
  <2>2. CASE UNCHANGED vars
    <3>1. /\ procs' = procs /\ index' = index /\ saves' = saves /\ torn' = torn
          /\ order' = order
      BY <2>2 DEF vars
    <3>2. /\ \A a : Opened(a)' <=> Opened(a)
          /\ \A r : OpenedSince(r)' = OpenedSince(r)
          /\ \A r : Session(r)' = Session(r) /\ Project(r)' = Project(r)
      BY <3>1 DEF Opened, OpenedSince, Precedes, Session, Project
    <3>3. /\ \A p : Recorded(p)' = Recorded(p)
          /\ \A s, p : HasTranscript(s, p)' <=> HasTranscript(s, p)
      BY <3>1, <3>2 DEF Recorded, HasTranscript
    <3>4. \A s, p : NamesLast(s, p)' <=> NamesLast(s, p)
      BY <3>2, <3>3 DEF NamesLast
    <3>5. \A r \in Runs : Indexing(r)'
      BY <3>1, <3>2, <3>3, <3>4 DEF Indexing, IndexInv
    <3> QED  BY <2>1, <3>1, <3>3, <3>4, <3>5 DEF IndexInv
  <2>3. CASE Next
    BY <2>1, <2>3, NextIsStep, IndexStep, HeadlessRunAssumption
  <2> QED  BY <2>2, <2>3
<1>3. IndexInv => ContinueFindsLast
  <2> SUFFICES ASSUME IndexInv, NEW p \in Projects
               PROVE  LET s == LoadedIndex[p] IN
                      /\ (index.whole /\ ~torn) => NamesLast(s, p)
                      /\ HasTranscript(s, p)
    BY DEF ContinueFindsLast, NamesLast, HasTranscript, Recorded
  <2>1. CASE index.whole  BY <2>1 DEF LoadedIndex, IndexInv
  <2>2. CASE ~index.whole
    <3>1. LoadedIndex[p] = None  BY <2>2 DEF LoadedIndex, NoEntries
    <3> QED  BY <2>2, <3>1 DEF HasTranscript
  <2> QED  BY <2>1, <2>2
<1> QED  BY <1>1, <1>2, <1>3, PTL DEF Spec

-----------------------------------------------------------------------------
(***************************************************************************)
(* What a resumed run starts from.                                         *)
(***************************************************************************)

(* A set of numbers has a least one. *)
Smaller == {p \in Nat \X Nat : p[1] < p[2]}

LEMMA Least ==
  ASSUME NEW T \in SUBSET Nat, T # {}
  PROVE  \E m \in T : \A n \in T : m <= n
<1>1. IsWellFoundedOn(Smaller, Nat)
  <2>1. OpToRel(<, Nat) = Smaller  BY DEF OpToRel, Smaller
  <2> QED  BY <2>1, NatLessThanWellFounded
<1>2. PICK m \in T : \A n \in T : <<n, m>> \notin Smaller
  BY <1>1, WFMin, Zenon
<1>3. ASSUME NEW n \in T PROVE m <= n
  <2>1. <<n, m>> \in Nat \X Nat /\ <<n, m>>[1] = n /\ <<n, m>>[2] = m  OBVIOUS
  <2> QED  BY <1>2, <2>1 DEF Smaller
<1> QED  BY <1>3

(* Of some runs that opened the journal one was the last. *)
LEMMA LastRun ==
  ASSUME order \in Seq(Runs), Distinct(order), NEW E, E # {}, \A q \in E : Opened(q)
  PROVE  \E q \in E : \A o \in E : o = q \/ Precedes(o, q)
<1> DEFINE T == {k \in Nat : k < Len(order) /\ order[Len(order) - k] \in E}
<1>1. Len(order) \in Nat  OBVIOUS
<1>2. ASSUME NEW q \in E
      PROVE  \E k \in T : order[Len(order) - k] = q
  <2>1. PICK i \in 1..Len(order) : order[i] = q  BY <1>2 DEF Opened
  <2>2. /\ Len(order) - i \in Nat /\ Len(order) - i < Len(order)
        /\ Len(order) - (Len(order) - i) = i
    BY <1>1, <2>1
  <2> QED  BY <2>1, <2>2
<1>3. T \in SUBSET Nat /\ T # {}  BY <1>2
<1>4. PICK m \in T : \A n \in T : m <= n
  <2> HIDE DEF T
  <2> QED  BY <1>3, Least
<1> DEFINE q == order[Len(order) - m]
<1>5. q \in E /\ m \in Nat /\ m < Len(order)  BY <1>4
<1>6. ASSUME NEW o \in E, o # q PROVE Precedes(o, q)
  <2>1. PICK k \in T : order[Len(order) - k] = o  BY <1>2
  <2>2. k \in Nat /\ k < Len(order) /\ m <= k /\ k # m  BY <1>4, <1>6, <2>1
  <2>3. /\ Len(order) - k \in 1..Len(order) /\ Len(order) - m \in 1..Len(order)
        /\ Len(order) - k < Len(order) - m
    BY <1>1, <1>5, <2>2
  <2> QED  BY <2>1, <2>3 DEF Precedes
<1> HIDE DEF q
<1> QED  BY <1>5, <1>6

(* Rows of a transcript that are extended by one. *)
LEMMA ExtendedRows ==
  ASSUME NEW rows \in Seq(Runs), NEW r \in Runs
  PROVE  /\ Append(rows, r) \in Seq(Runs)
         /\ Len(Append(rows, r)) = Len(rows) + 1 /\ Len(rows) \in Nat
         /\ \A i \in 1..Len(rows) : Append(rows, r)[i] = rows[i]
         /\ Append(rows, r)[Len(rows) + 1] = r
         /\ \A i \in 1..Len(Append(rows, r)) : i \in 1..Len(rows) \/ i = Len(rows) + 1
         /\ \A q : In(q, Append(rows, r)) <=> In(q, rows) \/ q = r
<1>1. /\ Append(rows, r) \in Seq(Runs)
      /\ Len(Append(rows, r)) = Len(rows) + 1 /\ Len(rows) \in Nat
      /\ \A i \in 1..Len(rows) : Append(rows, r)[i] = rows[i]
      /\ Append(rows, r)[Len(rows) + 1] = r
  OBVIOUS
<1>2. \A i \in 1..Len(Append(rows, r)) : i \in 1..Len(rows) \/ i = Len(rows) + 1
  BY <1>1
<1>3. \A i \in 1..Len(rows) : i \in 1..Len(Append(rows, r))  BY <1>1
<1>4. Len(rows) + 1 \in 1..Len(Append(rows, r))  BY <1>1
<1>5. \A q : In(q, Append(rows, r)) <=> In(q, rows) \/ q = r
  <2> DEFINE longer == Append(rows, r)
  <2> HIDE DEF longer
  <2> QED  BY <1>1, <1>2, <1>3, <1>4 DEF In, longer
<1> QED  BY <1>1, <1>2, <1>5

(* The last run of a session saved the whole conversation: what is read then *)
(* is whole for the run that opens the journal next.                       *)
LEMMA LastSaveIsWhole ==
  ASSUME ResumeInv, HeadlessRunAssumption, NEW r \in Runs, Session(r) \in Runs,
         NEW last \in Runs, Opened(last), Session(last) = Session(r),
         \A q \in Runs : Opened(q) /\ Session(q) = Session(r) => q = last \/ Precedes(q, last),
         \A q \in Runs : Opened(q) /\ Session(q) = Session(r) => q \in saves /\ SameProject(q, r),
         NEW read, read = ResumeMessages(Session(r), Project(r))
  PROVE  /\ \A q \in Runs : In(q, read) <=> /\ Opened(q) /\ Session(q) = Session(r)
                                            /\ In(q, procs[q].context)
         /\ \A i, j \in 1..Len(read) : i < j => Precedes(read[i], read[j])
<1>1. TypeOK /\ Exclusive  BY DEF ResumeInv, IndexInv, EvidenceInv
<1>2. LastOf(last)
  <2>1. \A q \in OpenedSince(last) : q \in Runs /\ Opened(q) /\ Precedes(last, q)
    BY <1>1, OrderFacts DEF TypeOK, Exclusive, OpenedSince
  <2>2. \A q \in OpenedSince(last) : Session(q) # Session(last)
    BY <1>1, <2>1, OrderFacts DEF TypeOK, Exclusive
  <2> QED  BY <2>2 DEF LastOf
<1>3. last \in saves /\ SameProject(last, r)  OBVIOUS
<1>4. transcripts[Session(r)] = Saved(last, TRUE)
  BY <1>2, <1>3 DEF ResumeInv, SavesIt
<1>5. read = procs[last].context
  <2>1. Project(last) = Project(r)  BY <1>3 DEF SameProject
  <2> DEFINE rows == procs[last].context
             project == Project(last)
  <2>2. rows \in Seq(Runs) /\ project \in Projects  BY <1>1, CommandOk DEF TypeOK, Procs
  <2>3. transcripts[Session(r)] = [whole |-> TRUE, project |-> project, rows |-> rows]
    BY <1>4 DEF Saved
  <2> HIDE DEF rows, project
  <2>4. [whole |-> TRUE, project |-> project, rows |-> rows] \in Transcripts
    BY <2>2 DEF Transcripts
  <2>5. transcripts[Session(r)] # None  BY <2>3, <2>4 DEF HeadlessRunAssumption
  <2>6. /\ transcripts[Session(r)].whole /\ transcripts[Session(r)].project = project
        /\ transcripts[Session(r)].rows = rows
    BY <2>3
  <2> QED  BY <2>1, <2>5, <2>6 DEF ResumeMessages, rows, project
<1>6. \A q \in Runs : Opened(q) /\ Session(q) = Session(r) <=> q \in Earlier(last) \/ q = last
  BY <1>1, OrderFacts DEF TypeOK, Exclusive, Earlier
<1>7. GoodHistory(last)
  <2>1. ~procs[last].stale  BY <1>3 DEF SameProject
  <2>2. ASSUME NEW q \in Earlier(last) PROVE q \in saves /\ SameProject(q, last)
    <3>1. q \in Runs  BY DEF Earlier
    <3>2. q \in saves /\ SameProject(q, r)  BY <3>1, <1>6
    <3> QED  BY <3>2, <1>3 DEF SameProject
  <2> QED  BY <2>1, <2>2 DEF GoodHistory
<1>8. Whole(last)  BY <1>7 DEF ResumeInv
<1> DEFINE before == procs[last].read
<1>9. /\ before \in Seq(Runs) /\ procs[last].context \in {before, Append(before, last)}
      /\ \A i \in 1..Len(before) : Precedes(before[i], last)
  BY <1>1 DEF ResumeInv, Reading, TypeOK, Procs
<1>10. /\ \A q \in Runs : In(q, before) <=> q \in Earlier(last) /\ In(q, procs[q].context)
       /\ \A i, j \in 1..Len(before) : i < j => Precedes(before[i], before[j])
  BY <1>8 DEF Whole
<1>11. ~In(last, before)
  <2> SUFFICES ASSUME In(last, before) PROVE FALSE  OBVIOUS
  <2>1. PICK i \in 1..Len(before) : before[i] = last  BY DEF In
  <2>2. Precedes(last, last)  BY <2>1, <1>9
  <2> QED  BY <1>1, <2>2, OrderFacts DEF TypeOK, Exclusive
<1> HIDE DEF before
<1>12. last \notin Earlier(last)  BY <1>1, OrderFacts DEF Earlier, TypeOK, Exclusive
<1>13. CASE read = before
  BY <1>5, <1>6, <1>10, <1>11, <1>13
<1>14. CASE read = Append(before, last)
  <2>1. \A q : In(q, read) <=> In(q, before) \/ q = last  BY <1>9, <1>14, ExtendedRows
  <2>2. \A q \in Runs : In(q, read) <=> /\ Opened(q) /\ Session(q) = Session(r)
                                        /\ In(q, procs[q].context)
    BY <1>5, <1>6, <1>10, <2>1
  <2>3. ASSUME NEW i \in 1..Len(read), NEW j \in 1..Len(read), i < j
        PROVE  Precedes(read[i], read[j])
    <3>1. /\ Len(before) \in Nat /\ Len(read) = Len(before) + 1
          /\ \A k \in 1..Len(before) : read[k] = before[k]
          /\ read[Len(before) + 1] = last
      BY <1>9, <1>14, ExtendedRows
    <3>2. i \in 1..Len(before) /\ (j \in 1..Len(before) \/ j = Len(before) + 1)
      BY <2>3, <3>1
    <3> QED  BY <2>3, <3>1, <3>2, <1>9, <1>10
  <2> QED  BY <2>2, <2>3
<1> QED  BY <1>5, <1>9, <1>13, <1>14

LEMMA WholeOnEntering ==
  ASSUME ResumeInv, HeadlessRunAssumption, NEW q \in Runs, Enters(q), Step(q),
         GoodHistory(q)'
  PROVE  Whole(q)'
<1>1. TypeOK /\ Exclusive  BY DEF ResumeInv, IndexInv, EvidenceInv
<1>2. /\ \A a, b : Precedes(a, b)' <=> Precedes(a, b) \/ (Opened(a) /\ b = q)
      /\ ~Opened(q) /\ procs[q].at = "open" /\ lock = None
  BY <1>1, OrderGrows DEF Enters, TypeOK
<1>3. procs[q].at # "start"  BY <1>2
<1>4. \A r \in Runs : Session(r)' = Session(r) /\ Project(r)' = Project(r)
  BY <1>1, <1>3, PathsStay
<1>5. Session(q) \in Runs  BY <1>1, <1>2 DEF Exclusive, Placed
<1>6. /\ procs'[q].read = procs[q].read /\ procs'[q].stale = procs[q].stale
  BY <1>1, <1>2, EntersFields DEF Enters
<1>7. \A r \in Runs : r # q => procs'[r].context = procs[r].context
                               /\ (procs[r].stale => procs'[r].stale)
  BY <1>1, OthersStay
<1>8. \A a : Precedes(a, q) => FALSE
  BY <1>1, <1>2, OrderFacts DEF TypeOK, Exclusive
<1>9. \A r \in Runs : r \in Earlier(q)' <=> Opened(r) /\ Session(r) = Session(q)
  BY <1>2, <1>4, <1>8 DEF Earlier
<1>10. saves' = saves  BY <1>2 DEF Step, Resolve, LoadTranscript, ConfigError, OpenJournal, Turn,
      SavePlan, PlanFails, CreateAudit, FillAudit, CreateEvidence, FillEvidence,
      CreateTranscript, FillTranscript, LoadIndex, CreateIndex, FillIndex, Exit, FileFails,
      Kill, At
<1>11. ~procs[q].stale  BY <1>6 DEF GoodHistory
<1>12. \A r \in Runs : Opened(r) /\ Session(r) = Session(q) => r \in saves /\ SameProject(r, q)
  <2> SUFFICES ASSUME NEW r \in Runs, Opened(r), Session(r) = Session(q)
               PROVE  r \in saves /\ SameProject(r, q)
    OBVIOUS
  <2>1. r \in Earlier(q)' /\ r # q  BY <1>2, <1>9
  <2>2. r \in saves' /\ SameProject(r, q)'  BY <2>1 DEF GoodHistory
  <2>3. ~procs'[r].stale /\ Project(r)' = Project(q)'  BY <2>2 DEF SameProject
  <2> QED  BY <2>1, <2>2, <2>3, <1>4, <1>7, <1>10 DEF SameProject
<1> DEFINE E == {r \in Runs : Opened(r) /\ Session(r) = Session(q)}
           read == procs[q].read
<1>13. /\ \A r \in Runs : In(r, read) <=> r \in E /\ In(r, procs[r].context)
       /\ \A i, j \in 1..Len(read) : i < j => Precedes(read[i], read[j])
  <2>1. CASE ~procs[q].resumed
    <3>1. read = <<>>  BY <2>1 DEF ResumeInv, Reading
    <3>2. Session(q) = q  BY <2>1, <1>5, HeadlessRunAssumption
      DEF ResumeInv, Chosen, HeadlessRunAssumption
    <3>3. E = {}
      <4> SUFFICES ASSUME NEW r \in E PROVE FALSE  OBVIOUS
      <4>1. Chosen(r) /\ Session(r) # None
        BY <1>5, HeadlessRunAssumption DEF ResumeInv, HeadlessRunAssumption
      <4> QED  BY <4>1, <3>2, <1>2 DEF Chosen
    <3>4. Len(read) = 0 /\ 1..Len(read) = {}  BY <3>1
    <3> QED  BY <3>3, <3>4 DEF In
  <2>2. CASE procs[q].resumed
    <3>1. read = ResumeMessages(Session(q), Project(q))
      BY <2>2, <1>2, <1>11 DEF ResumeInv, UpToDate
    <3>2. CASE E = {}
      <4>1. transcripts[Session(q)] = None  BY <3>2, <1>5 DEF ResumeInv, OfRuns
      <4>2. read = <<>>  BY <3>1, <4>1 DEF ResumeMessages
      <4>3. Len(read) = 0 /\ 1..Len(read) = {}  BY <4>2
      <4> QED  BY <3>2, <4>3 DEF In
    <3>3. CASE E # {}
      <4>1. \A r \in E : Opened(r)  OBVIOUS
      <4>2. PICK last \in E : \A r \in E : r = last \/ Precedes(r, last)
        <5> HIDE DEF E
        <5> QED  BY <3>3, <4>1, <1>1, LastRun DEF TypeOK, Exclusive
      <4>3. last \in Runs /\ Opened(last) /\ Session(last) = Session(q)  OBVIOUS
      <4>4. \A r \in Runs : Opened(r) /\ Session(r) = Session(q) => r = last \/ Precedes(r, last)
        BY <4>2
      <4> QED  BY <3>1, <4>3, <4>4, <1>5, <1>12, LastSaveIsWhole
    <3> QED  BY <3>2, <3>3
  <2> QED  BY <2>1, <2>2
<1> HIDE DEF read
<1>14. \A r \in Runs : In(r, procs[q].read)' <=> r \in Earlier(q)' /\ In(r, procs[r].context)'
  <2> SUFFICES ASSUME NEW r \in Runs
               PROVE  In(r, procs[q].read)' <=> r \in Earlier(q)' /\ In(r, procs[r].context)'
    OBVIOUS
  <2>1. In(r, procs[q].read)' <=> In(r, read)  BY <1>6 DEF In, read
  <2>2. r \in Earlier(q)' <=> r \in E  BY <1>9
  <2>3. r \in E => r # q  BY <1>2
  <2>4. r # q => (In(r, procs[r].context)' <=> In(r, procs[r].context))
    BY <1>7 DEF In
  <2> QED  BY <2>1, <2>2, <2>3, <2>4, <1>13
<1>15. (\A i, j \in 1..Len(procs[q].read) :
          i < j => Precedes(procs[q].read[i], procs[q].read[j]))'
  BY <1>2, <1>6, <1>13 DEF read
<1> QED  BY <1>14, <1>15 DEF Whole

(* Nothing changes what a run has read that has opened the journal, nor who *)
(* was before it.                                                          *)
LEMMA WholeStays ==
  ASSUME ResumeInv, HeadlessRunAssumption, NEW q \in Runs, Step(q),
         NEW r \in Runs, Opened(r), GoodHistory(r)'
  PROVE  Whole(r)'
<1>1. TypeOK /\ Exclusive /\ \A o \in Runs : Indexing(o)
  BY DEF ResumeInv, IndexInv, EvidenceInv
<1>2. OwnFields(q)  BY <1>1, OwnSteps DEF Indexing
<1>3. procs[r].at \notin {"start", "load"}  BY <1>1 DEF Exclusive, Placed
<1>4. /\ procs'[r].read = procs[r].read /\ (procs[r].stale => procs'[r].stale)
  <2>1. CASE r = q
    <3>1. ~LoadTranscript(q)  BY <1>3, <2>1 DEF LoadTranscript, At
    <3> QED  BY <2>1, <3>1, <1>2 DEF OwnFields
  <2>2. CASE r # q  BY <2>2, <1>1, OthersStay
  <2> QED  BY <2>1, <2>2
<1>5. \A a, b : Precedes(a, b) => Precedes(a, b)'  BY <1>1, OrderStep
<1>6. \A a : Precedes(a, r)' <=> Precedes(a, r)
  <2>1. Enters(q) => r # q  BY DEF Enters
  <2> QED  BY <1>1, <2>1, OrderStep
<1>7. ASSUME NEW o \in Runs, Precedes(o, r)
      PROVE  /\ procs[o].at = "done" /\ o # q /\ Session(o)' = Session(o)
             /\ Project(o)' = Project(o) /\ procs'[o].context = procs[o].context
             /\ (procs[o].stale => procs'[o].stale)
  <2>1. Opened(o)  BY <1>1, <1>7, OrderFacts DEF TypeOK, Exclusive
  <2>2. lock # o
    <3>1. o # None  BY HeadlessRunAssumption DEF HeadlessRunAssumption
    <3> QED  BY <1>1, <1>7, <3>1 DEF Exclusive, LastOpened
  <2>3. procs[o].at = "done"  BY <1>1, <2>1, <2>2 DEF Exclusive, Placed
  <2>4. o # q  BY <2>3, <1>2 DEF OwnFields
  <2>5. /\ procs'[o].context = procs[o].context /\ (procs[o].stale => procs'[o].stale)
    BY <2>4, <1>1, OthersStay
  <2>6. Session(o)' = Session(o) /\ Project(o)' = Project(o)  BY <2>4, <1>1, PathsStay
  <2> QED  BY <2>3, <2>4, <2>5, <2>6
<1>8. Session(r)' = Session(r) /\ Project(r)' = Project(r)  BY <1>1, <1>3, PathsStay
<1>9. Earlier(r)' = Earlier(r)
  BY <1>6, <1>7, <1>8 DEF Earlier
<1>10. \A o : o \in saves' /\ o # q => o \in saves
  BY DEF Step, Resolve, LoadTranscript, ConfigError, OpenJournal, Turn, SavePlan, PlanFails,
      CreateAudit, FillAudit, CreateEvidence, FillEvidence, CreateTranscript, FillTranscript,
      LoadIndex, CreateIndex, FillIndex, Exit, FileFails, Kill
<1>11. GoodHistory(r)
  <2>1. ~procs[r].stale  BY <1>4 DEF GoodHistory
  <2>2. ASSUME NEW o \in Earlier(r) PROVE o \in saves /\ SameProject(o, r)
    <3>1. o \in Runs /\ Precedes(o, r)  BY DEF Earlier
    <3>2. o \in saves' /\ SameProject(o, r)'  BY <1>9 DEF GoodHistory
    <3> QED  BY <3>1, <3>2, <1>7, <1>8, <1>10 DEF SameProject
  <2> QED  BY <2>1, <2>2 DEF GoodHistory
<1>12. Whole(r)  BY <1>11 DEF ResumeInv
<1>13. \A o \in Runs : (In(o, procs[r].read) <=> o \in Earlier(r) /\ In(o, procs[o].context))'
  <2> SUFFICES ASSUME NEW o \in Runs
               PROVE  (In(o, procs[r].read) <=> o \in Earlier(r) /\ In(o, procs[o].context))'
    OBVIOUS
  <2>1. In(o, procs[r].read)' <=> In(o, procs[r].read)  BY <1>4 DEF In
  <2>2. o \in Earlier(r) => (In(o, procs[o].context)' <=> In(o, procs[o].context))
    BY <1>7 DEF Earlier, In
  <2> QED  BY <2>1, <2>2, <1>9, <1>12 DEF Whole
<1>14. (\A i, j \in 1..Len(procs[r].read) :
          i < j => Precedes(procs[r].read[i], procs[r].read[j]))'
  BY <1>4, <1>5, <1>12 DEF Whole
<1> QED  BY <1>13, <1>14 DEF Whole

(* The entries of the index, and the sessions with a journal, are of runs   *)
(* that opened it.                                                         *)
LEMMA FoundWasOpened ==
  ASSUME ResumeInv, HeadlessRunAssumption, NEW s \in Runs, NEW p \in Projects,
         s = LoadedIndex[p] \/ journal[s] # <<>>
  PROVE  Opened(s)
<1>1. CASE journal[s] # <<>>  BY <1>1 DEF ResumeInv
<1>2. CASE s = LoadedIndex[p]
  <2>1. s # None  BY DEF HeadlessRunAssumption
  <2>2. s = index.entries[p]  BY <1>2, <2>1 DEF LoadedIndex, NoEntries
  <2>3. HasTranscript(s, p)  BY <2>2 DEF ResumeInv, IndexInv
  <2>4. PICK r \in Runs : Opened(r) /\ Session(r) = s  BY <2>1, <2>3 DEF HasTranscript
  <2>5. Chosen(r)  BY DEF ResumeInv
  <2> QED  BY <2>1, <2>4, <2>5 DEF Chosen
<1> QED  BY <1>1, <1>2

LEMMA ChosenStep ==
  ASSUME ResumeInv, HeadlessRunAssumption, NEW q \in Runs, Step(q), NEW r \in Runs
  PROVE  Chosen(r)'
<1>1. TypeOK /\ Exclusive /\ \A o \in Runs : Indexing(o)
  BY DEF ResumeInv, IndexInv, EvidenceInv
<1>2. OwnFields(q)  BY <1>1, OwnSteps DEF Indexing
<1>3. Chosen(r)  BY DEF ResumeInv
<1>4. \A a : Opened(a) => Opened(a)'  BY <1>1, OrderStep
<1>5. CASE procs'[r].resumed = procs[r].resumed /\ procs'[r].session = procs[r].session
  BY <1>3, <1>4, <1>5 DEF Chosen, Session
<1>6. CASE r # q  BY <1>1, <1>5, <1>6, OthersStay
<1>7. CASE r = q /\ ~Resolve(q)
  <2>1. procs'[q].resumed = procs[q].resumed  BY <1>2, <1>7 DEF OwnFields
  <2>2. CASE procs[q].at # "start"
    BY <1>1, <1>5, <1>7, <2>1, <2>2, ItselfStays
  <2>3. CASE procs[q].at = "start"
    <3>1. ConfigError(q)
      BY <1>7, <2>3, <1>1 DEF Step, LoadTranscript, ConfigError, OpenJournal, Turn, SavePlan,
        PlanFails, CreateAudit, FillAudit, CreateEvidence, FillEvidence, CreateTranscript,
        FillTranscript, LoadIndex, CreateIndex, FillIndex, Exit, FileFails, HalfWritten, Kill, At
    <3>2. procs'[q] = [procs[q] EXCEPT !.at = "done", !.exit = "config"]
      BY <3>1, <1>1, ConfigErrorStep, Became DEF Leaves
    <3>3. procs'[q].session = procs[q].session  BY <3>2, <1>1 DEF TypeOK, Procs
    <3> QED  BY <1>5, <1>7, <2>1, <3>3
  <2> QED  BY <2>2, <2>3
<1>8. CASE r = q /\ Resolve(q)
  <2>1. procs[q] \in Procs  BY <1>1 DEF TypeOK
  <2>2. CASE Leaves(q, "no_session")
    <3>1. procs'[q] = [procs[q] EXCEPT !.at = "done", !.exit = "no_session"]
      BY <2>2, <1>1, Became DEF Leaves
    <3>2. procs'[q].session = procs[q].session /\ procs'[q].resumed = procs[q].resumed
      BY <3>1, <2>1 DEF Procs
    <3> QED  BY <1>5, <1>8, <3>2
  <2>3. ASSUME NEW s \in Runs,
               Becomes(q, [procs[q] EXCEPT !.session = s, !.at = "load",
                             !.resumed = procs[q].command.select # "new"]),
               procs[q].at = "start",
               procs[q].command.select = "new" => s = q,
               procs[q].command.select = "continue" => s = LoadedIndex[Project(q)] /\ s # None,
               procs[q].command.select = "session" => journal[s] # <<>>
        PROVE  Chosen(q)'
    <3>1. procs'[q] = [procs[q] EXCEPT !.session = s, !.at = "load",
                             !.resumed = procs[q].command.select # "new"]
      BY <1>1, <2>3, Became
    <3>2. procs'[q].session = s /\ procs'[q].resumed = (procs[q].command.select # "new")
      BY <3>1, <2>1 DEF Procs
    <3>3. ~Opened(q)  BY <1>1, <2>3 DEF Exclusive, Placed
    <3>4. procs[q].command.select \in {"new", "continue", "session"} /\ Project(q) \in Projects
      BY <1>1, CommandOk
    <3>5. CASE procs[q].command.select = "new"
      BY <2>3, <3>2, <3>5 DEF Chosen, Session
    <3>6. CASE procs[q].command.select # "new"
      <4>1. Opened(s)  BY <2>3, <3>4, <3>6, FoundWasOpened
      <4>2. s # q /\ Opened(s)'  BY <4>1, <3>3, <1>4
      <4>3. procs'[q].resumed = TRUE  BY <3>2, <3>6
      <4> QED  BY <3>2, <4>2, <4>3 DEF Chosen, Session
    <3> QED  BY <3>5, <3>6
  <2> QED  BY <1>1, <1>8, <2>2, <2>3, ResolveStep
<1> QED  BY <1>6, <1>7, <1>8

LEMMA JournalStep ==
  ASSUME ResumeInv, HeadlessRunAssumption, NEW q \in Runs, Step(q), NEW s \in Runs
  PROVE  journal'[s] # <<>> => Opened(s)'
<1>1. TypeOK /\ Exclusive  BY DEF ResumeInv, IndexInv, EvidenceInv
<1>2. Opened(s) => Opened(s)'  BY <1>1, OrderStep
<1>3. CASE journal' = journal  BY <1>2, <1>3 DEF ResumeInv
<1>4. CASE Turn(q)
  <2>1. procs[q].at \in Active  BY <1>4 DEF Turn, At, Active
  <2>2. Session(q) \in Runs /\ Opened(q)  BY <1>1, <2>1, WriterKnows
  <2>3. Opened(Session(q))
    <3>1. Chosen(q) /\ Session(q) # None
      BY <2>2 DEF ResumeInv, HeadlessRunAssumption
    <3> QED  BY <2>2, <3>1 DEF Chosen
  <2>4. journal' = [journal EXCEPT ![Session(q)] = Append(@, q)]  BY <1>4 DEF Turn
  <2>5. s # Session(q) => journal'[s] = journal[s]  BY <2>4, <1>1 DEF TypeOK
  <2> QED  BY <1>2, <2>3, <2>5 DEF ResumeInv
<1>5. Turn(q) \/ journal' = journal
  BY DEF Step, Resolve, LoadTranscript, ConfigError, OpenJournal, SavePlan, PlanFails,
      CreateAudit, FillAudit, CreateEvidence, FillEvidence, CreateTranscript, FillTranscript,
      LoadIndex, CreateIndex, FillIndex, Exit, FileFails, Kill
<1> QED  BY <1>3, <1>4, <1>5

(* Every row of what is read or saved is of a run that opened the journal. *)
AllOpened(rows) == \A i \in 1..Len(rows) : Opened(rows[i])

LEMMA ContextOpened ==
  ASSUME ResumeInv, NEW r \in Runs, Opened(r)
  PROVE  AllOpened(procs[r].context)
<1>1. procs[r].read \in Seq(Runs)
  BY DEF ResumeInv, IndexInv, EvidenceInv, TypeOK, Procs
<1>2. /\ AllOpened(procs[r].read)
      /\ procs[r].context \in {procs[r].read, Append(procs[r].read, r)}
  BY DEF ResumeInv, Reading, AllOpened
<1>3. CASE procs[r].context = Append(procs[r].read, r)
  <2> DEFINE read == procs[r].read
             rows == Append(read, r)
  <2>1. /\ \A i \in 1..Len(read) : rows[i] = read[i]
        /\ rows[Len(read) + 1] = r
        /\ \A i \in 1..Len(rows) : i \in 1..Len(read) \/ i = Len(read) + 1
    BY <1>1, ExtendedRows
  <2> HIDE DEF rows
  <2>2. AllOpened(rows)  BY <2>1, <1>2 DEF AllOpened
  <2> QED  BY <1>3, <2>2 DEF rows
<1> QED  BY <1>2, <1>3

LEMMA OfRunsStep ==
  ASSUME ResumeInv, HeadlessRunAssumption, NEW q \in Runs, Step(q), NEW s \in Runs
  PROVE  OfRuns(s)'
<1>1. TypeOK /\ Exclusive /\ Created  BY DEF ResumeInv, IndexInv, EvidenceInv
<1>2. \A a : Opened(a) => Opened(a)'  BY <1>1, OrderStep
<1>3. OfRuns(s)  BY DEF ResumeInv
<1>4. \A r \in Runs : Opened(r) => Session(r)' = Session(r)
  <2>1. \A r \in Runs : Opened(r) => procs[r].at # "start"  BY <1>1 DEF Exclusive, Placed
  <2> QED  BY <1>1, <2>1, PathsStay
<1>5. CASE transcripts'[s] = transcripts[s]
  <2>1. CASE transcripts[s] = None  BY <1>5, <2>1 DEF OfRuns
  <2>2. CASE transcripts[s] # None
    <3>1. PICK r \in Runs : Opened(r) /\ Session(r) = s  BY <1>3, <2>2 DEF OfRuns
    <3>2. Opened(r)' /\ Session(r)' = s  BY <3>1, <1>2, <1>4
    <3>3. \A i \in 1..Len(transcripts'[s].rows) : Opened(transcripts[s].rows[i])'
      <4>1. \A i \in 1..Len(transcripts[s].rows) : \A a :
              a = transcripts[s].rows[i] => Opened(a)'
        BY <1>2, <1>3, <2>2 DEF OfRuns
      <4> QED  BY <4>1, <1>5
    <3> QED  BY <3>2, <3>3 DEF OfRuns
  <2> QED  BY <2>1, <2>2
<1>6. CASE transcripts'[s] # transcripts[s]
  <2>1. procs[q].at \in {"save", "save_fill"} /\ s = Session(q)
    BY <1>1, <1>6, TranscriptSteps
  <2>2. procs[q].at \in Active  BY <2>1 DEF Active, Filing
  <2>3. Opened(q)  BY <1>1, <2>2, WriterKnows
  <2>4. transcripts \in [Runs -> Transcripts \union {None}]  BY <1>1 DEF TypeOK
  <2>5. transcripts'[s].rows = procs[q].context
    <3>1. CASE CreateTranscript(q)
      <4>1. transcripts' = [transcripts EXCEPT ![s] = [whole |-> FALSE, project |-> Project(q),
                              rows |-> procs[q].context]]
        BY <3>1, <2>1 DEF CreateTranscript
      <4>2. transcripts'[s] = [whole |-> FALSE, project |-> Project(q), rows |-> procs[q].context]
        <5> HIDE DEF Transcripts
        <5> QED  BY <4>1, <2>4
      <4> QED  BY <4>2
    <3>2. CASE FillTranscript(q)
      <4>1. /\ transcripts' = [transcripts EXCEPT ![s].whole = TRUE]
            /\ procs[q].at = "save_fill"
        BY <3>2, <2>1 DEF FillTranscript, At
      <4>2. transcripts[s] = Saved(q, FALSE)  BY <4>1, <2>1 DEF ResumeInv, SavesIt
      <4>3. transcripts'[s] = [Saved(q, FALSE) EXCEPT !.whole = TRUE]
        <5> HIDE DEF Transcripts
        <5> QED  BY <4>1, <4>2, <2>4
      <4> QED  BY <4>3 DEF Saved
    <3>3. CASE ~CreateTranscript(q) /\ ~FillTranscript(q)
      <4>1. transcripts' = transcripts
        BY <3>3 DEF Step, Resolve, LoadTranscript, ConfigError, OpenJournal, Turn, SavePlan,
          PlanFails, CreateAudit, FillAudit, CreateEvidence, FillEvidence, LoadIndex,
          CreateIndex, FillIndex, Exit, FileFails, Kill
      <4> QED  BY <1>6, <4>1
    <3> QED  BY <3>1, <3>2, <3>3
  <2>6. \A i \in 1..Len(procs[q].context) : \A a :
          a = procs[q].context[i] => Opened(a)'
    BY <1>2, <2>3, ContextOpened DEF AllOpened
  <2>7. \A i \in 1..Len(transcripts'[s].rows) : Opened(transcripts[s].rows[i])'
    BY <2>5, <2>6
  <2>8. Opened(q)' /\ Session(q)' = s  BY <1>2, <1>4, <2>1, <2>3
  <2> QED  BY <2>7, <2>8 DEF OfRuns
<1> QED  BY <1>5, <1>6

LEMMA ReadingStep ==
  ASSUME ResumeInv, HeadlessRunAssumption, NEW q \in Runs, Step(q), NEW r \in Runs
  PROVE  Reading(r)'
<1>1. TypeOK /\ Exclusive /\ \A o \in Runs : Indexing(o)
  BY DEF ResumeInv, IndexInv, EvidenceInv
<1>2. OwnFields(q)  BY <1>1, OwnSteps DEF Indexing
<1>3. Reading(r) /\ Placed(r)  BY <1>1 DEF ResumeInv, Exclusive
<1>4. /\ \A a : Opened(a) => Opened(a)'
      /\ \A a, b : Precedes(a, b) => Precedes(a, b)'
  BY <1>1, OrderStep
<1>5. ASSUME /\ procs'[r].read = procs[r].read /\ procs'[r].context = procs[r].context
             /\ procs'[r].resumed = procs[r].resumed
             /\ procs'[r].at = "turn" => procs[r].at = "turn"
             /\ Opened(r)' <=> Opened(r)
             /\ procs'[r].at \in {"start", "load"} =>
                   procs[r].read = <<>> /\ ~procs'[r].stale
      PROVE  Reading(r)'
  <2>1. \A i \in 1..Len(procs[r].read) : \A a :
           a = procs[r].read[i] => /\ Opened(a)'
                                   /\ Opened(r) => Precedes(a, r)'
    BY <1>3, <1>4 DEF Reading
  <2>2. /\ (\A i \in 1..Len(procs[r].read) : Opened(procs[r].read[i]))'
        /\ Opened(r) => (\A i \in 1..Len(procs[r].read) : Precedes(procs[r].read[i], r))'
    BY <1>5, <2>1
  <2> QED  BY <1>3, <1>5, <2>2 DEF Reading
<1>6. CASE r # q
  <2>1. /\ procs'[r].at = procs[r].at /\ procs'[r].read = procs[r].read
        /\ procs'[r].context = procs[r].context /\ procs'[r].resumed = procs[r].resumed
        /\ procs'[r].stale # procs[r].stale => Behind(r, q)
    BY <1>1, <1>6, OthersStay
  <2>2. Opened(r)' <=> Opened(r)  BY <1>1, <1>6, OrderStep
  <2>3. procs[r].at \in {"start", "load"} => procs'[r].stale = procs[r].stale
    BY <2>1 DEF Behind, At
  <2> QED  BY <1>3, <1>5, <2>1, <2>2, <2>3 DEF Reading
<1>7. CASE r = q /\ Enters(q)
  <2>1. /\ procs'[q].at = "turn" /\ procs'[q].read = procs[q].read
        /\ procs'[q].context = procs[q].context \o procs[q].read
        /\ procs'[q].resumed = procs[q].resumed
    BY <1>1, <1>7, EntersFields
  <2>2. procs[q].context = <<>>  BY <1>3, <1>7 DEF Reading, Enters
  <2>3. procs[q].read \in Seq(Runs)  BY <1>1 DEF TypeOK, Procs
  <2>4. procs'[q].context = procs[q].read  BY <2>1, <2>2, <2>3
  <2>5. \A a : Opened(a) => Precedes(a, q)'  BY <1>1, <1>7, OrderStep
  <2>6. \A i \in 1..Len(procs[q].read) : \A a :
           a = procs[q].read[i] => Opened(a)' /\ Precedes(a, q)'
    BY <1>3, <1>4, <1>7, <2>5 DEF Reading
  <2>7. /\ (\A i \in 1..Len(procs[q].read) : Opened(procs[q].read[i]))'
        /\ (\A i \in 1..Len(procs[q].read) : Precedes(procs[q].read[i], q))'
    BY <2>1, <2>6
  <2>8. Opened(q)'  BY <1>1, <1>7, OrderStep
  <2>9. ~procs[q].resumed => procs[q].read = <<>>  BY <1>3, <1>7 DEF Reading
  <2> QED  BY <1>7, <2>1, <2>4, <2>7, <2>8, <2>9 DEF Reading
<1>8. CASE r = q /\ ~Enters(q)
  <2>1. Opened(q)' <=> Opened(q)  BY <1>1, <1>8, OrderStep
  <2>2. procs'[q].at # "turn" /\ procs'[q].at # "start"  BY <1>2, <1>8 DEF OwnFields
  <2>3. CASE Turn(q)
    <3>1. procs[q].at = "turn" /\ procs[q].at \in Active  BY <2>3 DEF Turn, At, Active
    <3>2. Opened(q)  BY <1>1, <3>1, WriterKnows
    <3>3. ~LoadTranscript(q) /\ ~Resolve(q)  BY <3>1 DEF LoadTranscript, Resolve, At
    <3>4. /\ procs'[q].read = procs[q].read /\ procs'[q].resumed = procs[q].resumed
          /\ procs'[q].context \in {procs[q].read, Append(procs[q].read, q)}
      BY <1>2, <1>3, <1>8, <2>3, <3>1, <3>2, <3>3 DEF OwnFields, Reading
    <3>5. procs'[q].at # "load"  BY <1>2, <3>3 DEF OwnFields
    <3>6. \A i \in 1..Len(procs[q].read) : \A a :
             a = procs[q].read[i] => Opened(a)' /\ Precedes(a, q)'
      BY <1>3, <1>4, <1>8, <3>2 DEF Reading
    <3>7. /\ (\A i \in 1..Len(procs[q].read) : Opened(procs[q].read[i]))'
          /\ (\A i \in 1..Len(procs[q].read) : Precedes(procs[q].read[i], q))'
      BY <3>4, <3>6
    <3>8. ~procs[q].resumed => procs[q].read = <<>>  BY <1>3, <1>8 DEF Reading
    <3> QED  BY <1>8, <2>1, <2>2, <3>2, <3>4, <3>5, <3>7, <3>8 DEF Reading
  <2>4. CASE LoadTranscript(q)
    <3>1. procs[q].at = "load" /\ ~Resolve(q) /\ ~Turn(q) /\ ~Opened(q)
      BY <2>4, <1>1 DEF LoadTranscript, Resolve, Turn, At, Exclusive, Placed
    <3>2. Session(q) \in Runs  BY <3>1, <1>1 DEF Exclusive, Placed
    <3>3. procs'[q] = [procs[q] EXCEPT !.at = "open", !.stale = Overtaken(q),
                                       !.read = Readable(q)]
      BY <1>1, <2>4, <3>2, LoadStep, Became
    <3>4. procs'[q].at = "open" /\ procs'[q].read = Readable(q)
      BY <3>3, <1>1 DEF TypeOK, Procs
    <3>5. procs'[q].context = <<>> /\ procs'[q].resumed = procs[q].resumed
      BY <1>2, <1>3, <1>8, <3>1 DEF OwnFields, Reading
    <3>6. \A i \in 1..Len(Readable(q)) : Opened(Readable(q)[i])
      <4>1. CASE Readable(q) = <<>>
        <5>1. 1..Len(Readable(q)) = {}  BY <4>1
        <5> QED  BY <5>1
      <4>2. CASE Readable(q) # <<>>
        <5>1. /\ transcripts[Session(q)] # None
              /\ Readable(q) = transcripts[Session(q)].rows
          BY <4>2 DEF Readable, ResumeMessages
        <5> QED  BY <5>1, <3>2 DEF ResumeInv, OfRuns
      <4> QED  BY <4>1, <4>2
    <3>7. \A i \in 1..Len(Readable(q)) : \A a : a = Readable(q)[i] => Opened(a)'
      BY <1>4, <3>6
    <3> DEFINE rows == Readable(q)
    <3>8. (\A i \in 1..Len(procs[q].read) : Opened(procs[q].read[i]))'
      BY <3>4, <3>7
    <3>9. ~procs'[q].resumed => procs'[q].read = <<>>
      BY <3>4, <3>5 DEF Readable
    <3> QED  BY <1>8, <2>1, <3>1, <3>4, <3>5, <3>8, <3>9 DEF Reading
  <2>5. CASE Resolve(q)
    <3>1. procs[q].at = "start" /\ ~LoadTranscript(q) /\ ~Turn(q) /\ ~Opened(q)
      BY <2>5, <1>1 DEF LoadTranscript, Resolve, Turn, At, Exclusive, Placed
    <3>2. /\ procs'[q].read = <<>> /\ ~procs'[q].stale /\ procs'[q].context = <<>>
      BY <1>2, <1>3, <1>8, <3>1 DEF OwnFields, Reading
    <3>3. (\A i \in 1..Len(procs[q].read) : Opened(procs[q].read[i]))'
      <4>1. 1..Len(procs'[q].read) = {}  BY <3>2
      <4> QED  BY <4>1
    <3> QED  BY <1>8, <2>1, <3>1, <3>2, <3>3 DEF Reading
  <2>6. CASE ~Turn(q) /\ ~LoadTranscript(q) /\ ~Resolve(q)
    <3>1. /\ procs'[q].read = procs[q].read /\ procs'[q].context = procs[q].context
          /\ procs'[q].resumed = procs[q].resumed /\ procs'[q].at # "load"
      BY <1>2, <1>8, <2>6 DEF OwnFields
    <3> QED  BY <1>5, <1>8, <2>1, <2>2, <3>1
  <2> QED  BY <2>3, <2>4, <2>5, <2>6
<1> QED  BY <1>6, <1>7, <1>8

(* A run that has come to the index does not go back. *)
LEMMA SavingStep ==
  ASSUME TypeOK, Exclusive, HeadlessRunAssumption, NEW q \in Runs, Step(q), ~Enters(q),
         procs'[q].at \in Saving
  PROVE  procs[q].at \in Saving
<1> SUFFICES ASSUME procs[q].at \notin Saving PROVE FALSE  OBVIOUS
<1>1. procs[q] \in Procs  BY DEF TypeOK
<1>2. ASSUME NEW n, Works(q, n) PROVE n.at \in Saving
  BY <1>2, Became DEF Works
<1>3. CASE LoadIndex(q)
  <2>1. procs[q].at = "index" /\ procs[q].at \in Active
    BY <1>3 DEF LoadIndex, At, Active, Filing
  <2>2. Session(q) \in Runs  BY <2>1, WriterKnows
  <2> DEFINE n == [procs[q] EXCEPT !.at = "index_create",
                     !.entries = [LoadedIndex EXCEPT ![Project(q)] = Session(q)]]
  <2>3. Works(q, n)  BY <1>3, <2>2, LoadIndexStep
  <2>4. n.at = "index_create"  BY <1>1 DEF Procs
  <2> HIDE DEF n
  <2> QED  BY <2>3, <2>4, <1>2 DEF Saving
<1>4. CASE FillIndex(q)
  <2> DEFINE n == [procs[q] EXCEPT !.at = "exit", !.indexed = TRUE]
  <2>1. Works(q, n)  BY <1>4, FillIndexStep
  <2>2. n.at = "exit"  BY <1>1 DEF Procs
  <2> HIDE DEF n
  <2> QED  BY <2>1, <2>2, <1>2 DEF Saving
<1>5. CASE CreateIndex(q)
  <2>1. PICK to \in Active : /\ Works(q, [procs[q] EXCEPT !.at = to])
                             /\ CreateIndex(q) => to = "index_fill"
    BY <1>5, FilingStep
  <2> DEFINE n == [procs[q] EXCEPT !.at = to]
  <2>2. Works(q, n)  BY <2>1
  <2>3. n.at = "index_fill"  BY <1>1, <1>5, <2>1 DEF Procs
  <2> HIDE DEF n
  <2> QED  BY <2>2, <2>3, <1>2 DEF Saving
<1>6. CASE FileFails(q)
  <2>1. Works(q, [procs[q] EXCEPT !.at = AfterFile(q), !.hit = TRUE])
    BY <1>6, FileFailsStep
  <2>2. procs[q].at \in {"index_create", "index_fill"}
    BY <1>6, FileFailsStep DEF Breaks, Saving
  <2>3. AfterFile(q) = "exit"  BY <2>2 DEF AfterFile
  <2> DEFINE n == [procs[q] EXCEPT !.at = AfterFile(q), !.hit = TRUE]
  <2>4. n.at = "exit"  BY <1>1, <2>3 DEF Procs
  <2>5. Works(q, n)  BY <2>1
  <2> HIDE DEF n
  <2> QED  BY <2>4, <2>5, <1>2 DEF Saving
<1>7. CASE \E code : Leaves(q, code)
  <2>1. PICK code : Leaves(q, code)  BY <1>7
  <2>2. procs'[q] = [procs[q] EXCEPT !.at = "done", !.exit = code]
    BY <2>1, Became DEF Leaves
  <2>3. procs'[q].at = "done"  BY <2>2, <1>1 DEF Procs
  <2> QED  BY <2>3 DEF Saving
<1>8. CASE \E n \in Procs : Prepares(q, n)  BY <1>8, Became DEF Prepares, Saving
<1>9. CASE Resolve(q) \/ LoadTranscript(q)  BY <1>7, <1>8, <1>9, PrepareSteps
<1>10. CASE ConfigError(q)  BY <1>7, <1>10, ConfigErrorStep
<1>11. CASE OpenJournal(q)  BY <1>7, <1>11, OpenStep
<1>12. CASE Exit(q)  BY <1>7, <1>12, ExitStep
<1>13. CASE Kill(q)  BY <1>7, <1>13, KillStep
<1>14. CASE \/ Turn(q) \/ SavePlan(q) \/ PlanFails(q) \/ CreateAudit(q) \/ FillAudit(q)
            \/ CreateEvidence(q) \/ FillEvidence(q) \/ CreateTranscript(q) \/ FillTranscript(q)
  BY <1>14 DEF Turn, SavePlan, PlanFails, CreateAudit, FillAudit, CreateEvidence, FillEvidence,
    CreateTranscript, FillTranscript, At, Saving
<1> QED
  BY <1>3, <1>4, <1>5, <1>6, <1>9, <1>10, <1>11, <1>12, <1>13, <1>14 DEF Step

LEMMA SavesItStep ==
  ASSUME ResumeInv, HeadlessRunAssumption, NEW q \in Runs, Step(q), NEW r \in Runs
  PROVE  SavesIt(r)'
<1>1. TypeOK /\ Exclusive /\ Created /\ \A o \in Runs : Indexing(o)
  BY DEF ResumeInv, IndexInv, EvidenceInv
<1>2. OwnFields(q)  BY <1>1, OwnSteps DEF Indexing
<1>3. SavesIt(r) /\ Placed(r)  BY <1>1 DEF ResumeInv, Exclusive
<1>4. /\ \A a : Opened(a) => Opened(a)'
      /\ \A a, b : Precedes(a, b) => Precedes(a, b)'
  BY <1>1, OrderStep
<1>5. /\ Project(r)' = Project(r)
      /\ r # q \/ procs[q].at # "start" => Session(r)' = Session(r)
  BY <1>1, PathsStay
<1>6. ~FillTranscript(q) => saves' = saves
  BY DEF Step, Resolve, LoadTranscript, ConfigError, OpenJournal, Turn, SavePlan, PlanFails,
      CreateAudit, FillAudit, CreateEvidence, FillEvidence, CreateTranscript,
      LoadIndex, CreateIndex, FillIndex, Exit, FileFails, Kill
<1>7. FillTranscript(q) => saves' = saves \union {q} /\ procs[q].at = "save_fill"
  BY DEF FillTranscript, At
<1>8. ASSUME Opened(r), LastOf(r)' PROVE LastOf(r)
  <2>1. procs[r].at # "start"  BY <1>8, <1>3 DEF Placed
  <2>2. ASSUME NEW o \in OpenedSince(r) PROVE Session(o) # Session(r)
    <3>1. o \in Runs /\ Precedes(r, o)  BY DEF OpenedSince
    <3>2. Opened(o)  BY <3>1, <1>1, OrderFacts DEF TypeOK, Exclusive
    <3>3. procs[o].at # "start"  BY <3>1, <3>2, <1>1 DEF Exclusive, Placed
    <3>4. Session(o)' = Session(o) /\ Session(r)' = Session(r)
      BY <3>1, <3>3, <2>1, <1>1, PathsStay
    <3>5. o \in OpenedSince(r)'  BY <3>1, <1>4 DEF OpenedSince
    <3> QED  BY <1>8, <3>4, <3>5 DEF LastOf
  <2> QED  BY <1>8, <2>2 DEF LastOf
(* What the file of a run's session says stays, unless the run writes it. *)
<1>9. ASSUME Opened(r), procs[r].at = "save_fill" \/ (r \in saves /\ LastOf(r)'),
             r # q \/ procs[q].at \notin {"save", "save_fill"}
      PROVE  transcripts'[Session(r)] = transcripts[Session(r)]
  <2>1. Session(r) \in Runs  BY <1>3, <1>9 DEF Placed
  <2>2. CASE procs[q].at \notin {"save", "save_fill"}
    BY <2>1, <2>2, <1>1, TranscriptSteps
  <2>3. CASE procs[q].at \in {"save", "save_fill"}
    <3>1. r # q /\ procs[q].at \in Active  BY <2>3, <1>9 DEF Active, Filing
    <3>2. lock = q  BY <3>1, <1>1, WriterKnows
    <3>3. procs[r].at # "save_fill"
      BY <3>1, <3>2, <1>3 DEF Placed, Active, Filing
    <3>4. LastOf(r)  BY <3>3, <1>8, <1>9
    <3>5. q \in OpenedSince(r)  BY <3>1, <1>1, <1>9, HolderIsLast
    <3>6. Session(q) # Session(r)  BY <3>4, <3>5 DEF LastOf
    <3> QED  BY <3>6, <2>1, <1>1, TranscriptSteps
  <2> QED  BY <2>2, <2>3
<1>10. \A whole : procs'[r].context = procs[r].context =>
         Saved(r, whole)' = Saved(r, whole)
  BY <1>5 DEF Saved
<1>11. CASE r # q
  <2>1. /\ procs'[r].at = procs[r].at /\ procs'[r].context = procs[r].context
        /\ Session(r)' = Session(r)
    BY <1>1, <1>5, <1>11, OthersStay
  <2>2. r \in saves' <=> r \in saves  BY <1>6, <1>7, <1>11
  <2>3. Saved(r, TRUE)' = Saved(r, TRUE) /\ Saved(r, FALSE)' = Saved(r, FALSE)
    BY <2>1, <1>10
  <2>4. procs[r].at = "save_fill" => Opened(r)
    <3>1. procs[r].at = "save_fill" => procs[r].at \in Active  BY DEF Active, Filing
    <3> QED  BY <3>1, <1>1, WriterKnows
  <2>5. procs[r].at = "save_fill" \/ (r \in saves /\ LastOf(r)') =>
          transcripts'[Session(r)] = transcripts[Session(r)]
    BY <1>3, <1>9, <1>11, <2>4 DEF SavesIt
  <2>6. procs'[r].at = "save_fill" => transcripts'[Session(r)'] = Saved(r, FALSE)'
    BY <2>1, <2>3, <2>5, <1>3 DEF SavesIt
  <2>7. r \in saves' /\ LastOf(r)' => transcripts'[Session(r)'] = Saved(r, TRUE)'
    BY <2>1, <2>2, <2>3, <2>5, <1>3, <1>8 DEF SavesIt
  <2> QED  BY <1>3, <1>4, <2>1, <2>2, <2>6, <2>7 DEF SavesIt
<1>12. CASE r = q /\ procs[q].at \notin {"save", "save_fill"}
  <2>1. ~FillTranscript(q) /\ saves' = saves /\ ~CreateTranscript(q)
    BY <1>6, <1>7, <1>12 DEF CreateTranscript, At
  <2>2. procs'[q].at # "save_fill"  BY <2>1, <1>1, FillsWhatItCreates
  <2>3. procs'[q].at \in Saving => q \notin saves
    <3>1. CASE Enters(q)  BY <3>1, <1>3, <1>12 DEF Enters, SavesIt
    <3>2. CASE ~Enters(q)  BY <3>2, <1>1, <1>3, <1>12, SavingStep DEF SavesIt
    <3> QED  BY <3>1, <3>2
  <2>4. ASSUME q \in saves, LastOf(q)' PROVE transcripts'[Session(q)'] = Saved(q, TRUE)'
    <3>1. Opened(q) /\ procs[q].at \notin Saving  BY <2>4, <1>3, <1>12 DEF SavesIt
    <3>2. ~Turn(q) /\ ~Enters(q)  BY <3>1 DEF Turn, At, Enters, Saving
    <3>3. procs'[q].context = procs[q].context  BY <3>2, <1>2 DEF OwnFields
    <3>4. transcripts'[Session(q)] = transcripts[Session(q)]
      BY <3>1, <2>4, <1>9, <1>12
    <3>5. procs[q].at # "start"  BY <3>1, <1>3, <1>12 DEF Placed
    <3>6. transcripts[Session(q)] = Saved(q, TRUE)
      BY <2>4, <3>1, <1>3, <1>8, <1>12 DEF SavesIt
    <3> QED  BY <3>3, <3>4, <3>5, <3>6, <1>5, <1>10, <1>12
  <2> QED  BY <1>3, <1>4, <1>12, <2>1, <2>2, <2>3, <2>4 DEF SavesIt
<1>13. CASE r = q /\ procs[q].at \in {"save", "save_fill"}
  <2>1. /\ procs[q].at \in Active /\ procs[q].at \in Saving /\ procs[q].at # "start"
        /\ ~Turn(q) /\ ~Enters(q)
    BY <1>13 DEF Active, Filing, Saving, Turn, At, Enters
  <2>2. Opened(q) /\ Session(q) \in Runs  BY <2>1, <1>1, WriterKnows
  <2>3. q \notin saves  BY <2>1, <1>3, <1>13 DEF SavesIt
  <2>4. procs'[q].context = procs[q].context /\ Session(q)' = Session(q)
    BY <2>1, <1>2, <1>5, <1>13 DEF OwnFields
  <2>5. Saved(q, TRUE)' = Saved(q, TRUE) /\ Saved(q, FALSE)' = Saved(q, FALSE)
    BY <2>4, <1>10, <1>13
  <2>6. transcripts \in [Runs -> Transcripts \union {None}]  BY <1>1 DEF TypeOK
  <2>7. CASE FillTranscript(q)
    <3>1. /\ transcripts' = [transcripts EXCEPT ![Session(q)].whole = TRUE]
          /\ procs[q].at = "save_fill"
      BY <2>7 DEF FillTranscript, At
    <3>2. transcripts[Session(q)] = Saved(q, FALSE)  BY <3>1, <1>3, <1>13 DEF SavesIt
    <3>3. transcripts'[Session(q)] = [Saved(q, FALSE) EXCEPT !.whole = TRUE]
      <4> HIDE DEF Transcripts
      <4> QED  BY <3>1, <3>2, <2>2, <2>6
    <3>4. [Saved(q, FALSE) EXCEPT !.whole = TRUE] = Saved(q, TRUE)
      <4> DEFINE project == Project(q)
                 rows == procs[q].context
                 record(w) == [whole |-> w, project |-> project, rows |-> rows]
      <4>1. \A w \in BOOLEAN : Saved(q, w) = record(w)  BY DEF Saved
      <4> HIDE DEF project, rows
      <4>2. \A v, w \in BOOLEAN : [record(v) EXCEPT !.whole = w] = record(w)  OBVIOUS
      <4> HIDE DEF record
      <4> QED  BY <4>1, <4>2
    <3>5. procs'[q].at = "index"
      <4>1. PICK to \in Active : /\ Works(q, [procs[q] EXCEPT !.at = to])
                                 /\ FillTranscript(q) => to = "index"
        BY <2>7, <1>1, FilingStep
      <4>2. procs'[q] = [procs[q] EXCEPT !.at = to]  BY <4>1, <1>1, Became DEF Works
      <4> QED  BY <2>7, <4>1, <4>2, <1>1 DEF TypeOK, Procs
    <3> QED  BY <1>4, <1>13, <2>2, <2>4, <2>5, <3>3, <3>4, <3>5 DEF SavesIt, Saving
  <2>8. CASE CreateTranscript(q)
    <3>1. transcripts' = [transcripts EXCEPT ![Session(q)] = Saved(q, FALSE)]
      BY <2>8 DEF CreateTranscript, Saved
    <3>2. transcripts'[Session(q)] = Saved(q, FALSE)
      <4> HIDE DEF Transcripts
      <4> QED  BY <3>1, <2>2, <2>6
    <3>3. saves' = saves  BY <2>8 DEF CreateTranscript
    <3> QED  BY <1>4, <1>13, <2>2, <2>3, <2>4, <2>5, <3>2, <3>3 DEF SavesIt
  <2>9. CASE ~FillTranscript(q) /\ ~CreateTranscript(q)
    <3>1. procs'[q].at # "save_fill"  BY <2>9, <1>1, FillsWhatItCreates
    <3>2. saves' = saves  BY <2>9, <1>6
    <3> QED  BY <1>13, <2>3, <3>1, <3>2 DEF SavesIt
  <2> QED  BY <2>7, <2>8, <2>9
<1> QED  BY <1>11, <1>12, <1>13

LEMMA UpToDateStep ==
  ASSUME ResumeInv, HeadlessRunAssumption, NEW q \in Runs, Step(q), NEW r \in Runs
  PROVE  UpToDate(r)'
<1> SUFFICES ASSUME procs'[r].at = "open", ~Opened(r)', ~procs'[r].stale
             PROVE  /\ lock' # None => Session(lock)' # Session(r)'
                    /\ procs'[r].resumed =>
                         procs'[r].read = ResumeMessages(Session(r), Project(r))'
  BY DEF UpToDate
<1>1. TypeOK /\ Exclusive /\ Created /\ \A o \in Runs : Indexing(o)
  BY DEF ResumeInv, IndexInv, EvidenceInv
<1>2. OwnFields(q)  BY <1>1, OwnSteps DEF Indexing
<1>3. ~Opened(r)  BY <1>1, OrderStep
<1>4. UpToDate(r)  BY DEF ResumeInv
<1>5. ASSUME NEW s, NEW p, transcripts'[s] = transcripts[s]
      PROVE  ResumeMessages(s, p)' = ResumeMessages(s, p)
  BY <1>5 DEF ResumeMessages
<1>6. lock \in SomeRun /\ (lock # None => Opened(lock))
  BY <1>1 DEF TypeOK, Exclusive, LastOpened
<1>7. CASE r # q
  <2>1. /\ procs[r].at = "open" /\ procs'[r].read = procs[r].read
        /\ procs'[r].resumed = procs[r].resumed
        /\ ~procs[r].stale
        /\ Session(r)' = Session(r) /\ Project(r)' = Project(r)
    BY <1>1, <1>7, OthersStay, PathsStay
  <2>2. /\ lock # None => Session(lock) # Session(r)
        /\ procs[r].resumed => procs[r].read = ResumeMessages(Session(r), Project(r))
    BY <2>1, <1>3, <1>4 DEF UpToDate
  <2>3. Session(r) \in Runs  BY <2>1, <1>1 DEF Exclusive, Placed
  <2>4. transcripts'[Session(r)] = transcripts[Session(r)]
    <3>1. CASE procs[q].at \in {"save", "save_fill"}
      <4>1. procs[q].at \in Active  BY <3>1 DEF Active, Filing
      <4>2. lock = q /\ lock # None  BY <4>1, <1>1, WriterKnows DEF HeadlessRunAssumption
      <4>3. Session(q) # Session(r)  BY <4>2, <2>2
      <4> QED  BY <4>3, <2>3, <1>1, TranscriptSteps
    <3>2. CASE procs[q].at \notin {"save", "save_fill"}
      BY <3>2, <2>3, <1>1, TranscriptSteps
    <3> QED  BY <3>1, <3>2
  <2>5. procs'[r].resumed => procs'[r].read = ResumeMessages(Session(r), Project(r))'
    <3>1. \A s, p : s = Session(r) /\ p = Project(r) =>
            ResumeMessages(s, p)' = ResumeMessages(s, p)
      BY <2>4, <1>5
    <3> QED  BY <2>1, <2>2, <3>1
  <2>6. lock' # None => Session(lock)' # Session(r)'
    <3>1. CASE Enters(q)
      <4>1. lock' = q /\ procs[q].at = "open"  BY <3>1 DEF Enters
      <4>2. Session(q)' = Session(q)  BY <4>1, <1>1, PathsStay
      <4>3. ~Behind(r, q)
        <5>1. procs'[r].stale = (procs[r].stale \/ Behind(r, q))
          <6>1. r \in Runs \ {q}  BY <1>7
          <6> QED  BY <6>1, <3>1, <1>1, EntersFields, Zenon
        <5> QED  BY <5>1
      <4>4. Session(q) # Session(r)  BY <4>3, <2>1 DEF Behind, At
      <4>5. Session(lock)' = Session(q)'  BY <4>1 DEF Session
      <4> QED  BY <4>2, <4>4, <4>5, <2>1
    <3>2. CASE ~Enters(q)
      <4>1. lock' = lock \/ lock' = None
        BY <3>2, <1>1, StepKinds DEF Works, Leaves, Prepares
      <4>2. CASE lock' = lock /\ lock # None
        <5>1. lock \in Runs /\ Opened(lock)  BY <4>2, <1>6 DEF SomeRun
        <5>2. procs[lock].at # "start"  BY <5>1, <1>1 DEF Exclusive, Placed
        <5>3. \A o \in Runs : o = lock => Session(o)' = Session(o)
          BY <5>2, <1>1, PathsStay
        <5>4. Session(lock)' = Session(lock)
          BY <5>1, <5>3, <4>2 DEF Session
        <5> QED  BY <5>4, <4>2, <2>1, <2>2
      <4> QED  BY <4>1, <4>2
    <3> QED  BY <3>1, <3>2
  <2> QED  BY <2>5, <2>6
<1>8. CASE r = q
  <2>1. procs[q].at \notin Active
    BY <1>1, <1>3, <1>8, WriterKnows
  <2>2. LoadTranscript(q)
    <3>1. ~Enters(q)  BY <1>1, <1>8, EntersFields
    <3>2. \A code : ~Leaves(q, code)
      <4> SUFFICES ASSUME NEW code, Leaves(q, code) PROVE FALSE  OBVIOUS
      <4>1. procs'[q] = [procs[q] EXCEPT !.at = "done", !.exit = code]
        BY <1>1, Became DEF Leaves
      <4>2. procs'[q].at = "done"  BY <4>1, <1>1 DEF TypeOK, Procs
      <4> QED  BY <4>2, <1>8
    <3>3. CASE \E n \in Procs : Works(q, n)  BY <3>3, <2>1 DEF Works
    <3>4. CASE \E n \in Procs : Prepares(q, n)
      <4>1. procs[q].at = "load"  BY <3>4, <1>1, <1>8, Became DEF Prepares
      <4>2. Step(q) /\ ~Kill(q) /\ ~ConfigError(q)
        BY <1>1, <3>2, KillStep, ConfigErrorStep
      <4> QED
        BY <4>1, <4>2 DEF Step, Resolve, OpenJournal, Turn, SavePlan,
          PlanFails, CreateAudit, FillAudit, CreateEvidence, FillEvidence, CreateTranscript,
          FillTranscript, LoadIndex, CreateIndex, FillIndex, Exit, FileFails, HalfWritten, At
    <3> QED  BY <3>1, <3>2, <3>3, <3>4, <1>1, StepKinds
  <2>3. procs[q].at = "load" /\ lock' = lock /\ transcripts' = transcripts
    BY <2>2 DEF LoadTranscript, At
  <2>4. Session(q) \in Runs  BY <2>3, <1>1 DEF Exclusive, Placed
  <2>5. procs'[q] = [procs[q] EXCEPT !.at = "open", !.stale = Overtaken(q),
                                     !.read = Readable(q)]
    BY <1>1, <2>2, <2>4, LoadStep, Became
  <2>6. /\ procs'[q].stale = Overtaken(q) /\ procs'[q].read = Readable(q)
        /\ procs'[q].resumed = procs[q].resumed
    BY <2>5, <1>1 DEF TypeOK, Procs
  <2>7. Session(q)' = Session(q) /\ Project(q)' = Project(q)  BY <2>3, <1>1, PathsStay
  <2>8. procs'[q].resumed => procs'[q].read = ResumeMessages(Session(q), Project(q))'
    <3>1. \A s, p : ResumeMessages(s, p)' = ResumeMessages(s, p)  BY <2>3, <1>5
    <3>2. ResumeMessages(Session(q), Project(q))' = ResumeMessages(Session(q), Project(q))
      BY <3>1, <2>7
    <3> QED  BY <2>6, <3>2 DEF Readable
  <2>9. lock' # None => Session(lock)' # Session(q)'
    <3> SUFFICES ASSUME lock # None PROVE Session(lock)' # Session(q)'
      BY <2>3
    <3>1. lock \in Runs /\ Opened(lock)  BY <1>6 DEF SomeRun
    <3>2. lock # q  BY <3>1, <1>3, <1>8
    <3>3. \A o \in Runs : o = lock => Session(o)' = Session(o)
      BY <3>2, <1>1, PathsStay
    <3>4. Session(lock)' = Session(lock)  BY <3>1, <3>3, <2>3 DEF Session
    <3>5. Session(lock) # Session(q)  BY <2>6, <1>8 DEF Overtaken
    <3> QED  BY <3>4, <3>5, <2>7
  <2> QED  BY <1>8, <2>8, <2>9
<1> QED  BY <1>7, <1>8

LEMMA ResumeStep ==
  ASSUME ResumeInv, HeadlessRunAssumption, NEW q \in Runs, Step(q), IndexInv'
  PROVE  ResumeInv'
<1>1. TypeOK /\ Exclusive  BY DEF ResumeInv, IndexInv, EvidenceInv
<1>2. ASSUME NEW r \in Runs, Opened(r)', GoodHistory(r)' PROVE Whole(r)'
  <2>1. CASE Opened(r)  BY <1>2, <2>1, WholeStays
  <2>2. CASE ~Opened(r)
    <3>1. r = q /\ Enters(q)  BY <1>1, <1>2, <2>2, OrderStep
    <3> QED  BY <1>2, <3>1, WholeOnEntering
  <2> QED  BY <2>1, <2>2
<1>3. \A s \in Runs : (journal'[s] # <<>> => Opened(s)') /\ OfRuns(s)'
  BY JournalStep, OfRunsStep
<1>4. \A r \in Runs : Chosen(r)' /\ Reading(r)' /\ SavesIt(r)' /\ UpToDate(r)'
  BY ChosenStep, ReadingStep, SavesItStep, UpToDateStep
<1> QED  BY <1>2, <1>3, <1>4 DEF ResumeInv

LEMMA InitResume ==
  ASSUME Init, HeadlessRunAssumption, IndexInv
  PROVE  ResumeInv
<1>1. \A r \in Runs : /\ procs[r].at = "start" /\ procs[r].session = None
                      /\ procs[r].read = <<>> /\ procs[r].context = <<>>
                      /\ procs[r].stale = FALSE
  BY DEF Init
<1>2. \A a : ~Opened(a)  BY DEF Init, Opened
<1>3. \A s \in Runs : journal[s] = <<>> /\ transcripts[s] = None  BY DEF Init, Sessions
<1>4. saves = {}  BY DEF Init
<1>5. \A s \in Runs : OfRuns(s)  BY <1>3 DEF OfRuns
<1>6. \A r \in Runs : Chosen(r)  BY <1>1 DEF Chosen, Session
<1>7. \A r \in Runs : Reading(r)
  <2> SUFFICES ASSUME NEW r \in Runs PROVE Reading(r)  OBVIOUS
  <2>1. 1..Len(procs[r].read) = {}  BY <1>1
  <2> QED  BY <1>1, <1>2, <2>1 DEF Reading
<1>8. \A r \in Runs : SavesIt(r) /\ UpToDate(r)
  BY <1>1, <1>4 DEF SavesIt, UpToDate
<1> QED  BY <1>2, <1>3, <1>5, <1>6, <1>7, <1>8 DEF ResumeInv

LEMMA ResumeUnchanged ==
  ASSUME ResumeInv, UNCHANGED vars, IndexInv'
  PROVE  ResumeInv'
<1>1. /\ procs' = procs /\ lock' = lock /\ journal' = journal /\ transcripts' = transcripts
      /\ order' = order /\ saves' = saves
  BY DEF vars
<1>2. /\ \A a : Opened(a)' <=> Opened(a)
      /\ \A a, b : Precedes(a, b)' <=> Precedes(a, b)
      /\ \A r : Session(r)' = Session(r) /\ Project(r)' = Project(r)
      /\ Session(lock)' = Session(lock)
  BY <1>1, OrderKept DEF Session, Project
<1>3. ASSUME NEW r \in Runs
      PROVE  /\ Earlier(r)' = Earlier(r) /\ (LastOf(r)' <=> LastOf(r))
             /\ \A whole : Saved(r, whole)' = Saved(r, whole)
             /\ \A s, p : ResumeMessages(s, p)' = ResumeMessages(s, p)
             /\ \A o : SameProject(o, r)' <=> SameProject(o, r)
  BY <1>1, <1>2 DEF Earlier, LastOf, OpenedSince, Saved, ResumeMessages, SameProject
<1>4. \A r \in Runs : Chosen(r)'  BY <1>1, <1>2 DEF ResumeInv, Chosen, Session
<1>5. ASSUME NEW s \in Runs PROVE (journal'[s] # <<>> => Opened(s)') /\ OfRuns(s)'
  BY <1>1, <1>2 DEF ResumeInv, OfRuns, Opened, Session
<1>6. ASSUME NEW r \in Runs PROVE Reading(r)'
  BY <1>1, <1>2 DEF ResumeInv, Reading
<1>7. ASSUME NEW r \in Runs PROVE SavesIt(r)'
  BY <1>1, <1>2, <1>3 DEF ResumeInv, SavesIt
<1>8. ASSUME NEW r \in Runs PROVE UpToDate(r)'
  BY <1>1 DEF ResumeInv, UpToDate, Session, Project, ResumeMessages, Opened
<1>9. ASSUME NEW r \in Runs, Opened(r)', GoodHistory(r)' PROVE Whole(r)'
  <2>1. GoodHistory(r) /\ Opened(r)  BY <1>1, <1>2, <1>3, <1>9 DEF GoodHistory
  <2>2. Whole(r)  BY <2>1 DEF ResumeInv
  <2> QED  BY <2>2, <1>1, <1>3 DEF Whole, In, Precedes
<1> QED  BY <1>4, <1>5, <1>6, <1>7, <1>8, <1>9 DEF ResumeInv

(* A resumed run starts from every answered turn of its session, once, in   *)
(* the order of the journal.                                               *)
THEOREM ResumeHolds == Spec => []ResumeIsComplete
<1>1. Init /\ IndexInv => ResumeInv  BY InitResume, HeadlessRunAssumption
<1>2. ResumeInv /\ IndexInv' /\ [Next]_vars => ResumeInv'
  <2> SUFFICES ASSUME ResumeInv, IndexInv', [Next]_vars PROVE ResumeInv'  OBVIOUS
  <2>1. CASE UNCHANGED vars  BY <2>1, ResumeUnchanged
  <2>2. CASE Next  BY <2>2, NextIsStep, ResumeStep, HeadlessRunAssumption
  <2> QED  BY <2>1, <2>2
<1>3. ResumeInv => ResumeIsComplete
  <2> SUFFICES ASSUME ResumeInv, NEW r \in Runs, Opened(r), procs[r].resumed,
                      SameProject(r, r),
                      \A q \in Earlier(r) : q \in saves /\ SameProject(q, r)
               PROVE  Whole(r)
    BY DEF ResumeIsComplete, SameProject, Whole
  <2>1. GoodHistory(r)  BY DEF GoodHistory, SameProject
  <2> QED  BY <2>1 DEF ResumeInv
<1> QED  BY <1>1, <1>2, <1>3, ContinueHolds, PTL DEF Spec

(***************************************************************************)
(* The choice of the provider (LlmSettings): for every set of settings,    *)
(* the account of it is the account of what resolve did.                   *)
(***************************************************************************)
\* The branch that decides: it applies and none before it does.
Decides(s) == Applies(s) /\ \A k \in 1..(s - 1) : ~Applies(k)
OutcomeOf(s) == [ok |-> Provider(s) # "none", step |-> s, id |-> Provider(s)]

GivenOK ==
  /\ DOMAIN given.env = AwsNames
  /\ DOMAIN given.flags = Keys
  /\ given.model \in Models
  /\ given.default_model \in StoredModels
  /\ given.host \in Hosts
  /\ given.bedrock \in BOOLEAN

\* What holds of the settings, the account and the user's remedy.
SettingsInv ==
  /\ GivenOK
  /\ supplied \in 0..9
  /\ supplied # 0 => Decides(supplied) /\ Provider(supplied) # "none"
  /\ trace # NoTrace =>
       trace = [outcome |-> resolve, candidates |-> build_candidates(resolve)]

\* The model the heuristics look at is one of the models.
LEMMA MergedIsAModel ==
  ASSUME GivenOK PROVE merged_cli_model \in Models
BY ModelAssumption DEF GivenOK, merged_cli_model

\* So what each heuristic says of it is a truth value.
LEMMA MergedFits ==
  ASSUME GivenOK
  PROVE  /\ merged_cli_model.claude \in BOOLEAN /\ merged_cli_model.slash \in BOOLEAN
         /\ merged_cli_model.openai \in BOOLEAN /\ merged_cli_model.groq \in BOOLEAN
         /\ merged_cli_model.ollama \in BOOLEAN
<1>1. merged_cli_model \in Models
  BY MergedIsAModel
<1>2. merged_cli_model \in [claude : BOOLEAN, slash : BOOLEAN, openai : BOOLEAN,
                           groq : BOOLEAN, ollama : BOOLEAN]
  BY <1>1, ModelAssumption
<1> QED BY <1>2

\* What each branch asks.
LEMMA Conditions ==
  /\ Applies(1) = bedrock_branch_active
  /\ Applies(2) = (merged_cli_model.claude /\ ~merged_cli_model.slash)
  /\ Applies(3) = merged_cli_model.slash
  /\ Applies(4) = (Has("azure_endpoint") /\ Has("azure_key"))
  /\ Applies(5) = (Has("openai") /\ merged_cli_model.openai)
  /\ Applies(6) = (Has("groq") /\ merged_cli_model.groq)
  /\ Applies(7) = Has("url")
  /\ Applies(8) = merged_cli_model.ollama
  /\ Applies(9) = TRUE
BY DEF Applies

\* What each branch gives.
LEMMA Providers ==
  /\ Provider(1) = IF from_env THEN "bedrock" ELSE "none"
  /\ Provider(2) = IF Has("anthropic") THEN "anthropic"
                   ELSE IF Has("openrouter") THEN "openrouter" ELSE "none"
  /\ Provider(3) = IF Has("openrouter") THEN "openrouter" ELSE "none"
  /\ Provider(4) = "azure_openai"
  /\ Provider(5) = "openai"
  /\ Provider(6) = "groq"
  /\ Provider(7) = IF Has("url_key") THEN custom ELSE "none"
  /\ Provider(8) = "ollama"
  /\ Provider(9) = "ollama"
BY DEF Provider

\* Some branch decides.
LEMMA SomeDecides == \E s \in 1..9 : Decides(s)
<1> DEFINE A(k) == Applies(k)
<1>1. A(9)
  BY Conditions
<1> HIDE DEF A
<1>2. \E s \in 1..9 : A(s) /\ \A k \in 1..(s - 1) : ~A(k)
  <2>1. CASE A(1) BY <2>1
  <2>2. CASE ~A(1) /\ A(2) BY <2>2
  <2>3. CASE ~A(1) /\ ~A(2) /\ A(3) BY <2>3
  <2>4. CASE ~A(1) /\ ~A(2) /\ ~A(3) /\ A(4) BY <2>4
  <2>5. CASE ~A(1) /\ ~A(2) /\ ~A(3) /\ ~A(4) /\ A(5) BY <2>5
  <2>6. CASE ~A(1) /\ ~A(2) /\ ~A(3) /\ ~A(4) /\ ~A(5) /\ A(6) BY <2>6
  <2>7. CASE ~A(1) /\ ~A(2) /\ ~A(3) /\ ~A(4) /\ ~A(5) /\ ~A(6) /\ A(7) BY <2>7
  <2>8. CASE ~A(1) /\ ~A(2) /\ ~A(3) /\ ~A(4) /\ ~A(5) /\ ~A(6) /\ ~A(7) /\ A(8)
    BY <2>8
  <2>9. CASE ~A(1) /\ ~A(2) /\ ~A(3) /\ ~A(4) /\ ~A(5) /\ ~A(6) /\ ~A(7) /\ ~A(8)
    BY <2>9, <1>1
  <2> QED BY <2>1, <2>2, <2>3, <2>4, <2>5, <2>6, <2>7, <2>8, <2>9
<1> QED BY <1>2 DEF A, Decides

\* Only one does.
LEMMA OneDecides ==
  ASSUME NEW s \in 1..9, NEW t \in 1..9, Decides(s), Decides(t)
  PROVE  s = t
<1>1. CASE s < t
  BY <1>1 DEF Decides
<1>2. CASE t < s
  BY <1>2 DEF Decides
<1> QED BY <1>1, <1>2

\* resolve is the outcome of the branch that decides.
LEMMA Resolved == \E s \in 1..9 : Decides(s) /\ resolve = OutcomeOf(s)
<1> DEFINE step == CHOOSE n \in 1..9 : Decides(n)
<1>1. step \in 1..9 /\ Decides(step)
  BY SomeDecides
<1>2. resolve = OutcomeOf(step)
  BY DEF resolve, OutcomeOf, Decides
<1> QED BY <1>1, <1>2

\* A branch that decides is the one resolve takes.
LEMMA ResolvedAs ==
  ASSUME NEW s \in 1..9, Decides(s)
  PROVE  resolve = OutcomeOf(s)
BY Resolved, OneDecides

\* Only four branches can fail.
LEMMA MayFail ==
  ASSUME NEW s \in 1..9, GivenOK, Provider(s) = "none"
  PROVE  s \in {1, 2, 3, 7}
<1>1. Provider(4) # "none" /\ Provider(5) # "none" /\ Provider(6) # "none"
      /\ Provider(8) # "none" /\ Provider(9) # "none"
  BY Providers
<1> QED BY <1>1

(***************************************************************************)
(* The account of an outcome.                                              *)
(***************************************************************************)
\* Where the account sees the outcome.
SeenAt(outcome) == IF outcome.ok THEN success_step(outcome.id) ELSE outcome.step

\* Exactly the branch of the account is matched or failed.
LEMMA States ==
  ASSUME NEW k \in 1..9, NEW outcome, outcome.ok \in BOOLEAN, SeenAt(outcome) \in 1..9
  PROVE  /\ row_state(k, outcome) = "matched" <=> outcome.ok /\ k = SeenAt(outcome)
         /\ row_state(k, outcome) = "failed_here" <=> ~outcome.ok /\ k = SeenAt(outcome)
<1> DEFINE at == SeenAt(outcome)
<1>1. row_state(k, outcome) =
        CASE k < at -> (IF outcome.ok THEN "superseded" ELSE "skipped")
          [] k = at -> (IF outcome.ok THEN "matched" ELSE "failed_here")
          [] k > at -> "not_evaluated"
  BY DEF row_state, SeenAt, failure_step
<1>2. at \in 1..9
  OBVIOUS
<1> HIDE DEF at
<1>3. CASE k < at
  <2>1. row_state(k, outcome) = IF outcome.ok THEN "superseded" ELSE "skipped"
    BY <1>1, <1>2, <1>3
  <2> QED BY <2>1, <1>2, <1>3 DEF at
<1>4. CASE k = at
  <2>1. row_state(k, outcome) = IF outcome.ok THEN "matched" ELSE "failed_here"
    BY <1>1, <1>2, <1>4
  <2> QED BY <2>1, <1>2, <1>4 DEF at
<1>5. CASE k > at
  <2>1. row_state(k, outcome) = "not_evaluated"
    BY <1>1, <1>2, <1>5
  <2> QED BY <2>1, <1>2, <1>5 DEF at
<1> QED BY <1>2, <1>3, <1>4, <1>5

\* The row of a branch in a state.
Row(k, st) ==
  CASE k = 1 -> candidate_bedrock(st)
    [] k = 2 -> candidate_native_claude(st)
    [] k = 3 -> candidate_openrouter_slash(st)
    [] k = 4 -> candidate_azure(st)
    [] k = 5 -> KeyedCandidate("openai", merged_cli_model.openai, st)
    [] k = 6 -> KeyedCandidate("groq", merged_cli_model.groq, st)
    [] k = 7 -> candidate_openai_compat(st)
    [] k = 8 -> OllamaCandidate(merged_cli_model.ollama, st)
    [] k = 9 -> OllamaCandidate(~merged_cli_model.ollama, st)

LEMMA Rows ==
  ASSUME NEW outcome
  PROVE  /\ DOMAIN build_candidates(outcome) = 1..9
         /\ \A k \in 1..9 : build_candidates(outcome)[k] = Row(k, row_state(k, outcome))
BY DEF build_candidates, Row

\* The rows one by one.
LEMMA RowIs ==
  ASSUME NEW st
  PROVE  /\ Row(1, st) = candidate_bedrock(st)
         /\ Row(2, st) = candidate_native_claude(st)
         /\ Row(3, st) = candidate_openrouter_slash(st)
         /\ Row(4, st) = candidate_azure(st)
         /\ Row(5, st) = KeyedCandidate("openai", merged_cli_model.openai, st)
         /\ Row(6, st) = KeyedCandidate("groq", merged_cli_model.groq, st)
         /\ Row(7, st) = candidate_openai_compat(st)
         /\ Row(8, st) = OllamaCandidate(merged_cli_model.ollama, st)
         /\ Row(9, st) = OllamaCandidate(~merged_cli_model.ollama, st)
BY DEF Row

\* What holds of every row holds of each.
LEMMA OneByOne == \A k \in 1..9 : k = 1 \/ k = 2 \/ k = 3 \/ k = 4 \/ k = 5
                                  \/ k = 6 \/ k = 7 \/ k = 8 \/ k = 9
OBVIOUS

\* A row says that its branch failed only in that state.
LEMMA FailedOnly ==
  ASSUME NEW k \in 1..9, NEW st, GivenOK, st # "failed_here"
  PROVE  Row(k, st).reason # "failed_here"
<1> USE DEF Candidate, Selected, Unfit, Missing, Passed
<1>1. candidate_bedrock(st).reason # "failed_here"
  BY DEF candidate_bedrock
<1>2. candidate_native_claude(st).reason # "failed_here"
  BY MergedFits DEF candidate_native_claude
<1>3. candidate_openrouter_slash(st).reason # "failed_here"
  BY MergedFits DEF candidate_openrouter_slash
<1>4. candidate_azure(st).reason # "failed_here"
  BY DEF candidate_azure
<1>5. KeyedCandidate("openai", merged_cli_model.openai, st).reason # "failed_here"
  BY MergedFits DEF KeyedCandidate
<1>6. KeyedCandidate("groq", merged_cli_model.groq, st).reason # "failed_here"
  BY MergedFits DEF KeyedCandidate
<1>7. candidate_openai_compat(st).reason # "failed_here"
  BY DEF candidate_openai_compat
<1>8. OllamaCandidate(merged_cli_model.ollama, st).reason # "failed_here"
  BY MergedFits DEF OllamaCandidate
<1>9. OllamaCandidate(~merged_cli_model.ollama, st).reason # "failed_here"
  BY MergedFits DEF OllamaCandidate
<1> HIDE DEF Candidate, Selected, Unfit, Missing, Passed
<1> QED
  BY <1>1, <1>2, <1>3, <1>4, <1>5, <1>6, <1>7, <1>8, <1>9, RowIs, OneByOne

\* A row is eligible only if its branch matched.
LEMMA EligibleOnly ==
  ASSUME NEW k \in 1..9, NEW st, GivenOK, st # "matched"
  PROVE  ~Row(k, st).eligible
<1> USE DEF Candidate, Selected, Unfit, Missing, Passed
<1>1. ~candidate_bedrock(st).eligible
  BY DEF candidate_bedrock
<1>2. ~candidate_native_claude(st).eligible
  BY MergedFits DEF candidate_native_claude
<1>3. ~candidate_openrouter_slash(st).eligible
  BY MergedFits DEF candidate_openrouter_slash
<1>4. ~candidate_azure(st).eligible
  BY DEF candidate_azure
<1>5. ~KeyedCandidate("openai", merged_cli_model.openai, st).eligible
  BY MergedFits DEF KeyedCandidate
<1>6. ~KeyedCandidate("groq", merged_cli_model.groq, st).eligible
  BY MergedFits DEF KeyedCandidate
<1>7. ~candidate_openai_compat(st).eligible
  BY DEF candidate_openai_compat
<1>8. ~OllamaCandidate(merged_cli_model.ollama, st).eligible
  BY MergedFits DEF OllamaCandidate
<1>9. ~OllamaCandidate(~merged_cli_model.ollama, st).eligible
  BY MergedFits DEF OllamaCandidate
<1> HIDE DEF Candidate, Selected, Unfit, Missing, Passed
<1> QED
  BY <1>1, <1>2, <1>3, <1>4, <1>5, <1>6, <1>7, <1>8, <1>9, RowIs, OneByOne

\* The account finds the branch of a provider, unless a custom server is
\* named after a provider.
LEMMA Seen ==
  ASSUME NEW s \in 1..9, GivenOK, Decides(s), Provider(s) # "none",
         s # 7 \/ Provider(s) = "openai_compatible"
  PROVE  success_step(Provider(s)) = s
<1>1. CASE s = 1
  BY <1>1, Providers DEF success_step
<1>2. CASE s = 2
  <2>1. merged_cli_model.claude /\ ~merged_cli_model.slash
    BY <1>2, Conditions DEF Decides
  <2> QED BY <1>2, <2>1, Providers DEF success_step
<1>3. CASE s = 3
  <2>1. merged_cli_model.slash
    BY <1>3, Conditions DEF Decides
  <2> QED BY <1>3, <2>1, Providers DEF success_step
<1>4. CASE s \in {4, 5, 6}
  BY <1>4, Providers DEF success_step
<1>5. CASE s = 7
  BY <1>5, Providers DEF success_step
<1>6. CASE s = 8
  <2>1. merged_cli_model.ollama
    BY <1>6, Conditions DEF Decides
  <2> QED BY <1>6, <2>1, Providers DEF success_step
<1>7. CASE s = 9
  <2>1. ~Applies(8)
    BY <1>7 DEF Decides
  <2>2. ~merged_cli_model.ollama
    BY <2>1, Conditions
  <2> QED BY <1>7, <2>2, Providers DEF success_step
<1> QED BY <1>1, <1>2, <1>3, <1>4, <1>5, <1>6, <1>7

LEMMA SomewhereSeen == \A id : success_step(id) \in 1..9
BY DEF success_step

\* What the row of the branch that decides says of a provider.
LEMMA DecidedRow ==
  ASSUME NEW s \in 1..9, GivenOK, Decides(s), Provider(s) # "none",
         s # 7 \/ Provider(s) = "openai_compatible"
  PROVE  /\ Row(s, "matched").eligible
         /\ Provider(s) \in IF s = 2 THEN {"anthropic", "openrouter"}
                            ELSE {Row(s, "matched").provider}
<1> USE DEF Candidate, Selected, Unfit, Missing, Passed
<1>1. CASE s = 1
  <2>1. bedrock_branch_active /\ from_env
    BY <1>1, Conditions, Providers DEF Decides
  <2>2. Row(1, "matched") = Selected("bedrock")
    BY <2>1, RowIs DEF candidate_bedrock
  <2> QED BY <1>1, <2>1, <2>2, Providers
<1>2. CASE s = 2
  <2>1. merged_cli_model.claude /\ ~merged_cli_model.slash
    BY <1>2, Conditions DEF Decides
  <2>2. Row(2, "matched") = Selected("native_claude")
    BY <2>1, RowIs DEF candidate_native_claude
  <2> QED BY <1>2, <2>2, Providers
<1>3. CASE s = 3
  <2>1. merged_cli_model.slash
    BY <1>3, Conditions DEF Decides
  <2>2. Row(3, "matched") = Selected("openrouter")
    BY <2>1, RowIs DEF candidate_openrouter_slash
  <2> QED BY <1>3, <2>2, Providers
<1>4. CASE s = 4
  <2>1. Has("azure_endpoint") /\ Has("azure_key")
    BY <1>4, Conditions DEF Decides
  <2>2. {k \in {"azure_endpoint", "azure_key"} : ~Has(k)} = {}
    BY <2>1
  <2>3. Row(4, "matched") = Selected("azure_openai")
    BY <2>2, RowIs, FS_EmptySet DEF candidate_azure
  <2> QED BY <1>4, <2>3, Providers
<1>5. CASE s = 5
  BY <1>5, RowIs, Providers DEF KeyedCandidate
<1>6. CASE s = 6
  BY <1>6, RowIs, Providers DEF KeyedCandidate
<1>7. CASE s = 7
  <2>1. Has("url") /\ Has("url_key")
    BY <1>7, Conditions, Providers DEF Decides
  <2>2. Row(7, "matched") = Selected("openai_compatible")
    BY <2>1, RowIs DEF candidate_openai_compat
  <2> QED BY <1>7, <2>2
<1>8. CASE s = 8
  <2>1. merged_cli_model.ollama
    BY <1>8, Conditions DEF Decides
  <2>2. Row(8, "matched") = Selected("ollama")
    BY <2>1, RowIs DEF OllamaCandidate
  <2> QED BY <1>8, <2>2, Providers
<1>9. CASE s = 9
  <2>1. ~Applies(8)
    BY <1>9 DEF Decides
  <2>2. ~merged_cli_model.ollama
    BY <2>1, Conditions
  <2>3. Row(9, "matched") = Selected("ollama")
    BY <2>2, RowIs DEF OllamaCandidate
  <2> QED BY <1>9, <2>3, Providers
<1> QED BY <1>1, <1>2, <1>3, <1>4, <1>5, <1>6, <1>7, <1>8, <1>9, OneByOne

\* What each branch that can fail asks for.
Remedy(s) ==
  CASE s = 1 -> AwsNames [] s = 2 -> {"anthropic", "openrouter"}
    [] s = 3 -> {"openrouter"} [] s = 7 -> {"url_key"}

\* What the row of the branch that decides says of a failure.
LEMMA FailedRow ==
  ASSUME NEW s \in 1..9, GivenOK, Decides(s), Provider(s) = "none"
  PROVE  /\ s \in {1, 2, 3, 7}
         /\ Row(s, "failed_here").reason = "failed_here"
         /\ Row(s, "failed_here").missing = Remedy(s)
<1> USE DEF Candidate, Missing
<1>0. s \in {1, 2, 3, 7}
  BY MayFail
<1>1. CASE s = 1
  <2>1. Row(1, "failed_here") = Missing("bedrock", "failed_here", AwsNames)
    BY RowIs DEF candidate_bedrock
  <2> QED BY <1>1, <2>1 DEF Remedy
<1>2. CASE s = 2
  <2>1. merged_cli_model.claude /\ ~merged_cli_model.slash
    BY <1>2, Conditions DEF Decides
  <2>2. Row(2, "failed_here") =
          Missing("native_claude", "failed_here", {"anthropic", "openrouter"})
    BY <2>1, RowIs DEF candidate_native_claude
  <2> QED BY <1>2, <2>2 DEF Remedy
<1>3. CASE s = 3
  <2>1. merged_cli_model.slash
    BY <1>3, Conditions DEF Decides
  <2>2. Row(3, "failed_here") = Missing("openrouter", "failed_here", {"openrouter"})
    BY <2>1, RowIs DEF candidate_openrouter_slash
  <2> QED BY <1>3, <2>2 DEF Remedy
<1>4. CASE s = 7
  <2>1. Row(7, "failed_here") = Missing("openai_compatible", "failed_here", {"url_key"})
    BY RowIs DEF candidate_openai_compat
  <2> QED BY <1>4, <2>1 DEF Remedy
<1> QED BY <1>0, <1>1, <1>2, <1>3, <1>4

(***************************************************************************)
(* The account agrees with resolve.                                        *)
(***************************************************************************)
LEMMA AccountAgrees ==
  ASSUME NEW s \in 1..9, GivenOK, Decides(s),
         NEW outcome, outcome = OutcomeOf(s),
         NEW rows, rows = build_candidates(outcome)
  PROVE  /\ DOMAIN rows = 1..9
         /\ FailedRows(rows) = IF outcome.ok THEN {} ELSE {s}
         /\ ~outcome.ok => rows[s].missing = Remedy(s)
         /\ outcome.step # 7 \/ outcome.id = "openai_compatible" \/ ~outcome.ok =>
              /\ {k \in DOMAIN rows : rows[k].eligible} = IF outcome.ok THEN {s} ELSE {}
              /\ outcome.ok => outcome.id \in IF s = 2 THEN {"anthropic", "openrouter"}
                                              ELSE {rows[s].provider}
<1> DEFINE St(k) == row_state(k, outcome)
<1>1. /\ outcome.ok = (Provider(s) # "none") /\ outcome.ok \in BOOLEAN
      /\ outcome.step = s /\ outcome.id = Provider(s)
  BY DEF OutcomeOf
<1>2. DOMAIN rows = 1..9 /\ \A k \in 1..9 : rows[k] = Row(k, St(k))
  BY Rows
<1>3. SeenAt(outcome) \in 1..9 /\ (~outcome.ok => SeenAt(outcome) = s)
  BY <1>1, SomewhereSeen DEF SeenAt
<1>4. \A k \in 1..9 : /\ St(k) = "matched" <=> outcome.ok /\ k = SeenAt(outcome)
                      /\ St(k) = "failed_here" <=> ~outcome.ok /\ k = SeenAt(outcome)
  <2>1. outcome.ok \in BOOLEAN /\ SeenAt(outcome) \in 1..9
    BY <1>1, <1>3
  <2> QED BY ONLY <2>1, States
<1> HIDE DEF St
<1>5. \A k \in 1..9 : St(k) # "failed_here" => rows[k].reason # "failed_here"
  BY <1>2, FailedOnly
<1>6. \A k \in 1..9 : St(k) # "matched" => ~rows[k].eligible
  BY <1>2, EligibleOnly
<1>7. CASE ~outcome.ok
  <2>1. St(s) = "failed_here" /\ Provider(s) = "none"
    BY <1>1, <1>3, <1>4, <1>7
  <2>2. rows[s].reason = "failed_here" /\ rows[s].missing = Remedy(s)
    BY <2>1, <1>2, FailedRow
  <2>3. \A k \in 1..9 : k # s => rows[k].reason # "failed_here"
    BY <1>3, <1>4, <1>5, <1>7
  <2>4. FailedRows(rows) = {s}
    BY <1>2, <2>2, <2>3 DEF FailedRows
  <2>5. \A k \in 1..9 : ~rows[k].eligible
    BY <1>4, <1>6, <1>7
  <2>6. {k \in DOMAIN rows : rows[k].eligible} = {}
    BY <1>2, <2>5
  <2> QED BY <1>2, <1>7, <2>2, <2>4, <2>6
<1>8. CASE outcome.ok
  <2>1. \A k \in 1..9 : rows[k].reason # "failed_here"
    BY <1>4, <1>5, <1>8
  <2>2. FailedRows(rows) = {}
    BY <1>2, <2>1 DEF FailedRows
  <2>3. ASSUME s # 7 \/ Provider(s) = "openai_compatible"
        PROVE  /\ {k \in DOMAIN rows : rows[k].eligible} = {s}
               /\ Provider(s) \in IF s = 2 THEN {"anthropic", "openrouter"}
                                  ELSE {rows[s].provider}
    <3>1. Provider(s) # "none"
      BY <1>1, <1>8
    <3>2. SeenAt(outcome) = s
      BY <1>1, <1>8, <2>3, <3>1, Seen DEF SeenAt
    <3>3. St(s) = "matched"
      BY <1>4, <1>8, <3>2
    <3>4. /\ rows[s].eligible
          /\ Provider(s) \in IF s = 2 THEN {"anthropic", "openrouter"}
                             ELSE {rows[s].provider}
      BY <1>2, <2>3, <3>1, <3>3, DecidedRow
    <3>5. \A k \in 1..9 : k # s => ~rows[k].eligible
      BY <1>4, <1>6, <3>2
    <3>6. {k \in DOMAIN rows : rows[k].eligible} = {s}
      BY <1>2, <3>4, <3>5
    <3> QED BY <3>4, <3>6
  <2> QED BY <1>1, <1>2, <1>8, <2>2, <2>3
<1> QED BY <1>1, <1>7, <1>8

\* So it does of every state in which the user has one.
LEMMA InvExplains == SettingsInv => ExplainedAsResolved
<1> SUFFICES ASSUME SettingsInv, trace # NoTrace
             PROVE  LET outcome == trace.outcome
                    IN  /\ supplied # 0 => outcome.ok /\ outcome.step = supplied
                        /\ FailedRows(trace.candidates) =
                             IF outcome.ok THEN {} ELSE {outcome.step}
                        /\ outcome.step # 7 \/ outcome.id = "openai_compatible"
                             \/ ~outcome.ok =>
                             /\ Eligible = IF outcome.ok THEN {outcome.step} ELSE {}
                             /\ \A k \in Eligible : outcome.id \in Names(k)
  BY DEF ExplainedAsResolved
<1> DEFINE outcome == trace.outcome
           rows == trace.candidates
<1>1. PICK s \in 1..9 : Decides(s) /\ resolve = OutcomeOf(s)
  BY Resolved
<1>2. outcome = OutcomeOf(s) /\ rows = build_candidates(outcome)
  BY <1>1 DEF SettingsInv
<1>3. outcome.step = s /\ outcome.ok = (Provider(s) # "none") /\ outcome.ok \in BOOLEAN
  BY <1>2 DEF OutcomeOf
<1>4. Eligible = {k \in DOMAIN rows : rows[k].eligible}
  BY DEF Eligible
<1>5. GivenOK
  BY DEF SettingsInv
<1> HIDE DEF outcome, rows
<1>6. /\ FailedRows(rows) = IF outcome.ok THEN {} ELSE {s}
      /\ outcome.step # 7 \/ outcome.id = "openai_compatible" \/ ~outcome.ok =>
           /\ Eligible = IF outcome.ok THEN {s} ELSE {}
           /\ outcome.ok => outcome.id \in IF s = 2 THEN {"anthropic", "openrouter"}
                                           ELSE {rows[s].provider}
  BY <1>1, <1>2, <1>4, <1>5, AccountAgrees
<1>7. supplied # 0 => outcome.ok /\ outcome.step = supplied
  <2>1. SUFFICES ASSUME supplied # 0 PROVE supplied = s /\ outcome.ok
    BY <1>3
  <2>2. supplied \in 1..9 /\ Decides(supplied) /\ Provider(supplied) # "none"
    BY <2>1 DEF SettingsInv
  <2> QED BY <1>1, <1>3, <2>2, OneDecides
<1>8. \A k \in Eligible : outcome.step # 7 \/ outcome.id = "openai_compatible" \/ ~outcome.ok
        => outcome.id \in Names(k)
  BY <1>6 DEF Names, rows
<1> QED BY <1>3, <1>6, <1>7, <1>8 DEF outcome, rows

(***************************************************************************)
(* The steps.                                                              *)
(***************************************************************************)
\* Everything is computed from the settings.
LEMMA SameSettings ==
  ASSUME given' = given
  PROVE  /\ resolve' = resolve
         /\ \A o : build_candidates(o)' = build_candidates(o)
         /\ \A s \in 1..9 : Decides(s)' = Decides(s) /\ Provider(s)' = Provider(s)
<1>1. merged_cli_model' = merged_cli_model
  BY DEF merged_cli_model
<1>2. \A n : Has(n)' = Has(n)
  BY DEF Has
<1>3. from_env' = from_env /\ custom' = custom
  BY DEF from_env, custom
<1>4. bedrock_branch_active' = bedrock_branch_active
  BY DEF bedrock_branch_active, AwsKey
<1>5. \A k : Applies(k)' = Applies(k)
  BY <1>1, <1>2, <1>4 DEF Applies
<1>6. \A s : Provider(s)' = Provider(s)
  BY <1>2, <1>3 DEF Provider
<1>7. \A s : Decides(s)' = Decides(s)
  BY <1>5 DEF Decides
<1>8. \A s : OutcomeOf(s)' = OutcomeOf(s)
  BY <1>6 DEF OutcomeOf
<1>9. resolve' = resolve
  <2>1. (\E s \in 1..9 : Decides(s) /\ resolve = OutcomeOf(s))'
    BY Resolved, PTL
  <2>2. PICK s \in 1..9 : Decides(s) /\ resolve' = OutcomeOf(s)
    BY <2>1, <1>7, <1>8
  <2> QED BY <2>2, ResolvedAs
<1>10. \A id : success_step(id)' = success_step(id)
  BY <1>1 DEF success_step
<1>11. \A k, o : row_state(k, o)' = row_state(k, o)
  BY <1>10 DEF row_state, failure_step
<1>12. \A st : candidate_bedrock(st)' = candidate_bedrock(st)
  BY <1>3, <1>4 DEF candidate_bedrock
<1>13. \A st : candidate_native_claude(st)' = candidate_native_claude(st)
  BY <1>1, <1>2 DEF candidate_native_claude
<1>14. \A st : candidate_openrouter_slash(st)' = candidate_openrouter_slash(st)
  BY <1>1, <1>2 DEF candidate_openrouter_slash
<1>15. \A st : candidate_azure(st)' = candidate_azure(st)
  <2>1. {k \in {"azure_endpoint", "azure_key"} : ~Has(k)}' =
          {k \in {"azure_endpoint", "azure_key"} : ~Has(k)}
    BY <1>2
  <2> QED BY <2>1 DEF candidate_azure
<1>16. \A p, fits, st : KeyedCandidate(p, fits, st)' = KeyedCandidate(p, fits, st)
  BY <1>2 DEF KeyedCandidate
<1>17. \A st : candidate_openai_compat(st)' = candidate_openai_compat(st)
  BY <1>2 DEF candidate_openai_compat
<1>18. \A o : build_candidates(o)' = build_candidates(o)
  BY <1>1, <1>11, <1>12, <1>13, <1>14, <1>15, <1>16, <1>17 DEF build_candidates
<1> QED BY <1>6, <1>7, <1>9, <1>18

LEMMA StartsUnexplained == SettingsInit => SettingsInv
<1> SUFFICES ASSUME SettingsInit PROVE SettingsInv
  OBVIOUS
<1>1. GivenOK
  BY DEF SettingsInit, GivenOK, Values, AwsNames
<1> QED BY <1>1 DEF SettingsInit, SettingsInv

\* The account that is kept is the account of resolve.
LEMMA ExplainStep ==
  ASSUME SettingsInv, explain_provider_resolution
  PROVE  SettingsInv'
<1>1. given' = given /\ supplied' = supplied
      /\ trace' = [outcome |-> resolve, candidates |-> build_candidates(resolve)]
  BY DEF explain_provider_resolution
<1>2. GivenOK'
  BY <1>1 DEF SettingsInv, GivenOK
<1>3. supplied \in 0..9
      /\ (supplied # 0 => Decides(supplied) /\ Provider(supplied) # "none")
  BY DEF SettingsInv
<1>4. supplied' # 0 => Decides(supplied)' /\ Provider(supplied)' # "none"
  BY <1>1, <1>3, SameSettings
<1>5. trace' = [outcome |-> resolve, candidates |-> build_candidates(resolve)]'
  BY <1>1, SameSettings
<1> QED BY <1>1, <1>2, <1>3, <1>4, <1>5 DEF SettingsInv

LEMMA SettingsStutter ==
  ASSUME SettingsInv, UNCHANGED settingsVars
  PROVE  SettingsInv'
<1>1. given' = given /\ supplied' = supplied /\ trace' = trace
  BY DEF settingsVars
<1>2. GivenOK'
  BY <1>1 DEF SettingsInv, GivenOK
<1>3. supplied \in 0..9
      /\ (supplied # 0 => Decides(supplied) /\ Provider(supplied) # "none")
  BY DEF SettingsInv
<1>4. supplied' # 0 => Decides(supplied)' /\ Provider(supplied)' # "none"
  BY <1>1, <1>3, SameSettings
<1>5. trace # NoTrace =>
        trace' = [outcome |-> resolve, candidates |-> build_candidates(resolve)]'
  BY <1>1, SameSettings DEF SettingsInv
<1>6. NoTrace' = NoTrace
  BY DEF NoTrace
<1> QED BY <1>1, <1>2, <1>3, <1>4, <1>5, <1>6 DEF SettingsInv

\* The settings with what the user supplies.
With(names) ==
  [given EXCEPT
     !.flags = [n \in Keys |-> IF n \in names THEN "set" ELSE @[n]],
     !.env = [v \in DOMAIN @ |-> IF v \in names THEN "set" ELSE @[v]]]

\* What the user supplies: what the failed row asks for.
LEMMA Supplied ==
  ASSUME SettingsInv, Supply
  PROVE  \E s \in {1, 2, 3, 7} :
           /\ Decides(s) /\ trace' = NoTrace /\ supplied' = s
           /\ \E names : /\ IF s = 2 THEN \E n \in Remedy(2) : names = {n}
                                      ELSE names = Remedy(s)
                         /\ given' = With(names)
<1>1. PICK s \in 1..9 : Decides(s) /\ resolve = OutcomeOf(s)
  BY Resolved
<1>2. GivenOK
  BY DEF SettingsInv
<1>3. trace.outcome = OutcomeOf(s) /\ trace.candidates = build_candidates(OutcomeOf(s))
      /\ ~trace.outcome.ok
  BY <1>1 DEF SettingsInv, Supply
<1>4. Provider(s) = "none" /\ trace.outcome.step = s
  <2>1. OutcomeOf(s).ok = (Provider(s) # "none") /\ OutcomeOf(s).step = s
    BY DEF OutcomeOf
  <2> QED BY <1>3, <2>1
<1>5. s \in {1, 2, 3, 7}
  BY <1>2, <1>4, MayFail
<1>6. FailedRows(trace.candidates) = {s} /\ trace.candidates[s].missing = Remedy(s)
  BY <1>1, <1>2, <1>3, AccountAgrees
<1>7. PICK k \in FailedRows(trace.candidates) :
        \E names \in IF k = 2 THEN {{n} : n \in trace.candidates[k].missing}
                              ELSE {trace.candidates[k].missing} :
          given' = With(names)
  BY DEF Supply, With
<1>8. k = s
  BY <1>6, <1>7
<1>9. PICK names \in IF s = 2 THEN {{n} : n \in Remedy(s)} ELSE {Remedy(s)} :
        given' = With(names)
  BY <1>6, <1>7, <1>8
<1>10. IF s = 2 THEN \E n \in Remedy(2) : names = {n} ELSE names = Remedy(s)
  BY <1>9
<1>11. trace' = NoTrace /\ supplied' = s
  BY <1>4 DEF Supply
<1> QED BY <1>1, <1>5, <1>9, <1>10, <1>11

\* The settings after that: the names are set, all else is as it was.
LEMMA SettingsAfter ==
  ASSUME GivenOK, NEW names,
         given' = With(names)
  PROVE  /\ GivenOK'
         /\ merged_cli_model' = merged_cli_model
         /\ \A n \in Keys : Has(n)' <=> n \in names \/ Has(n)
         /\ AwsNames \subseteq names => AwsKey' /\ from_env'
         /\ AwsNames \cap names = {} => bedrock_branch_active' = bedrock_branch_active
         /\ custom' = custom
<1>1. /\ given'.stored = given.stored /\ given'.model = given.model
      /\ given'.default_model = given.default_model /\ given'.host = given.host
      /\ given'.bedrock = given.bedrock
      /\ given'.flags = [n \in Keys |-> IF n \in names THEN "set" ELSE given.flags[n]]
      /\ given'.env = [v \in AwsNames |-> IF v \in names THEN "set" ELSE given.env[v]]
  BY DEF GivenOK, With
<1>2. GivenOK'
  BY <1>1 DEF GivenOK
<1>3. merged_cli_model' = merged_cli_model /\ custom' = custom
  BY <1>1 DEF merged_cli_model, custom
<1>4. \A n \in Keys : Has(n)' <=> n \in names \/ Has(n)
  BY <1>1 DEF Has
<1>5. ASSUME AwsNames \subseteq names PROVE AwsKey' /\ from_env'
  <2>1. given'.env = [v \in AwsNames |-> "set"]
    BY <1>1, <1>5
  <2>2. AwsKey'
    BY <2>1 DEF AwsKey, AwsNames
  <2>3. DOMAIN given'.env = AwsNames /\ \A v \in AwsNames : given'.env[v] = "set"
    BY <2>1
  <2>4. {given'.env[v] : v \in DOMAIN given'.env} \cap {"none"} = {}
    BY <2>3
  <2>5. from_env'
    BY <2>4 DEF from_env
  <2> QED BY <2>2, <2>5
<1>6. ASSUME AwsNames \cap names = {}
      PROVE bedrock_branch_active' = bedrock_branch_active
  <2>1. given'.env["AWS_ACCESS_KEY_ID"] = given.env["AWS_ACCESS_KEY_ID"]
    BY <1>1, <1>6 DEF AwsNames
  <2> QED BY <1>1, <2>1 DEF bedrock_branch_active, AwsKey
<1> QED BY <1>2, <1>3, <1>4, <1>5, <1>6

\* Who supplies what the row asks for gets the provider of its branch.
LEMMA RemedyHelps ==
  ASSUME GivenOK, NEW s \in {1, 2, 3, 7}, Decides(s), NEW names,
         IF s = 2 THEN \E n \in Remedy(2) : names = {n} ELSE names = Remedy(s),
         GivenOK', merged_cli_model' = merged_cli_model,
         \A n \in Keys : Has(n)' <=> n \in names \/ Has(n),
         AwsNames \subseteq names => AwsKey' /\ from_env',
         AwsNames \cap names = {} => bedrock_branch_active' = bedrock_branch_active,
         custom' = custom
  PROVE  Decides(s)' /\ Provider(s)' # "none"
<1>1. CASE s = 1
  <2>1. AwsKey' /\ from_env'
    BY <1>1 DEF Remedy
  <2>2. Applies(1)'
    BY <2>1 DEF Applies, bedrock_branch_active
  <2>3. Provider(1)' # "none"
    BY <2>1 DEF Provider
  <2>4. \A k \in 1..(s - 1) : ~Applies(k)'
    BY <1>1
  <2> QED BY <1>1, <2>2, <2>3, <2>4 DEF Decides
<1>2. ASSUME s # 1 PROVE Decides(s)' /\ Provider(s)' # "none"
  <2>1. names \subseteq Keys /\ AwsNames \cap names = {} /\ "url" \notin names
        /\ (s = 7 => names = {"url_key"}) /\ (s = 3 => names = {"openrouter"})
        /\ (s = 2 => names = {"anthropic"} \/ names = {"openrouter"})
    BY <1>2 DEF Remedy, Keys, AwsNames
  <2>2. bedrock_branch_active' = bedrock_branch_active
    BY <2>1
  <2>3. Applies(1)' = Applies(1) /\ Applies(2)' = Applies(2) /\ Applies(3)' = Applies(3)
    BY <2>2 DEF Applies
  <2>4. CASE s = 7
    <3>1. \A n \in {"openai", "groq", "azure_endpoint", "azure_key", "url"} :
            Has(n)' <=> Has(n)
      BY <2>1, <2>4 DEF Keys
    <3>2. /\ Applies(4)' <=> Applies(4)
          /\ Applies(5)' <=> Applies(5)
          /\ Applies(6)' <=> Applies(6)
          /\ Applies(7)' <=> Applies(7)
      BY <3>1 DEF Applies
    <3>3. Has("url_key")'
      BY <2>1, <2>4 DEF Keys
    <3>4. custom # "none"
      BY ModelAssumption DEF custom, GivenOK
    <3>5. Provider(7)' # "none"
      BY <3>3, <3>4 DEF Provider
    <3>6. \A k \in 1..(s - 1) : k \in 1..6
      BY <2>4
    <3>7. \A k \in 1..6 : k = 1 \/ k = 2 \/ k = 3 \/ k = 4 \/ k = 5 \/ k = 6
      OBVIOUS
    <3>8. \A k \in 1..(s - 1) : ~Applies(k)'
      BY <2>3, <3>2, <3>6, <3>7 DEF Decides
    <3>9. Applies(7)'
      BY <2>4, <3>2 DEF Decides
    <3> QED BY <2>4, <3>5, <3>8, <3>9 DEF Decides
  <2>5. CASE s = 2
    <3>1. Has("anthropic")' \/ Has("openrouter")'
      BY <2>1, <2>5 DEF Keys
    <3>2. Provider(2)' # "none"
      BY <3>1 DEF Provider
    <3>3. \A k \in 1..(s - 1) : k = 1
      BY <2>5
    <3>4. \A k \in 1..(s - 1) : ~Applies(k)'
      BY <2>3, <3>3 DEF Decides
    <3>5. Applies(2)'
      BY <2>3, <2>5 DEF Decides
    <3> QED BY <2>5, <3>2, <3>4, <3>5 DEF Decides
  <2>6. CASE s = 3
    <3>1. Has("openrouter")'
      BY <2>1, <2>6 DEF Keys
    <3>2. Provider(3)' # "none"
      BY <3>1 DEF Provider
    <3>3. \A k \in 1..(s - 1) : k = 1 \/ k = 2
      BY <2>6
    <3>4. \A k \in 1..(s - 1) : ~Applies(k)'
      BY <2>3, <3>3 DEF Decides
    <3>5. Applies(3)'
      BY <2>3, <2>6 DEF Decides
    <3> QED BY <2>6, <3>2, <3>4, <3>5 DEF Decides
  <2> QED BY <1>2, <2>4, <2>5, <2>6
<1> QED BY <1>1, <1>2

LEMMA SupplyStep ==
  ASSUME SettingsInv, Supply
  PROVE  SettingsInv'
<1>1. GivenOK
  BY DEF SettingsInv
<1>2. PICK s \in {1, 2, 3, 7} :
           /\ Decides(s) /\ trace' = NoTrace /\ supplied' = s
           /\ \E names : /\ IF s = 2 THEN \E n \in Remedy(2) : names = {n}
                                      ELSE names = Remedy(s)
                         /\ given' = With(names)
  BY Supplied
<1>3. PICK names :
        /\ IF s = 2 THEN \E n \in Remedy(2) : names = {n} ELSE names = Remedy(s)
        /\ given' = With(names)
  BY <1>2
<1>4. GivenOK' /\ Decides(s)' /\ Provider(s)' # "none"
  BY <1>1, <1>2, <1>3, SettingsAfter, RemedyHelps
<1>5. supplied' = s /\ s \in 0..9 /\ trace' = NoTrace
  BY <1>2
<1>6. NoTrace' = NoTrace
  BY DEF NoTrace
<1> QED BY <1>4, <1>5, <1>6 DEF SettingsInv

\* In every setting, the account explain_provider_resolution gives is that of
\* the branch LlmConnectConfig::resolve took.
THEOREM SettingsInductive == SettingsSpec => []SettingsInv
<1>1. SettingsInit => SettingsInv
  BY StartsUnexplained
<1>2. SettingsInv /\ [SettingsNext]_settingsVars => SettingsInv'
  BY ExplainStep, SupplyStep, SettingsStutter DEF SettingsNext
<1> QED BY <1>1, <1>2, PTL DEF SettingsSpec

\* explain-provider, doctor and the summary name the provider resolve chose, or
\* the branch that failed, and whoever supplies what that asks for gets it.
THEOREM AlwaysExplainedAsResolved == SettingsSpec => []ExplainedAsResolved
BY SettingsInductive, InvExplains, PTL
=============================================================================
