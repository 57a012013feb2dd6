---------------------------- MODULE HeadlessRun ----------------------------
(***************************************************************************)
(* The headless command `akmon --task ...` (main.rs) around one agent run: *)
(* which session it continues, the journal it opens, and the files it      *)
(* leaves behind: the audit log, the evidence file that names the log, the *)
(* transcript a later run resumes from, and the index that `--continue`    *)
(* looks in.  Several such processes run side by side under one home       *)
(* directory.  What they share is files; the only thing that keeps them    *)
(* apart is the lock redb holds on the journal while it is open.           *)
(*                                                                         *)
(* Every file is created empty and then filled, so another process, a      *)
(* failing write or a kill may meet it in between.  A session is named by  *)
(* the run that created it, a turn by the run that made it.                *)
(***************************************************************************)
EXTENDS Naturals, FiniteSets, Sequences, TLC

CONSTANTS Runs,       \* the processes
          Projects,   \* project directories
          Commands,   \* what may be asked of a process
          Custom,     \* the path of an --audit-log option
          None,
          MaxFaults   \* bound: kills and failing writes

Sessions == Runs
Paths == Sessions \union {Custom}

(* What a transcript, an audit log and an evidence file hold. *)
Transcripts == [whole : BOOLEAN, project : Projects, rows : Seq(Runs)]
AuditLogs == [by : Runs, lines : {"empty", "prefix", "torn", "whole"}]
EvidenceFiles ==
    [by : Runs, whole : BOOLEAN, path : Paths, audit_chain_valid : BOOLEAN,
     session_final_hash : AuditLogs \union {None}]

ASSUME HeadlessRunAssumption ==
    /\ Custom \notin Runs /\ None \notin Runs \union Projects \union {Custom}
    /\ None \notin Transcripts /\ None \notin AuditLogs /\ None \notin EvidenceFiles
    /\ Commands \subseteq [project : Projects, mode : {"task", "plan", "architect"},
                           select : {"new", "continue", "session"},
                           audit_log : {None, Custom}]
    /\ MaxFaults \in Nat

VARIABLES procs,        \* run |-> what the process knows and where it stands
          lock,         \* the process that has the journal open
          journal,      \* session |-> the turns recorded in it
          transcripts,  \* ~/.akmon/sessions: session |-> its saved transcript
          index,        \* ~/.akmon/last_session.json
          audit,        \* path |-> the audit log there
          evidence,     \* session |-> its evidence file
          order,        \* history: the runs that opened the journal, in order
          saves,        \* history: the runs whose transcript was saved whole
          torn,         \* history: the index was left half-written
          faults        \* faults so far

vars == <<procs, lock, journal, transcripts, index, audit, evidence,
          order, saves, torn, faults>>

NoEntries == [p \in Projects |-> None]

Init ==
    /\ procs \in [Runs -> {[command |-> c, at |-> "start", session |-> None,
                            resumed |-> FALSE, read |-> <<>>, context |-> <<>>,
                            entries |-> NoEntries, outcome |-> "None",
                            plan |-> FALSE, hit |-> FALSE, stale |-> FALSE,
                            indexed |-> FALSE, exit |-> "None"] : c \in Commands}]
    /\ lock = None
    /\ journal = [s \in Sessions |-> <<>>]
    /\ transcripts = [s \in Sessions |-> None]
    /\ index = [whole |-> TRUE, entries |-> NoEntries]
    /\ audit = [path \in Paths |-> None]
    /\ evidence = [s \in Sessions |-> None]
    /\ order = <<>> /\ saves = {} /\ torn = FALSE /\ faults = 0

Project(r) == procs[r].command.project
Mode(r) == procs[r].command.mode
Session(r) == procs[r].session
At(r, step) == procs[r].at = step

(* default_audit_log_path, or the --audit-log of the command. *)
AuditPath(r) ==
    IF procs[r].command.audit_log = None THEN Session(r)
    ELSE procs[r].command.audit_log

Goes(r, step) == [procs EXCEPT ![r].at = step]

(* A process that ends gives the journal back. *)
Leave(r, p, code) ==
    /\ procs' = [p EXCEPT ![r].at = "done", ![r].exit = code]
    /\ lock' = IF lock = r THEN None ELSE lock

-----------------------------------------------------------------------------
(***************************************************************************)
(* Before the journal is open.                                             *)
(***************************************************************************)

(* SessionIndex::load: a file that cannot be parsed counts as empty. *)
LoadedIndex == IF index.whole THEN index.entries ELSE NoEntries

(* resolve_resume_session_id.  The id of a session may be given in full,   *)
(* with or without a transcript.                                           *)
Resolve(r) ==
    /\ At(r, "start")
    /\ LET c == procs[r].command
           found == CASE c.select = "new" -> {r}
                      [] c.select = "continue" ->
                             {LoadedIndex[c.project]} \ {None}
                      [] c.select = "session" ->
                             {s \in Sessions : journal[s] # <<>>}
       IN  \/ /\ found # {}
              /\ \E s \in found :
                    procs' = [procs EXCEPT ![r].session = s,
                                           ![r].resumed = c.select # "new",
                                           ![r].at = "load"]
              /\ UNCHANGED lock
           \/ /\ found = {}
              /\ Leave(r, procs, "no_session")
    /\ UNCHANGED <<journal, transcripts, index, audit, evidence,
                   order, saves, torn, faults>>

(* load_resume_messages: without a readable transcript of this project the *)
(* run warns and starts with no context.                                   *)
ResumeMessages(s, project) ==
    LET t == transcripts[s]
    IN  IF t = None THEN <<>>
        ELSE IF ~t.whole \/ t.project # project THEN <<>>
        ELSE t.rows

LoadTranscript(r) ==
    /\ At(r, "load")
    /\ procs' = [Goes(r, "open") EXCEPT
                   ![r].stale = lock # None /\ Session(lock) = Session(r),
                   ![r].read = IF procs[r].resumed
                               THEN ResumeMessages(Session(r), Project(r))
                               ELSE <<>>]
    /\ UNCHANGED <<lock, journal, transcripts, index, audit, evidence,
                   order, saves, torn, faults>>

(* The policy, the provider or AKMON.md cannot be had. *)
ConfigError(r) ==
    /\ At(r, "start") \/ At(r, "open")
    /\ Leave(r, procs, "config")
    /\ UNCHANGED <<journal, transcripts, index, audit, evidence,
                   order, saves, torn, faults>>

(* open_or_resume_default_journal_handle: redb opens the file for one      *)
(* holder at a time, be it of this process or of another.  What the other  *)
(* processes have read of this session by now is out of date.              *)
OpenJournal(r) ==
    /\ At(r, "open")
    /\ \/ /\ lock # None
          /\ Leave(r, procs, "locked")
          /\ UNCHANGED order
       \/ /\ lock = None
          /\ lock' = r
          /\ order' = Append(order, r)
          /\ procs' = [q \in Runs |->
                         IF q = r THEN [procs[r] EXCEPT !.at = "turn",
                                                        !.context = @ \o procs[r].read]
                         ELSE IF At(q, "open") /\ Session(q) = Session(r)
                              THEN [procs[q] EXCEPT !.stale = TRUE]
                              ELSE procs[q]]
    /\ UNCHANGED <<journal, transcripts, index, audit, evidence,
                   saves, torn, faults>>

-----------------------------------------------------------------------------
(***************************************************************************)
(* The run and what it leaves.                                             *)
(***************************************************************************)

(* The rows of a turn join the context the run started with. *)
FreshContext(context, r) == <<r>>
Answered(context, r) == Append(context, r)

AfterTurn(r, outcome) ==
    IF Mode(r) = "plan" \/ (Mode(r) = "architect" /\ outcome = "ok")
    THEN "plan" ELSE "audit"

(* AgentSession::run.  The task is in the journal first; it is in the      *)
(* context from the first answer of the model on.                          *)
Turn(r) ==
    /\ At(r, "turn")
    /\ \E outcome \in {"ok", "failed"}, answered \in BOOLEAN :
          /\ outcome = "ok" => answered
          /\ procs' = [Goes(r, AfterTurn(r, outcome)) EXCEPT
                         ![r].outcome = outcome,
                         ![r].context = IF answered THEN Answered(@, r) ELSE @]
    /\ journal' = [journal EXCEPT ![Session(r)] = Append(@, r)]
    /\ UNCHANGED <<lock, transcripts, index, audit, evidence,
                   order, saves, torn, faults>>

(* save_plan_markdown.  --plan goes on to its files; --architect goes on   *)
(* to its second phase, which opens the journal as a resumed session.      *)
SavePlan(r) ==
    /\ At(r, "plan")
    /\ procs' = [Goes(r, IF Mode(r) = "plan" THEN "audit" ELSE "open")
                   EXCEPT ![r].plan = TRUE]
    /\ UNCHANGED <<lock, journal, transcripts, index, audit, evidence,
                   order, saves, torn, faults>>

(* --plan gives up when the plan cannot be saved; --architect only warns. *)
PlanFails(r) ==
    /\ At(r, "plan") /\ faults < MaxFaults
    /\ faults' = faults + 1
    /\ IF Mode(r) = "plan" THEN Leave(r, procs, "config")
       ELSE procs' = [Goes(r, "open") EXCEPT ![r].plan = TRUE] /\ UNCHANGED lock
    /\ UNCHANGED <<journal, transcripts, index, audit, evidence,
                   order, saves, torn>>

(* write_audit_jsonl: the file is truncated, then gets the chained events  *)
(* of this process.                                                        *)
CreateAudit(r) ==
    /\ At(r, "audit")
    /\ audit' = [audit EXCEPT ![AuditPath(r)] = [by |-> r, lines |-> "empty"]]
    /\ procs' = Goes(r, "audit_fill")
    /\ UNCHANGED <<lock, journal, transcripts, index, evidence,
                   order, saves, torn, faults>>

(* What follows the audit log: the planner of --architect stops when it    *)
(* failed, a failed run has no evidence.                                   *)
AfterAudit(r) ==
    IF procs[r].outcome = "ok" THEN "evidence"
    ELSE IF Mode(r) = "architect" THEN "exit" ELSE "save"

FillAudit(r) ==
    /\ At(r, "audit_fill")
    /\ audit' = [audit EXCEPT ![AuditPath(r)] = [by |-> r, lines |-> "whole"]]
    /\ procs' = Goes(r, AfterAudit(r))
    /\ UNCHANGED <<lock, journal, transcripts, index, evidence,
                   order, saves, torn, faults>>

(* verify_audit_jsonl: a missing file and a half line fail; a log that     *)
(* stops early is a valid chain with another final hash.                   *)
ChainValid(path) == audit[path] # None /\ audit[path].lines # "torn"

(* The log the evidence is about.  (Mutant: always the default path.) *)
DefaultLog(r) == Session(r)
LogOf(r) == AuditPath(r)

(* build_evidence_artifact reads the log back from disk. *)
CreateEvidence(r) ==
    /\ At(r, "evidence")
    /\ LET path == LogOf(r) IN
       evidence' = [evidence EXCEPT ![Session(r)] =
                      [by |-> r, whole |-> FALSE, path |-> path,
                       audit_chain_valid |-> ChainValid(path),
                       session_final_hash |-> audit[path]]]
    /\ procs' = Goes(r, "evidence_fill")
    /\ UNCHANGED <<lock, journal, transcripts, index, audit,
                   order, saves, torn, faults>>

FillEvidence(r) ==
    /\ At(r, "evidence_fill")
    /\ evidence' = [evidence EXCEPT ![Session(r)].whole = TRUE]
    /\ procs' = Goes(r, "save")
    /\ UNCHANGED <<lock, journal, transcripts, index, audit,
                   order, saves, torn, faults>>

(* headless_persist, whatever the outcome.  (The handoff file before it    *)
(* needs two finished turns in one process, which this one never has.)     *)
CreateTranscript(r) ==
    /\ At(r, "save")
    /\ transcripts' = [transcripts EXCEPT ![Session(r)] =
                         [whole |-> FALSE, project |-> Project(r),
                          rows |-> procs[r].context]]
    /\ procs' = Goes(r, "save_fill")
    /\ UNCHANGED <<lock, journal, index, audit, evidence,
                   order, saves, torn, faults>>

FillTranscript(r) ==
    /\ At(r, "save_fill")
    /\ transcripts' = [transcripts EXCEPT ![Session(r)].whole = TRUE]
    /\ saves' = saves \union {r}
    /\ procs' = Goes(r, "index")
    /\ UNCHANGED <<lock, journal, index, audit, evidence, order, torn, faults>>

(* Mutant: the entry goes into a new map. *)
NewIndex(r) ==
    /\ At(r, "index")
    /\ procs' = [Goes(r, "index_create") EXCEPT
                   ![r].entries = [NoEntries EXCEPT ![Project(r)] = Session(r)]]
    /\ UNCHANGED <<lock, journal, transcripts, index, audit, evidence,
                   order, saves, torn, faults>>

(* SessionIndex: read the whole map, change one entry, write it back. *)
LoadIndex(r) ==
    /\ At(r, "index")
    /\ procs' = [Goes(r, "index_create") EXCEPT
                   ![r].entries = [LoadedIndex EXCEPT ![Project(r)] = Session(r)]]
    /\ UNCHANGED <<lock, journal, transcripts, index, audit, evidence,
                   order, saves, torn, faults>>

CreateIndex(r) ==
    /\ At(r, "index_create")
    /\ index' = [whole |-> FALSE, entries |-> procs[r].entries]
    /\ procs' = Goes(r, "index_fill")
    /\ UNCHANGED <<lock, journal, transcripts, audit, evidence,
                   order, saves, torn, faults>>

FillIndex(r) ==
    /\ At(r, "index_fill")
    /\ index' = [index EXCEPT !.whole = TRUE]
    /\ procs' = [Goes(r, "exit") EXCEPT ![r].indexed = TRUE]
    /\ UNCHANGED <<lock, journal, transcripts, audit, evidence,
                   order, saves, torn, faults>>

(* The report, the end of the session in the journal, the exit code. *)
Exit(r) ==
    /\ At(r, "exit")
    /\ Leave(r, procs, procs[r].outcome)
    /\ UNCHANGED <<journal, transcripts, index, audit, evidence,
                   order, saves, torn, faults>>

-----------------------------------------------------------------------------
(***************************************************************************)
(* Faults: a file that cannot be opened or written is a warning, a killed  *)
(* process leaves its files as they are.                                   *)
(***************************************************************************)
AfterFile(r) ==
    CASE procs[r].at \in {"audit", "audit_fill"} -> AfterAudit(r)
      [] procs[r].at \in {"evidence", "evidence_fill"} -> "save"
      [] procs[r].at \in {"save", "save_fill"} -> "index"
      [] procs[r].at \in {"index_create", "index_fill"} -> "exit"

HalfWritten(r) == procs[r].at \in {"audit_fill", "evidence_fill", "save_fill",
                                   "index_fill"}

(* Of a log that could not be filled some lines are there, or half a line. *)
HalfAudit(r) ==
    IF At(r, "audit_fill")
    THEN \E lines \in {"empty", "prefix", "torn"} :
            audit' = [audit EXCEPT ![AuditPath(r)].lines = lines]
    ELSE audit' = audit

FileFails(r) ==
    /\ faults < MaxFaults
    /\ HalfWritten(r) \/ procs[r].at \in {"audit", "evidence", "save", "index_create"}
    /\ HalfAudit(r)
    /\ torn' = (torn \/ At(r, "index_fill"))
    /\ procs' = [Goes(r, AfterFile(r)) EXCEPT ![r].hit = TRUE]
    /\ faults' = faults + 1
    /\ UNCHANGED <<lock, journal, transcripts, index, evidence, order, saves>>

Kill(r) ==
    /\ faults < MaxFaults /\ procs[r].at \notin {"start", "done"}
    /\ HalfAudit(r)
    /\ torn' = (torn \/ At(r, "index_fill"))
    /\ Leave(r, procs, "killed")
    /\ faults' = faults + 1
    /\ UNCHANGED <<journal, transcripts, index, evidence, order, saves>>

Next ==
    \E r \in Runs :
       \/ Resolve(r) \/ LoadTranscript(r) \/ ConfigError(r) \/ OpenJournal(r)
       \/ Turn(r) \/ SavePlan(r) \/ PlanFails(r)
       \/ CreateAudit(r) \/ FillAudit(r) \/ CreateEvidence(r) \/ FillEvidence(r)
       \/ CreateTranscript(r) \/ FillTranscript(r)
       \/ LoadIndex(r) \/ CreateIndex(r) \/ FillIndex(r) \/ Exit(r)
       \/ FileFails(r) \/ Kill(r)

Spec == Init /\ [][Next]_vars

-----------------------------------------------------------------------------
(***************************************************************************)
(* Properties.                                                             *)
(***************************************************************************)
Precedes(q, r) == \E i, j \in 1..Len(order) : order[i] = q /\ order[j] = r /\ i < j

Opened(r) == \E i \in 1..Len(order) : order[i] = r

OpenedSince(r) == {q \in Runs : Precedes(r, q)}

(* What `akmon evidence verify` checks of the evidence file of a session.  *)
EvidenceVerifies(s) ==
    /\ evidence[s] # None
    /\ evidence[s].whole /\ evidence[s].audit_chain_valid
    /\ ChainValid(evidence[s].path)
    /\ evidence[s].session_final_hash = audit[evidence[s].path]

(* A run that reports success leaves an evidence file that verifies and an *)
(* audit log that holds all of this run and nothing else, unless writing   *)
(* one of them failed, until another run of the session or of the same     *)
(* --audit-log begins.  No other run can come between: it would need the   *)
(* journal.                                                                *)
EvidenceHolds ==
    \A r \in Runs :
        /\ procs[r].exit = "ok" /\ ~procs[r].hit
        /\ \A q \in OpenedSince(r) : /\ Session(q) # Session(r)
                                      /\ AuditPath(q) # AuditPath(r)
        => /\ EvidenceVerifies(Session(r))
           /\ evidence[Session(r)].by = r
           /\ audit[AuditPath(r)] = [by |-> r, lines |-> "whole"]

(* `akmon --continue` finds the last session of its project: whatever the  *)
(* processes of other projects write into the same file meanwhile, the     *)
(* index names the session of the last run that recorded itself, unless a  *)
(* write of the index itself broke off.  Nor does it get ahead of the      *)
(* transcripts: a session it names was saved by a run of that project, at  *)
(* whatever step processes are killed; only a save that failed with a      *)
(* warning leaves an entry without one.                                    *)
ContinueFindsLast ==
    \A p \in Projects :
        LET recorded == {r \in Runs : /\ Opened(r) /\ procs[r].indexed
                                      /\ Project(r) = p}
            s == LoadedIndex[p]
        IN  /\ (index.whole /\ ~torn) =>
                  IF recorded = {} THEN s = None
                  ELSE \E r \in recorded : /\ s = Session(r)
                                            /\ recorded \intersect OpenedSince(r) = {}
            /\ s # None => \E r \in Runs : /\ Opened(r) /\ Session(r) = s
                                           /\ Project(r) = p
                                           /\ r \in saves \/ procs[r].hit

Earlier(r) == {q \in Runs : Precedes(q, r) /\ Session(q) = Session(r)}
In(q, rows) == \E i \in 1..Len(rows) : rows[i] = q

(* A resumed run starts from the whole conversation: every answered turn   *)
(* of the session, once, in the order of the journal, when the runs before *)
(* it were of the same project and lived to save it, and none of them, nor *)
(* this one, had read the transcript while another run of the session was  *)
(* at work.                                                                *)
ResumeIsComplete ==
    \A r \in Runs :
        LET Joined(q) == ~procs[q].stale /\ Project(q) = Project(r)
            read == procs[r].read
        IN  (Opened(r) /\ procs[r].resumed /\ Joined(r)
             /\ \A q \in Earlier(r) : q \in saves /\ Joined(q))
            => /\ \A q \in Runs : In(q, read) <=> /\ q \in Earlier(r)
                                                  /\ In(q, procs[q].context)
               /\ \A i, j \in 1..Len(read) : i < j => Precedes(read[i], read[j])

(* docs/src/usage/architect-mode.md: "Architect mode runs a planner phase  *)
(* and implementation phase in one command": a command whose plan is made  *)
(* is not refused the journal it holds itself.                             *)
ArchitectImplements ==
    \A r \in Runs : ~(Mode(r) = "architect" /\ procs[r].plan
                       /\ procs[r].exit = "locked")
=============================================================================
