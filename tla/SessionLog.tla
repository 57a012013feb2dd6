----------------------------- MODULE SessionLog -----------------------------
(***************************************************************************)
(* What the journal promises the rest of akmon: a log of event kinds per   *)
(* session, created empty once, extended one event at a time, opened by    *)
(* SessionStart, and never shortened or rewritten.  Hashes, transactions,  *)
(* emitters, errors and crashes are hidden; SessionGraph implements this.  *)
(***************************************************************************)
EXTENDS Sequences

CONSTANTS LogSessions, LogTags

VARIABLES created, log

logVars == <<created, log>>

LogInit ==
  /\ created = {}
  /\ log = [s \in LogSessions |-> <<>>]

\* A session gets its head row.
Create(s) ==
  /\ s \notin created
  /\ created' = created \cup {s}
  /\ UNCHANGED log

\* An append that returns Ok.
AppendEvent(s, tag) ==
  /\ s \in created
  /\ (log[s] = <<>>) <=> (tag = "SessionStart")
  /\ log' = [log EXCEPT ![s] = Append(@, tag)]
  /\ UNCHANGED created

LogNext ==
  \E s \in LogSessions : Create(s) \/ \E tag \in LogTags : AppendEvent(s, tag)

LogSpec == LogInit /\ [][LogNext]_logVars
=============================================================================
