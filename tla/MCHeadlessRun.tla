--------------------------- MODULE MCHeadlessRun ---------------------------
(* Three processes over two projects; some share an --audit-log.  And, in  *)
(* behaviours of their own, the choice of a provider: nine kinds of model  *)
(* names, two settings given and one stored.                               *)
EXTENDS HeadlessRun, LlmSettings

CONSTANTS p, q, r1, r2, r3

Command(project, mode, select, audit_log) ==
    [project |-> project, mode |-> mode, select |-> select,
     audit_log |-> audit_log]

MCCommands ==
    {Command(p, "task", "new", None), Command(q, "task", "new", Custom),
     Command(p, "task", "continue", None), Command(q, "plan", "session", Custom),
     Command(p, "architect", "session", None)}

MCSymmetry == Permutations(Runs)

VARIABLE part

\* A model by the heuristics that take it for theirs.
Model(kinds) ==
    [kind \in {"claude", "slash", "openai", "groq", "ollama"} |-> kind \in kinds]

MCModels ==
    {Model(kinds) : kinds \in
       {{"claude"}, {"claude", "slash"}, {"slash"}, {"openai"}, {"openai", "ollama"},
        {"groq"}, {"groq", "ollama"}, {"ollama"}, {}}}
MCDefaultModel == Model({"groq", "ollama"})
MCStoredModels == {Model({"claude"}), NoModel}

RunsRest == Init /\ \A r \in Runs : procs[r].command = CHOOSE c \in Commands : TRUE
SettingsRest == given = <<>> /\ trace = NoTrace /\ supplied = 0

PartsInit ==
    \/ part = "runs" /\ Init /\ SettingsRest
    \/ part = "settings" /\ RunsRest /\ SettingsInit

PartsNext ==
    \/ part = "runs" /\ Next /\ UNCHANGED settingsVars /\ UNCHANGED part
    \/ part = "settings" /\ SettingsNext /\ UNCHANGED vars /\ UNCHANGED part

PartsSpec == PartsInit /\ [][PartsNext]_<<part, vars, settingsVars>>
============================================================================
