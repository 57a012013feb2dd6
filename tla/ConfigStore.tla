---------------------------- MODULE ConfigStore ----------------------------
(***************************************************************************)
(* ~/.akmon/config.toml under the commands that change it: akmon config    *)
(* model set, ollama-url set, key set and unset, the wizard, mcp add,      *)
(* remove, enable and disable, reset and edit, and the estimate editor of  *)
(* the terminal UI.  Each is a process that loads the file, changes what   *)
(* it loaded and saves it through config.toml.tmp; there is no lock.       *)
(*                                                                         *)
(* The file system is names for inodes, so that a process may hold open a  *)
(* file that another has renamed.                                          *)
(***************************************************************************)
EXTENDS Naturals, FiniteSets

CONSTANTS
  Procs,
  Settings,      \* keys with one value (default_model, anthropic_api_key, ...)
  Values,
  Servers,       \* names of MCP servers
  Sections,      \* top-level keys that AkmonGlobalConfig does not know
  None,
  Overlap,       \* whether a command may start while another runs
  MaxCommands,   \* bound
  MaxFailures    \* bound: crashes and failing writes

ASSUME StoreAssumption == IsFiniteSet(Procs) /\ Overlap \in BOOLEAN

VARIABLES
  config,    \* the inode named config.toml, 0 when there is none
  tmp,       \* the inode named config.toml.tmp, 0 when there is none
  inodes,    \* what each inode holds
  procs,     \* each process: its command, where it stands, the configuration it
             \* will write, the inode it has open
  expected,  \* history: what the commands that took effect made of the file
  commands, failures

storeVars == <<config, tmp, inodes, procs, expected, commands, failures>>

Configs ==
  [known : [Settings -> Values \cup {None}], servers : [Servers -> {"none", "on", "off"}],
   unknown : SUBSET Sections]
Default ==
  [known |-> [k \in Settings |-> None], servers |-> [s \in Servers |-> "none"],
   unknown |-> {}]

\* An empty file is valid TOML and all defaults; a mixed one has parts of two
\* writes, or of one that was cut short.
Whole(c) == [state |-> "whole", config |-> c]
Empty == [state |-> "empty", config |-> Default]
Mixed == [state |-> "mixed", config |-> Default]
Invalid == [state |-> "invalid", config |-> Default]

Parses(content) == content.state \in {"whole", "empty"}

\* load_config_from: no file is all defaults.
Found == IF config = 0 THEN Empty ELSE inodes[config]

(***************************************************************************)
(* Commands                                                                *)
(***************************************************************************)
Set(k, v) == [op |-> "set", key |-> k, value |-> v]
Mcp(op, s) == [op |-> op, server |-> s]
CommandSet ==
  {Set(k, v) : k \in Settings, v \in Values \cup {None}}
  \cup {Mcp(op, s) : op \in {"add", "remove", "enable", "disable"}, s \in Servers}
  \cup {[op |-> "reset"], [op |-> "edit"]}

Update(cmd, c) ==
  CASE cmd.op = "set" -> [c EXCEPT !.known[cmd.key] = cmd.value]
    [] cmd.op \in {"add", "enable"} -> [c EXCEPT !.servers[cmd.server] = "on"]
    [] cmd.op = "disable" -> [c EXCEPT !.servers[cmd.server] = "off"]
    [] cmd.op = "remove" -> [c EXCEPT !.servers[cmd.server] = "none"]
    [] OTHER -> Default

\* add refuses a name that is taken, the others one that is not.
Accepts(cmd, c) ==
  CASE cmd.op = "add" -> c.servers[cmd.server] = "none"
    [] cmd.op \in {"remove", "enable", "disable"} -> c.servers[cmd.server] # "none"
    [] OTHER -> TRUE

Rest == [at |-> "idle", cmd |-> [op |-> "none"], raw |-> Default, fd |-> 0]

At(p, place) == procs[p].at = place
Goto(p, place) == procs' = [procs EXCEPT ![p].at = place]
Return(p) == procs' = [procs EXCEPT ![p] = Rest]

Begin(p) ==
  /\ At(p, "idle") /\ commands < MaxCommands
  /\ Overlap \/ \A q \in Procs : At(q, "idle")
  /\ commands' = commands + 1
  /\ \E cmd \in CommandSet :
       procs' = [procs EXCEPT ![p] = [Rest EXCEPT !.at = "load", !.cmd = cmd]]
  /\ UNCHANGED <<config, tmp, inodes, expected, failures>>

\* load_user_config and the change.  mcp add now asks the server for its tools and
\* the wizard asks the user, so that long may pass before the save.
Load(p) ==
  LET cmd == procs[p].cmd
      found == Found.config
  IN  /\ At(p, "load") /\ Parses(Found) /\ Accepts(cmd, found)
      /\ procs' = [procs EXCEPT
           ![p].at = CASE cmd.op = "reset" -> "remove"
                       [] cmd.op = "edit" -> "edit"
                       [] OTHER -> "save",
           ![p].raw = [Update(cmd, found) EXCEPT !.unknown = {}]]
      /\ UNCHANGED <<config, tmp, inodes, expected, commands, failures>>

Refuse(p) ==
  /\ At(p, "load") /\ ~(Parses(Found) /\ Accepts(procs[p].cmd, Found.config))
  /\ Return(p)
  /\ UNCHANGED <<config, tmp, inodes, expected, commands, failures>>

\* The first line of save_user_config: the file is loaded again, for its path only.
LoadAgain(p) ==
  /\ At(p, "save")
  /\ IF Parses(Found) THEN Goto(p, "merge") ELSE Return(p)
  /\ UNCHANGED <<config, tmp, inodes, expected, commands, failures>>

\* Reset removes the file, so that nothing unknown is merged back.
Remove(p) ==
  /\ At(p, "remove")
  /\ config' = 0 /\ expected' = Empty
  /\ Goto(p, "merge")
  /\ UNCHANGED <<tmp, inodes, commands, failures>>

\* Mutant of unknown_top_level_entries: nothing is merged back.
NoEntries == {}

unknown_top_level_entries == IF Parses(Found) THEN Found.config.unknown ELSE {}

Merge(p) ==
  /\ At(p, "merge")
  /\ procs' = [procs EXCEPT ![p].at = "open", ![p].raw.unknown = unknown_top_level_entries]
  /\ UNCHANGED <<config, tmp, inodes, expected, commands, failures>>

\* write_private_file opens with create and truncate.
Free == CHOOSE i \in DOMAIN inodes :
          i \notin {config, tmp} \cup {procs[p].fd : p \in Procs}
Open(p) ==
  LET i == IF tmp = 0 THEN Free ELSE tmp
  IN  /\ At(p, "open")
      /\ tmp' = i
      /\ inodes' = [inodes EXCEPT ![i] = Empty]
      /\ procs' = [procs EXCEPT ![p].at = "write", ![p].fd = i]
      /\ UNCHANGED <<config, expected, commands, failures>>

\* From the start of the file, over what another process may have written since
\* it was truncated: a longer text keeps its end.
Write(p) ==
  LET i == procs[p].fd
      text == Whole(procs[p].raw)
  IN  /\ At(p, "write")
      /\ \E content \in {text} \cup (IF inodes[i].state = "empty" THEN {} ELSE {Mixed}) :
           inodes' = [inodes EXCEPT ![i] = content]
      /\ Goto(p, "rename")
      /\ UNCHANGED <<config, tmp, expected, commands, failures>>

\* The name is gone when another process has renamed the file.
RenameTmp(p) ==
  /\ At(p, "rename")
  /\ IF tmp = 0 THEN UNCHANGED <<config, tmp, expected>>
     ELSE /\ config' = tmp /\ tmp' = 0
          /\ expected' = Whole(IF procs[p].cmd.op = "reset" THEN Default
                               ELSE Update(procs[p].cmd, expected.config))
  /\ Return(p)
  /\ UNCHANGED <<inodes, commands, failures>>

\* The user's editor puts any text there, also one that the check after it refuses.
Edit(p) ==
  /\ At(p, "edit")
  /\ \E content \in {Invalid}
           \cup {Whole([Found.config EXCEPT !.unknown = S]) : S \in SUBSET Sections} :
       LET i == Free
       IN  /\ config' = i
           /\ inodes' = [inodes EXCEPT ![i] = content]
           /\ expected' = content
  /\ Return(p)
  /\ UNCHANGED <<tmp, commands, failures>>

\* The process is killed, or a step of it fails; a write may have been begun.
Fail(p) ==
  /\ ~At(p, "idle") /\ failures < MaxFailures
  /\ failures' = failures + 1
  /\ Return(p)
  /\ inodes' \in IF At(p, "write") THEN {inodes, [inodes EXCEPT ![procs[p].fd] = Mixed]}
                 ELSE {inodes}
  /\ UNCHANGED <<config, tmp, expected, commands>>

StoreInit ==
  /\ config \in {0, 1} /\ tmp = 0
  /\ expected = IF config = 0 THEN Empty
                ELSE Whole([Default EXCEPT !.unknown = Sections])
  /\ inodes = [i \in 1..(Cardinality(Procs) + 3) |-> IF i = config THEN expected ELSE Empty]
  /\ procs = [p \in Procs |-> Rest]
  /\ commands = 0 /\ failures = 0

Step(p) ==
  \/ Begin(p) \/ Load(p) \/ Refuse(p) \/ LoadAgain(p) \/ Remove(p) \/ Merge(p)
  \/ Open(p) \/ Write(p) \/ RenameTmp(p) \/ Edit(p) \/ Fail(p)

StoreNext == \E p \in Procs : Step(p)

StoreSpec == StoreInit /\ [][StoreNext]_storeVars

(***************************************************************************)
(* Properties                                                              *)
(***************************************************************************)

\* Commands that run one after the other lose nothing: whatever was killed or
\* failed in between, a loader finds each setting, server and unknown section as
\* the commands that took effect left it, and never a part of a file.
ConfigKept ==
  Parses(expected) => Parses(Found) /\ Found.config = expected.config

\* save_config_to "Writes config atomically": config.toml is never seen empty or
\* half-written, unless the user wrote it so.
SavesAreAtomic ==
  config # 0 => inodes[config].state \in {"whole", "invalid"}
=============================================================================
