--------------------------- MODULE MCAgentSession ---------------------------
(***************************************************************************)
(* Instances of AgentSession: the tools, the messages a model may send and *)
(* the policies.  Bounds: two turns, two iterations, one continuation, one *)
(* summarization round, a repeat limit of 2 and a write limit of 1.        *)
(***************************************************************************)
EXTENDS AgentSession

Perm1(kind, subject) == [kind |-> kind, subject |-> subject, prefix |-> "none"]
Shell(command, prefix) == [kind |-> "ExecuteCommand", subject |-> command, prefix |-> prefix]

PlainTool(perms) == [perms |-> perms, mcp |-> <<>>, asks |-> FALSE]

\* patch needs two permissions; the two commands have a prefix in common.
MCTools ==
  [read_file |-> PlainTool(<<Perm1("ReadFile", "a")>>),
   write_file |-> PlainTool(<<Perm1("WriteFile", "a")>>),
   patch |-> PlainTool(<<Perm1("WriteFile", "a"), Perm1("WriteFile", "b")>>),
   shell |-> PlainTool(<<Shell("git status", "git")>>),
   shell_push |-> PlainTool(<<Shell("git push", "git")>>),
   web_fetch |-> PlainTool(<<Perm1("NetworkFetch", "d")>>),
   ask_followup |-> [perms |-> <<>>, mcp |-> <<>>, asks |-> TRUE],
   mcp_issue |-> [perms |-> <<>>, mcp |-> <<[server |-> "s", tool |-> "issue"]>>, asks |-> FALSE],
   mcp_tool |-> PlainTool(<<>>)]

C(tool) == [tool |-> tool, valid |-> TRUE]

InteractiveModes ==
  {[name |-> "Interactive"],
   [name |-> "AutoApproveReads", confirm_writes |-> TRUE],
   [name |-> "AutoApproveReadsAndFetch", confirm_writes |-> FALSE]}

\* A command before a patch, which needs two permissions; a command with the same
\* prefix and a write that may have been approved by then.
ConfirmMessages == {<<C("shell"), C("patch")>>, <<C("shell_push"), C("write_file")>>}

AttendedModes == {[name |-> "AutoApproveReads", confirm_writes |-> TRUE]}

\* Too many writes and an unknown tool; repeated reads; a question among reads.
LoopMessages ==
  {<<C("write_file"), C("write_file"), C("no_such_tool")>>,
   <<C("read_file"), C("read_file")>>,
   <<C("ask_followup"), C("read_file")>>}

Rules(allow, deny) == [allow |-> allow, deny |-> deny]

Config(tools, servers) ==
  [read |-> Rules({"a"}, {}), write |-> Rules({"a", "b"}, {"b"}), shell |-> NoRules,
   network |-> Rules({"d"}, {}), tools |-> tools,
   mcp_servers |-> servers, mcp_tools |-> Rules({"issue"}, {})]

AutomaticModes ==
  {[name |-> "DenyAll"],
   [name |-> "Configured", cfg |-> Config(NoRules, NoRules)],
   [name |-> "Configured", cfg |-> Config(NoRules, Rules({"s"}, {}))],
   [name |-> "Configured", cfg |-> Config(Rules({"read_file", "mcp_issue"}, {"mcp_issue"}),
                                          Rules({"s"}, {}))]}

AutomaticMessages ==
  {<<C("mcp_issue"), C("mcp_tool")>>, <<C("web_fetch"), C("patch")>>,
   <<C("read_file"), C("write_file"), C("shell")>>, <<[tool |-> "read_file", valid |-> FALSE]>>}

AllModes == InteractiveModes \cup AutomaticModes

GateMessages == ConfirmMessages \cup AutomaticMessages
=============================================================================
