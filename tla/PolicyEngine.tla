---------------------------- MODULE PolicyEngine ----------------------------
(***************************************************************************)
(* The policy engine: the verdict on one permission of one tool call.      *)
(* A rule list is the set of subjects that its patterns match, so glob and *)
(* prefix matching and the choice of the most specific rule, which only    *)
(* words the reason, are abstracted.  No state.                            *)
(***************************************************************************)

NoRules == [allow |-> {}, deny |-> {}]

\* Deny wins, and what no rule names is denied.
evaluate_matches(rules, subject) ==
  IF subject \in rules.allow \ rules.deny THEN "allow" ELSE "deny"

\* A permission has a kind, which selects the rules, a subject (path, command
\* or domain) and, for a command, the prefix that the prompt offers.
evaluate_permission(cfg, perm) ==
  evaluate_matches(
    CASE perm.kind \in {"ReadFile", "ListDirectory"} -> cfg.read
      [] perm.kind = "WriteFile"      -> cfg.write
      [] perm.kind = "ExecuteCommand" -> cfg.shell
      [] perm.kind = "NetworkFetch"   -> cfg.network,
    perm.subject)

has_tool_rules(cfg) == cfg.tools # NoRules

\* Tool rules, when there are any, are asked before the permission's own.
ToolVerdict(cfg, tool) ==
  IF has_tool_rules(cfg) THEN evaluate_matches(cfg.tools, tool) ELSE "allow"

\* "ask" is Err(InteractiveRequiresCaller): the caller must ask the user.
evaluate_automatic_for_tool(mode, tool, perm) ==
  CASE mode.name = "DenyAll"     -> "deny"
    [] mode.name = "Interactive" -> "ask"
    [] mode.name = "Configured"  ->
         IF ToolVerdict(mode.cfg, tool) = "deny" THEN "deny"
         ELSE evaluate_permission(mode.cfg, perm)
    [] OTHER ->
         CASE perm.kind \in {"ReadFile", "ListDirectory"} -> "allow"
           [] perm.kind = "NetworkFetch" ->
                IF mode.name = "AutoApproveReadsAndFetch" THEN "allow" ELSE "deny"
           [] perm.kind = "WriteFile" -> IF mode.confirm_writes THEN "ask" ELSE "deny"
           [] perm.kind = "ExecuteCommand" -> "ask"

\* MCP calls need Configured mode and explicit rules for server and tool.
evaluate_mcp_automatic(mode, tool, context) ==
  IF /\ mode.name = "Configured"
     /\ mode.cfg.mcp_servers # NoRules \/ mode.cfg.mcp_tools # NoRules
     /\ ToolVerdict(mode.cfg, tool) = "allow"
     /\ evaluate_matches(mode.cfg.mcp_servers, context.server) = "allow"
     /\ evaluate_matches(mode.cfg.mcp_tools, context.tool) = "allow"
  THEN "allow" ELSE "deny"
=============================================================================
