------------------------------ MODULE MCReplay ------------------------------
(***************************************************************************)
(* Instances of Replay for TLC.                                            *)
(***************************************************************************)
EXTENDS Replay, TLC

Call(tool, input) == [tool |-> tool, input |-> input, valid |-> TRUE]
Response(text, stop, calls) == [text |-> text, stop |-> stop, calls |-> calls]

MCPermissionsOf == [todo |-> "plain", recall |-> "plain", shell |-> "named", mcp |-> "declared"]

\* A plain answer, two tools at once, one tool twice, one the policy knows by
\* name next to one that declares its permission, invalid arguments, a tool
\* nobody registered, a cut answer and one without the calls it announces.
MCResponses == {
  Response("done", "EndTurn", <<>>),
  Response("both", "ToolUse", <<Call("todo", "x"), Call("recall", "x")>>),
  Response("twice", "EndTurn", <<Call("todo", "x"), Call("todo", "y")>>),
  Response("gated", "ToolUse", <<Call("shell", "x"), Call("mcp", "x")>>),
  Response("wrong", "MaxTokens",
           <<[tool |-> "todo", input |-> "bad", valid |-> FALSE], Call("nobody", "x")>>),
  Response("cut", "MaxTokens", <<>>),
  Response("nothing", "ToolUse", <<>>)}

AllowedGate == [policy |-> "tool:auto", decision |-> "allowed", path |-> "auto mode"]
MCGates == {AllowedGate, DenyAllGate}

Request(mode, dir, persist) == [mode |-> mode, dir |-> dir, persist |-> persist]
MCRequests == {Request("default", "project", None), Request("strict", "project", Some("other")),
               Request("default", "elsewhere", None), Request("strict", "project", Some("journal"))}
MCImports == {<<SessionStart("project", OtelConfig), SessionEnd>>}
=============================================================================
