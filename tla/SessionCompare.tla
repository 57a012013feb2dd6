--------------------------- MODULE SessionCompare ---------------------------
(***************************************************************************)
(* How akmon compares two session histories: what `akmon replay` compares  *)
(* of a recorded session and its replay, in its two modes, and what `akmon *)
(* diff` reports of two sessions of a journal.  No state.                  *)
(*                                                                         *)
(* Here an event is a record: its kind and, for every hash it references,  *)
(* the content behind the hash.  Times are left out, as both comparisons   *)
(* do (replay by normalising them), and so are side effects and            *)
(* RetrievalCalls, which no tool of the agent has.  Divergences are kept   *)
(* as a set.                                                               *)
(***************************************************************************)
EXTENDS Integers, Sequences, FiniteSets

None == <<>>
Some(x) == <<x>>
LastOf(s) == s[Len(s)]

SessionStart(cwd, config) == [kind |-> "SessionStart", cwd |-> cwd, config |-> config]
UserTurn(prompt) == [kind |-> "UserTurn", prompt |-> prompt]
ProviderCall(id, attempts, stream) ==
  [kind |-> "ProviderCall", provider |-> id, attempts |-> attempts, stream |-> stream]
Attempt(status, request, response, error) ==
  [status |-> status, request |-> request, response |-> response,
   stream |-> response, error |-> error]
ToolCall(tool, input, output) ==
  [kind |-> "ToolCall", tool |-> tool, input |-> input, output |-> output]
PermissionGate(policy, decision, context) ==
  [kind |-> "PermissionGate", policy |-> policy, decision |-> decision, context |-> context]
AssistantTurn(message, calls) ==
  [kind |-> "AssistantTurn", message |-> message, tool_calls |-> calls]
SessionEnd == [kind |-> "SessionEnd", summary |-> None]

\* A compared field; of a ProviderCall's attempts the last one's response is one.
Field(e, f) ==
  IF f = "final_response" THEN LastOf(e.attempts).response
  ELSE IF f = "attempt_count" THEN Len(e.attempts)
  ELSE e[f]

Differing(fields, a, b) == {f \in DOMAIN fields : Field(a, f) # Field(b, f)}

Shared(a, b) == 1..(IF Len(a) < Len(b) THEN Len(a) ELSE Len(b))

-----------------------------------------------------------------------------
(* Replay.  A divergence names the position, None for the whole history.    *)

Divergence(at, kind) == [at |-> at, kind |-> kind]

\* What each kind is compared by, and the divergence a difference is.
ReplayFields == [
  SessionStart   |-> [cwd |-> "ContentReferenceMismatch"],
  UserTurn       |-> [prompt |-> "ContentReferenceMismatch"],
  ProviderCall   |-> [provider       |-> "ContentReferenceMismatch",
                      final_response |-> "AssistantContentMismatch",
                      stream         |-> "AssistantContentMismatch"],
  ToolCall       |-> [tool   |-> "ContentReferenceMismatch",
                      input  |-> "ContentReferenceMismatch",
                      output |-> "ToolOutputMismatch"],
  PermissionGate |-> [decision |-> "PermissionGateDecisionMismatch",
                      policy   |-> "ContentReferenceMismatch",
                      context  |-> "ContentReferenceMismatch"],
  AssistantTurn  |-> [message    |-> "AssistantContentMismatch",
                      tool_calls |-> "ContentReferenceMismatch"],
  SessionEnd     |-> [summary |-> "ContentReferenceMismatch"]]

compare_event_pair(n, source, replay) ==
  IF source.kind # replay.kind THEN {Divergence(Some(n), "EventKindMismatch")}
  ELSE LET fields == ReplayFields[source.kind]
       IN {Divergence(Some(n), fields[f]) : f \in Differing(fields, source, replay)}

compare_attempt_fields(n, source, replay) ==
  LET fields == [status   |-> "AttemptStatusDivergence",
                 response |-> "AssistantContentMismatch",
                 stream   |-> "AssistantContentMismatch"]
  IN {Divergence(Some(n), fields[f]) : f \in {g \in DOMAIN fields : source[g] # replay[g]}}

compare_event_pair_strict(n, source, replay) ==
  IF {source.kind, replay.kind} # {"ProviderCall"} THEN compare_event_pair(n, source, replay)
  ELSE LET fields == [provider      |-> "ContentReferenceMismatch",
                      attempt_count |-> "AttemptCountDivergence",
                      stream        |-> "AssistantContentMismatch"]
       IN {Divergence(Some(n), fields[f]) : f \in Differing(fields, source, replay)}
          \cup UNION {compare_attempt_fields(n, source.attempts[i], replay.attempts[i]) :
                        i \in Shared(source.attempts, replay.attempts)}

\* What strict mode hashes of an event: all of it but SessionStart's config.
Projection(e) ==
  IF e.kind = "SessionStart" THEN [kind |-> e.kind, cwd |-> e.cwd] ELSE e

\* Events that only one history has, and that the counts differ.
LengthDivergences(source, replay) ==
  {Divergence(Some(n), "MissingReplayEvent") : n \in (Len(replay) + 1)..Len(source)}
  \cup {Divergence(Some(n), "UnexpectedReplayEvent") : n \in (Len(source) + 1)..Len(replay)}
  \cup (IF Len(source) # Len(replay) THEN {Divergence(None, "EventCountMismatch")} ELSE {})

compare_default_mode(source, replay) ==
  (UNION {compare_event_pair(n, source[n], replay[n]) : n \in Shared(source, replay)})
  \cup LengthDivergences(source, replay)

compare_strict_mode(source, replay) ==
  (UNION {compare_event_pair_strict(n, source[n], replay[n]) :
            n \in {m \in Shared(source, replay) : Projection(source[m]) # Projection(replay[m])}})
  \cup LengthDivergences(source, replay)

compare(mode, source, replay) ==
  IF mode = "strict" THEN compare_strict_mode(source, replay)
                     ELSE compare_default_mode(source, replay)

-----------------------------------------------------------------------------
(* Diff.  A difference names the position and the field.                    *)

DiffFields == [
  SessionStart   |-> [cwd |-> "SessionStartCwd", config |-> "ContentReference"],
  UserTurn       |-> [prompt |-> "ContentReference"],
  ProviderCall   |-> [provider       |-> "ContentReference",
                      attempt_count  |-> "ProviderCallAttemptCount",
                      final_response |-> "ProviderCallResponse",
                      stream         |-> "ContentReference"],
  ToolCall       |-> [tool   |-> "ContentReference",
                      input  |-> "ToolCallInput",
                      output |-> "ToolCallOutput"],
  PermissionGate |-> [decision |-> "PermissionGateDecision",
                      policy   |-> "ContentReference",
                      context  |-> "ContentReference"],
  AssistantTurn  |-> [message |-> "ContentReference", tool_calls |-> "ContentReference"],
  SessionEnd     |-> [summary |-> "SessionEnd"]]

AttemptFields == [
  request |-> "ProviderCallRequest",
  status  |-> "ProviderCallAttemptStatus",
  error   |-> "ProviderCallAttemptError"]

Difference(n, field, kind) == [at |-> n, field |-> field, kind |-> kind]

compare_attempt_pair(n, a, b) ==
  {Difference(n, f, AttemptFields[f]) : f \in {g \in DOMAIN AttemptFields : a[g] # b[g]}}

field_differences_at_position(n, a, b) ==
  LET fields == DiffFields[a.kind]
  IN {Difference(n, f, fields[f]) : f \in Differing(fields, a, b)}
     \cup (IF a.kind = "ProviderCall"
           THEN UNION {compare_attempt_pair(n, a.attempts[i], b.attempts[i]) :
                         i \in Shared(a.attempts, b.attempts)}
           ELSE {})

\* Where the comparison stops: at the first position whose kinds differ, or
\* that only one session has.
StructuralBreak(a, b) ==
  LET breaks == {n \in Shared(a, b) : a[n].kind # b[n].kind}
                \cup (IF Len(a) # Len(b) THEN {Cardinality(Shared(a, b)) + 1} ELSE {})
  IN IF breaks = {} THEN None ELSE Some(CHOOSE n \in breaks : \A m \in breaks : n <= m)

run_inner(a, b) ==
  LET break == StructuralBreak(a, b)
      before == {n \in Shared(a, b) : break = None \/ n < break[1]}
  IN [structural_break |-> break,
      differences |-> UNION {field_differences_at_position(n, a[n], b[n]) : n \in before}]

is_informational(d) == d.kind = "ProviderCallRequest"

-----------------------------------------------------------------------------
(* What both tools require of a session before they compare it: it starts   *)
(* with SessionStart, ends with its only SessionEnd, and every object it    *)
(* references is stored (an object that is not has the content Unstored).   *)

Unstored == "unstored"

Contents(e) ==
  IF e.kind = "ToolCall" THEN {e.input, e.output} ELSE {}

validate_source_preconditions(history) ==
  /\ history # <<>> /\ history[1].kind = "SessionStart"
  /\ {n \in DOMAIN history : history[n].kind = "SessionEnd"} = {Len(history)}
  /\ \A n \in DOMAIN history : Unstored \notin Contents(history[n])
=============================================================================
