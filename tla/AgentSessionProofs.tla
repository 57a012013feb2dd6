------------------------- MODULE AgentSessionProofs -------------------------
(***************************************************************************)
(* Machine-checked proofs about AgentSession: whatever the tools, the      *)
(* policy modes, the messages of the model and the replies of the user, a  *)
(* tool runs only when each of its permissions was allowed, and never      *)
(* against the policy; run stays in step with its state machine; and every *)
(* message of the model is journaled.                                      *)
(***************************************************************************)
EXTENDS AgentSession, TLAPS

(***************************************************************************)
(* The inductive invariant.                                                *)
(***************************************************************************)
BatchFields == {"calls", "at", "perm", "writes", "approved", "slots", "outputs", "gates"}

BatchShape ==
  /\ DOMAIN batch = BatchFields
  /\ batch.at \in Nat \ {0} /\ batch.perm \in Nat \ {0}
  /\ batch.approved \in Seq(Nat)
  /\ \A g \in batch.gates : g.call \in Nat

PermsOf(i) == Tools[batch.calls[i].tool].perms
McpOf(i) == Tools[batch.calls[i].tool].mcp
ApprovedCalls == {batch.approved[k] : k \in DOMAIN batch.approved}
AllowGate(i, k) == [call |-> i, perm |-> k, verdict |-> "allow"]

\* The first n permissions of call i were allowed, and nothing about it denied.
AllowedUpTo(i, n) ==
  /\ \A k \in DOMAIN PermsOf(i) : k <= n => AllowGate(i, k) \in batch.gates
  /\ \A g \in batch.gates : g.call = i => g.verdict = "allow"

\* The policy refuses neither the first n permissions of call i nor its server.
AdmittedUpTo(i, n) ==
  /\ \A k \in DOMAIN PermsOf(i) : k <= n =>
       evaluate_automatic_for_tool(mode, batch.calls[i].tool, PermsOf(i)[k]) # "deny"
  /\ \A k \in DOMAIN McpOf(i) :
       evaluate_mcp_automatic(mode, batch.calls[i].tool, McpOf(i)[k]) = "allow"

Cleared(i) ==
  /\ batch.calls[i].tool \in DOMAIN Tools
  /\ AllowedUpTo(i, Len(PermsOf(i))) /\ AdmittedUpTo(i, Len(PermsOf(i)))

\* Calls are judged in order; the approved ones are cleared for good.
Judged ==
  pc \in {"gate", "perm", "confirm", "launch", "execute"} =>
    /\ \A i \in ApprovedCalls : i < batch.at /\ Cleared(i)
    /\ \A g \in batch.gates : g.call <= batch.at
    /\ pc \in {"gate", "launch"} => \A g \in batch.gates : g.call < batch.at

\* The call under consideration is cleared as far as its permissions go.
Judging ==
  /\ pc \in {"perm", "confirm"} =>
       /\ batch.calls[batch.at].tool \in DOMAIN Tools
       /\ AllowedUpTo(batch.at, batch.perm - 1) /\ AdmittedUpTo(batch.at, batch.perm - 1)
  /\ pc = "confirm" =>
       /\ batch.perm \in DOMAIN PermsOf(batch.at)
       /\ evaluate_automatic_for_tool(mode, batch.calls[batch.at].tool,
                                      PermsOf(batch.at)[batch.perm]) = "ask"

\* A new batch is judged from its first call on, and runs what was approved,
\* after the events that bring the state machine to ToolExecution.
Stages ==
  /\ pc = "done" => batch = NewBatch(batch.calls)
  /\ pc = "launch" => /\ todo \in Seq({AgentEvent("ToolCallDispatched")})
                      /\ todo = <<>> => state = "ToolExecution"
  /\ pc = "execute" => /\ todo = <<>> /\ state = "ToolExecution"
                       /\ running \subseteq ApprovedCalls
  /\ running # {} => pc = "execute"

\* What the session remembers, the policy had left to the user.
RememberedAdmissible ==
  /\ DOMAIN remembered = {"allowlist", "prefixes", "all_writes"}
  /\ \A t \in DOMAIN Tools : \A k \in DOMAIN Tools[t].perms :
       Remembered(Tools[t].perms[k])
         => evaluate_automatic_for_tool(mode, t, Tools[t].perms[k]) # "deny"

Inv == BatchShape /\ Judged /\ Judging /\ Stages /\ RememberedAdmissible

(***************************************************************************)
(* Facts about the policy.                                                 *)
(***************************************************************************)
\* A permission that the policy leaves to the user is not refused to any other
\* tool, and what the user allows with it, all writes or a command prefix, the
\* policy would not refuse either.
LEMMA AskedIsAdmissible ==
  ASSUME NEW m, NEW tool, NEW p, evaluate_automatic_for_tool(m, tool, p) = "ask"
  PROVE  \A t, q : \/ q = p
                   \/ p.kind = "WriteFile" /\ q.kind = "WriteFile"
                   \/ q.kind = "ExecuteCommand"
           => evaluate_automatic_for_tool(m, t, q) # "deny"
<1>1. m.name # "DenyAll"
  BY DEF evaluate_automatic_for_tool
<1>2. m.name # "Configured"
  BY DEF evaluate_automatic_for_tool, evaluate_permission, evaluate_matches
<1>3. CASE m.name = "Interactive"
  BY <1>3 DEF evaluate_automatic_for_tool
<1>4. CASE m.name # "Interactive"
  <2> SUFFICES ASSUME NEW t, NEW q,
                      \/ q = p
                      \/ p.kind = "WriteFile" /\ q.kind = "WriteFile"
                      \/ q.kind = "ExecuteCommand"
               PROVE  evaluate_automatic_for_tool(m, t, q) # "deny"
    OBVIOUS
  <2>1. CASE q = p
    BY <1>1, <1>2, <1>4, <2>1 DEF evaluate_automatic_for_tool
  <2>2. CASE p.kind = "WriteFile" /\ q.kind = "WriteFile"
    BY <1>1, <1>2, <1>4, <2>2 DEF evaluate_automatic_for_tool
  <2>3. CASE q.kind = "ExecuteCommand"
    BY <1>1, <1>2, <1>4, <2>3 DEF evaluate_automatic_for_tool
  <2> QED BY <2>1, <2>2, <2>3
<1> QED BY <1>3, <1>4

(***************************************************************************)
(* Facts about batches.                                                    *)
(***************************************************************************)
LEMMA NewBatchShape ==
  ASSUME NEW calls
  PROVE  LET b == NewBatch(calls)
         IN /\ DOMAIN b = BatchFields /\ b.calls = calls
            /\ b.at = 1 /\ b.perm = 1 /\ b.approved = <<>> /\ b.gates = {}
BY DEF NewBatch, BatchFields

\* A new batch satisfies what is claimed of batches.
LEMMA NewShape ==
  ASSUME NEW calls, batch' = NewBatch(calls)
  PROVE  BatchShape'
<1>1. 1 \in Nat \ {0} /\ <<>> \in Seq(Nat)
  OBVIOUS
<1> QED BY <1>1, NewBatchShape DEF BatchShape

\* Outside the judging and the running of calls nothing is claimed of a batch.
LEMMA Elsewhere ==
  ASSUME BatchShape', RememberedAdmissible', running' = {},
         pc' \notin {"done", "gate", "perm", "confirm", "launch", "execute"}
  PROVE  Inv'
BY DEF Inv, Judged, Judging, Stages

LEMMA RememberedFrame ==
  ASSUME RememberedAdmissible, remembered' = remembered, mode' = mode
  PROVE  RememberedAdmissible'
BY DEF RememberedAdmissible, Remembered

\* The batch is untouched.
LEMMA SameShape == BatchShape /\ batch' = batch => BatchShape'
BY DEF BatchShape

\* While the batch and the mode stay, a call that is cleared stays cleared.
LEMMA ClearedFrame ==
  ASSUME batch' = batch, mode' = mode
  PROVE  /\ ApprovedCalls' = ApprovedCalls
         /\ \A i, n : AllowedUpTo(i, n) => AllowedUpTo(i, n)'
         /\ \A i, n : AdmittedUpTo(i, n) => AdmittedUpTo(i, n)'
         /\ \A i : Cleared(i) => Cleared(i)'
<1>1. ApprovedCalls' = ApprovedCalls
  BY DEF ApprovedCalls
<1>2. \A i, n : AllowedUpTo(i, n) => AllowedUpTo(i, n)'
  BY DEF AllowedUpTo, PermsOf
<1>3. \A i, n : AdmittedUpTo(i, n) => AdmittedUpTo(i, n)'
  BY DEF AdmittedUpTo, PermsOf, McpOf
<1>4. \A i : Cleared(i) => Cleared(i)'
  BY DEF Cleared, AllowedUpTo, AdmittedUpTo, PermsOf, McpOf
<1> QED BY <1>1, <1>2, <1>3, <1>4

LEMMA JudgedFrame ==
  ASSUME Judged, batch' = batch, mode' = mode,
         pc \in {"gate", "perm", "confirm", "launch", "execute"},
         pc' \in {"gate", "launch"} => pc \in {"gate", "launch"}
  PROVE  Judged'
BY ClearedFrame DEF Judged

LEMMA JudgingFrame ==
  ASSUME Judging, batch' = batch, mode' = mode, pc' = pc
  PROVE  Judging'
<1>1. CASE pc \in {"perm", "confirm"}
  <2>1. \A i, n : i = batch.at /\ n = batch.perm - 1
                   => AllowedUpTo(i, n)' /\ AdmittedUpTo(i, n)'
    BY <1>1, ClearedFrame DEF Judging
  <2>2. \A i : PermsOf(i)' = PermsOf(i)
    BY DEF PermsOf
  <2> QED BY <1>1, <2>1, <2>2 DEF Judging
<1>2. CASE pc \notin {"perm", "confirm"}
  BY <1>2 DEF Judging
<1> QED BY <1>1, <1>2

\* Nothing changes that the invariant is about.
LEMMA Frame ==
  ASSUME Inv, pc' = pc, todo' = todo, batch' = batch, running' = running,
         state' = state, mode' = mode, remembered' = remembered
  PROVE  Inv'
<1>1. BatchShape' /\ RememberedAdmissible'
  BY SameShape, RememberedFrame DEF Inv
<1>2. Judged'
  <2>1. CASE pc \in {"gate", "perm", "confirm", "launch", "execute"}
    BY <2>1, JudgedFrame DEF Inv
  <2>2. CASE pc \notin {"gate", "perm", "confirm", "launch", "execute"}
    BY <2>2 DEF Judged
  <2> QED BY <2>1, <2>2
<1>3. Judging'
  BY JudgingFrame DEF Inv
<1>4. Stages'
  BY ClearedFrame DEF Inv, Stages
<1> QED BY <1>1, <1>2, <1>3, <1>4 DEF Inv

\* A step of run that neither judges nor runs calls.
LEMMA Aside ==
  ASSUME Inv, pc # "execute", running' = running, BatchShape',
         remembered' = remembered, mode' = mode,
         pc' \notin {"done", "gate", "perm", "confirm", "launch", "execute"}
  PROVE  Inv'
BY Elsewhere, RememberedFrame DEF Inv, Stages

\* The call under consideration is rejected: the approved ones stay cleared,
\* for a denial is about this call.
LEMMA Rejects ==
  ASSUME Inv, pc \in {"gate", "perm", "confirm"}, pc' = "gate",
         DOMAIN batch' = BatchFields, batch'.calls = batch.calls,
         batch'.approved = batch.approved, batch'.at = batch.at + 1,
         batch'.perm \in Nat \ {0}, batch.gates \subseteq batch'.gates,
         \A g \in batch'.gates \ batch.gates : g.call = batch.at,
         running' = running, mode' = mode, remembered' = remembered
  PROVE  Inv'
<1>1. /\ batch.at \in Nat \ {0} /\ batch.approved \in Seq(Nat)
      /\ \A g \in batch.gates : g.call \in Nat
      /\ Judged
  BY DEF Inv, BatchShape
<1>2. \A g \in batch'.gates : g.call \in Nat /\ g.call <= batch.at
  <2> SUFFICES ASSUME NEW g \in batch'.gates PROVE g.call \in Nat /\ g.call <= batch.at
    OBVIOUS
  <2>1. CASE g \in batch.gates
    BY <1>1, <2>1 DEF Judged
  <2>2. CASE g \notin batch.gates
    BY <1>1, <2>2
  <2> QED BY <2>1, <2>2
<1>3. BatchShape'
  BY <1>1, <1>2 DEF BatchShape
<1>4. ApprovedCalls' = ApprovedCalls /\ ApprovedCalls \subseteq Nat
  BY <1>1 DEF ApprovedCalls
<1>5. ASSUME NEW i \in ApprovedCalls
      PROVE  i < batch.at + 1 /\ Cleared(i)'
  <2>1. i \in Nat /\ i < batch.at /\ Cleared(i)
    BY <1>1, <1>4 DEF Judged
  <2>2. \A g \in batch'.gates : g.call = i => g \in batch.gates
    BY <1>1, <2>1
  <2>3. Cleared(i)'
    BY <2>1, <2>2 DEF Cleared, AllowedUpTo, AdmittedUpTo, PermsOf, McpOf
  <2> QED BY <1>1, <2>1, <2>3
<1>6. \A g \in batch'.gates : g.call <= batch'.at /\ g.call < batch'.at
  BY <1>1, <1>2
<1>7. Judged'
  BY <1>4, <1>5, <1>6 DEF Judged
<1>8. Judging'
  BY DEF Judging
<1>9. Stages'
  BY DEF Inv, Stages
<1> QED BY <1>3, <1>7, <1>8, <1>9, RememberedFrame DEF Inv

\* A call is taken up: nothing about it has been said before.
LEMMA Opens ==
  ASSUME Inv, pc = "gate", pc' = "perm", batch.calls[batch.at].tool \in DOMAIN Tools,
         \A k \in DOMAIN McpOf(batch.at) :
           evaluate_mcp_automatic(mode, batch.calls[batch.at].tool, McpOf(batch.at)[k]) = "allow",
         DOMAIN batch' = BatchFields, batch'.calls = batch.calls,
         batch'.approved = batch.approved, batch'.at = batch.at,
         batch'.perm = 1, batch'.gates = batch.gates,
         running' = running, mode' = mode, remembered' = remembered
  PROVE  Inv'
<1>1. BatchShape /\ BatchShape' /\ ApprovedCalls' = ApprovedCalls
  BY DEF Inv, BatchShape, ApprovedCalls
<1>2. \A i : Cleared(i) => Cleared(i)'
  BY DEF Cleared, AllowedUpTo, AdmittedUpTo, PermsOf, McpOf
<1>3. Judged'
  BY <1>1, <1>2 DEF Inv, Judged
<1>4. AllowedUpTo(batch.at, 0) /\ AdmittedUpTo(batch.at, 0)
  <2>1. \A k \in DOMAIN PermsOf(batch.at) : ~(k <= 0)
    BY ToolsAssumption DEF PermsOf
  <2>2. \A g \in batch.gates : g.call # batch.at
    BY <1>1 DEF Inv, Judged, BatchShape
  <2> QED BY <2>1, <2>2 DEF AllowedUpTo, AdmittedUpTo
<1>5. Judging'
  <2>1. batch'.perm - 1 = 0
    OBVIOUS
  <2>2. AllowedUpTo(batch.at, 0)' /\ AdmittedUpTo(batch.at, 0)'
    BY <1>4 DEF AllowedUpTo, AdmittedUpTo, PermsOf, McpOf, AllowGate
  <2> QED BY <2>1, <2>2 DEF Judging
<1>6. Stages'
  BY DEF Inv, Stages
<1> QED BY <1>1, <1>3, <1>5, <1>6, RememberedFrame DEF Inv

LEMMA UpTo ==
  ASSUME NEW i, NEW n, batch'.calls = batch.calls, mode' = mode
  PROVE  /\ /\ \A k \in DOMAIN PermsOf(i) : k <= n => AllowGate(i, k) \in batch'.gates
            /\ \A g \in batch'.gates : g.call = i => g.verdict = "allow"
            => AllowedUpTo(i, n)'
         /\ AdmittedUpTo(i, n) => AdmittedUpTo(i, n)'
BY DEF AllowedUpTo, AdmittedUpTo, PermsOf, McpOf, AllowGate

\* One more permission of the call under consideration is allowed.
LEMMA Admits ==
  ASSUME Inv, pc \in {"perm", "confirm"}, pc' = "perm",
         NEW a, NEW p, a = batch.at, p = batch.perm,
         p \in DOMAIN PermsOf(a),
         evaluate_automatic_for_tool(mode, batch.calls[a].tool, PermsOf(a)[p]) # "deny",
         DOMAIN batch' = BatchFields, batch'.calls = batch.calls,
         batch'.approved = batch.approved, batch'.at = a, batch'.perm = p + 1,
         batch'.gates = batch.gates \cup {AllowGate(a, p)},
         running' = running, mode' = mode, RememberedAdmissible'
  PROVE  Inv'
<1>1. /\ BatchShape /\ a \in Nat \ {0} /\ p \in Nat \ {0} /\ Judged /\ Judging
      /\ \A g \in batch.gates : g.call \in Nat
      /\ batch.approved \in Seq(Nat)
  BY DEF Inv, BatchShape
<1>2. BatchShape' /\ ApprovedCalls' = ApprovedCalls /\ ApprovedCalls \subseteq Nat
  BY <1>1 DEF BatchShape, ApprovedCalls, AllowGate
<1>3. ASSUME NEW i \in ApprovedCalls
      PROVE  i < a /\ Cleared(i)'
  <2>1. i < a /\ Cleared(i) /\ i \in Nat
    BY <1>1, <1>2 DEF Judged
  <2>2. i # a
    BY <1>1, <2>1
  <2>3. \A g \in batch'.gates : g.call = i => g \in batch.gates
    BY <2>2 DEF AllowGate
  <2> QED BY <2>1, <2>3 DEF Cleared, AllowedUpTo, AdmittedUpTo, PermsOf, McpOf
<1>4. \A g \in batch'.gates : g.call <= a
  <2> SUFFICES ASSUME NEW g \in batch'.gates PROVE g.call <= a
    OBVIOUS
  <2>1. CASE g \in batch.gates
    BY <1>1, <2>1 DEF Judged
  <2>2. CASE g = AllowGate(a, p)
    BY <1>1, <2>2 DEF AllowGate
  <2> QED BY <2>1, <2>2
<1>5. Judged'
  BY <1>2, <1>3, <1>4 DEF Judged
<1>6. /\ batch.calls[a].tool \in DOMAIN Tools
      /\ AllowedUpTo(a, p - 1) /\ AdmittedUpTo(a, p - 1)
  BY <1>1 DEF Judging
<1>7. ASSUME NEW k \in DOMAIN PermsOf(a), k <= p
      PROVE  k <= p - 1 \/ k = p
  <2>1. k \in Nat
    BY <1>6, ToolsAssumption DEF PermsOf
  <2> QED BY <1>1, <1>7, <2>1
<1>8. \A k \in DOMAIN PermsOf(a) : k <= p => AllowGate(a, k) \in batch'.gates
  BY <1>6, <1>7 DEF AllowedUpTo
<1>9. \A g \in batch'.gates : g.call = a => g.verdict = "allow"
  BY <1>6 DEF AllowedUpTo, AllowGate
<1>10. AllowedUpTo(a, p)'
  BY <1>8, <1>9, UpTo
<1>11. AdmittedUpTo(a, p)
  BY <1>6, <1>7 DEF AdmittedUpTo
<1>12. AdmittedUpTo(a, p)'
  BY <1>11, UpTo
<1>13. \A n : n = batch'.perm - 1 => n = p
  BY <1>1
<1>14. Judging'
  <2>1. batch'.calls[batch'.at].tool \in DOMAIN Tools
    BY <1>6
  <2>2. \A i, n : i = batch'.at /\ n = batch'.perm - 1 => AllowedUpTo(i, n)' /\ AdmittedUpTo(i, n)'
    BY <1>10, <1>12, <1>13
  <2> QED BY <2>1, <2>2 DEF Judging
<1>15. Stages'
  BY DEF Inv, Stages
<1> QED BY <1>2, <1>5, <1>14, <1>15 DEF Inv

\* The call under consideration has all its permissions.
LEMMA Approves ==
  ASSUME Inv, pc = "perm", pc' = "gate", NEW a, NEW p, a = batch.at, p = batch.perm,
         p > Len(PermsOf(a)),
         DOMAIN batch' = BatchFields, batch'.calls = batch.calls,
         batch'.approved = Append(batch.approved, a),
         batch'.at = a + 1, batch'.perm = p, batch'.gates = batch.gates,
         running' = running, mode' = mode, remembered' = remembered
  PROVE  Inv'
<1>1. /\ BatchShape /\ a \in Nat \ {0} /\ p \in Nat \ {0}
      /\ batch.approved \in Seq(Nat) /\ Judged /\ Judging
      /\ \A g \in batch.gates : g.call \in Nat
  BY DEF Inv, BatchShape
<1>2. ApprovedCalls' = ApprovedCalls \cup {a} /\ ApprovedCalls \subseteq Nat
  <2> DEFINE s == batch.approved
             R(t) == {t[k] : k \in DOMAIN t}
  <2>1. s \in Seq(Nat) /\ a \in Nat
    BY <1>1
  <2> HIDE DEF s
  <2>2. R(Append(s, a)) = R(s) \cup {a} /\ R(s) \subseteq Nat
    <3>1. /\ Append(s, a) \in Seq(Nat) /\ Len(Append(s, a)) = Len(s) + 1
          /\ \A k \in 1..Len(s) : Append(s, a)[k] = s[k]
          /\ Append(s, a)[Len(s) + 1] = a
      BY <2>1
    <3>2. DOMAIN s = 1..Len(s) /\ DOMAIN Append(s, a) = 1..(Len(s) + 1) /\ Len(s) \in Nat
      BY <2>1
    <3>3. \A k : k \in 1..(Len(s) + 1) <=> k \in 1..Len(s) \/ k = Len(s) + 1
      BY <3>2
    <3> QED BY <2>1, <3>1, <3>2, <3>3
  <2> QED BY <2>2 DEF ApprovedCalls, s
<1>3. BatchShape'
  BY <1>1 DEF BatchShape
<1>4. Cleared(a)
  <2>1. /\ batch.calls[a].tool \in DOMAIN Tools
        /\ AllowedUpTo(a, p - 1) /\ AdmittedUpTo(a, p - 1)
    BY <1>1 DEF Judging
  <2>2. Len(PermsOf(a)) \in Nat /\ DOMAIN PermsOf(a) = 1..Len(PermsOf(a))
    BY <2>1, ToolsAssumption DEF PermsOf
  <2>3. \A k \in DOMAIN PermsOf(a) : k <= p - 1
    BY <1>1, <2>2
  <2> QED BY <2>1, <2>3 DEF Cleared, AllowedUpTo, AdmittedUpTo
<1>5. \A i : Cleared(i) => Cleared(i)'
  BY DEF Cleared, AllowedUpTo, AdmittedUpTo, PermsOf, McpOf
<1>6. ASSUME NEW i \in ApprovedCalls \cup {a}
      PROVE  i < a + 1 /\ Cleared(i)'
  <2>1. CASE i = a
    BY <1>1, <1>4, <1>5, <2>1
  <2>2. CASE i \in ApprovedCalls
    <3>1. i < a /\ Cleared(i) /\ i \in Nat
      BY <1>1, <1>2, <2>2 DEF Judged
    <3> QED BY <1>1, <1>5, <3>1
  <2> QED BY <2>1, <2>2
<1>7. ASSUME NEW g \in batch.gates
      PROVE  g.call < a + 1 /\ g.call <= a + 1
  <2>1. g.call \in Nat /\ g.call <= a
    BY <1>1 DEF Judged
  <2> QED BY <1>1, <2>1
<1>8. Judged'
  BY <1>2, <1>6, <1>7 DEF Judged
<1>9. Judging' /\ Stages'
  BY DEF Inv, Judging, Stages
<1> QED BY <1>3, <1>8, <1>9, RememberedFrame DEF Inv

(***************************************************************************)
(* Every step preserves the invariant.                                     *)
(***************************************************************************)
\* An event is applied: the labels of run stay, or run returns.
LEMMA ApplyEventInv == Inv /\ apply_event => Inv'
<1> SUFFICES ASSUME Inv, apply_event PROVE Inv'
  OBVIOUS
<1>1. /\ batch' = batch /\ running' = running /\ mode' = mode /\ remembered' = remembered
      /\ todo # <<>>
  BY DEF apply_event
<1>2. BatchShape' /\ RememberedAdmissible'
  BY <1>1, SameShape, RememberedFrame DEF Inv
<1>3. CASE pc' = "idle"
  BY <1>1, <1>2, <1>3, Aside DEF Inv, Stages
<1>4. CASE pc' = pc /\ todo' = Tail(todo)
             /\ state' = next_state_after(state, Head(todo), remaining, resume)
  <2>1. Judged' /\ Judging'
    <3>1. Judging'
      BY <1>1, <1>4, JudgingFrame DEF Inv
    <3>2. CASE pc \in {"gate", "perm", "confirm", "launch", "execute"}
      BY <1>1, <1>4, <3>1, <3>2, JudgedFrame DEF Inv
    <3>3. CASE pc \notin {"gate", "perm", "confirm", "launch", "execute"}
      BY <1>4, <3>1, <3>3 DEF Judged
    <3> QED BY <3>2, <3>3
  <2>2. ASSUME pc = "launch"
        PROVE  /\ todo' \in Seq({AgentEvent("ToolCallDispatched")})
               /\ todo' = <<>> => state' = "ToolExecution"
    <3>1. todo \in Seq({AgentEvent("ToolCallDispatched")})
      BY <2>2 DEF Inv, Stages
    <3>2. Head(todo) = AgentEvent("ToolCallDispatched")
      BY <1>1, <3>1
    <3>3. state' = "ToolExecution"
      BY <1>4, <3>2 DEF next_state_after, AgentEvent
    <3> QED BY <1>1, <1>4, <3>1, <3>3
  <2>3. Stages'
    BY <1>1, <1>4, <2>2 DEF Inv, Stages
  <2> QED BY <1>2, <2>1, <2>3 DEF Inv
<1> QED BY <1>3, <1>4 DEF apply_event, Return

\* A call is rejected before its permissions, or opened.
LEMMA GateInv == Inv /\ Gate => Inv'
<1> SUFFICES ASSUME Inv, Gate PROVE Inv'
  OBVIOUS
<1> DEFINE b == [batch EXCEPT !.writes = WriteFiles, !.perm = 1]
<1>1. /\ DOMAIN b = BatchFields /\ b.calls = batch.calls /\ b.approved = batch.approved
      /\ b.at = batch.at /\ b.perm = 1 /\ b.gates = batch.gates
  BY DEF Inv, BatchShape, BatchFields
<1>2. /\ pc = "gate" /\ running' = running /\ mode' = mode /\ remembered' = remembered
  BY DEF Gate, Ready, sessionVars
<1>3. CASE \E events : Rejected(b, events)
  <2>1. pc' = "gate" /\ batch' = [b EXCEPT !.slots[b.at] = "rejected", !.at = @ + 1]
    BY <1>3 DEF Rejected, GoTo
  <2> HIDE DEF b
  <2>2. /\ DOMAIN batch' = BatchFields /\ batch'.calls = batch.calls
        /\ batch'.approved = batch.approved /\ batch'.at = batch.at + 1
        /\ batch'.perm \in Nat \ {0} /\ batch'.gates = batch.gates
    BY <1>1, <2>1 DEF BatchFields
  <2> QED BY <1>2, <2>1, <2>2, Rejects
<1>4. CASE Known /\ McpVerdict = "allow" /\ batch' = b /\ pc' = "perm"
  <2>1. batch.calls[batch.at].tool \in DOMAIN Tools
    BY <1>4 DEF Known, Call
  <2>2. \A k \in DOMAIN McpOf(batch.at) :
          evaluate_mcp_automatic(mode, batch.calls[batch.at].tool, McpOf(batch.at)[k]) = "allow"
    <3> SUFFICES ASSUME NEW k \in DOMAIN McpOf(batch.at)
                 PROVE  evaluate_mcp_automatic(mode, batch.calls[batch.at].tool,
                                               McpOf(batch.at)[k]) = "allow"
      OBVIOUS
    <3>1. k = 1
      BY <2>1, ToolsAssumption DEF McpOf
    <3>2. McpOf(batch.at) # <<>>
      OBVIOUS
    <3> QED BY <1>4, <3>1, <3>2 DEF McpVerdict, ToolOf, Call, McpOf
  <2> QED BY <1>1, <1>2, <1>4, <2>1, <2>2, Opens
<1> QED BY <1>3, <1>4 DEF Gate, GoTo

\* A permission is remembered, allowed or refused by the policy, or asked for.
LEMMA PermitInv == Inv /\ Permit => Inv'
<1> SUFFICES ASSUME Inv, Permit PROVE Inv'
  OBVIOUS
<1>1. /\ pc = "perm" /\ running' = running /\ mode' = mode /\ remembered' = remembered
      /\ batch.perm <= Len(PermsOf(batch.at)) /\ BatchShape /\ Judging
      /\ RememberedAdmissible /\ batch.calls[batch.at].tool \in DOMAIN Tools
  BY DEF Permit, Ready, sessionVars, Inv, Judging, PermsOf, ToolOf, Call
<1>2. batch.perm \in DOMAIN PermsOf(batch.at) /\ Perm = PermsOf(batch.at)[batch.perm]
  BY <1>1, ToolsAssumption DEF BatchShape, PermsOf, Perm, ToolOf, Call
<1> DEFINE policy == evaluate_automatic_for_tool(mode, Call.tool, Perm)
           verdict == IF Remembered(Perm) THEN "allow" ELSE policy
           added(v) == [call |-> batch.at, perm |-> batch.perm, verdict |-> v]
<1>3. Remembered(Perm) => policy # "deny"
  BY <1>1, <1>2 DEF RememberedAdmissible, PermsOf, Call
<1>4. \A v : /\ DOMAIN Gated(batch, v) = BatchFields
             /\ Gated(batch, v).calls = batch.calls
             /\ Gated(batch, v).approved = batch.approved
             /\ Gated(batch, v).at = batch.at /\ Gated(batch, v).perm = batch.perm
             /\ Gated(batch, v).gates = batch.gates \cup {added(v)}
  BY <1>1 DEF Gated, BatchShape, BatchFields
<1>5. CASE verdict = "allow" /\ pc' = "perm"
           /\ batch' = [Gated(batch, "allow") EXCEPT !.perm = @ + 1]
  <2>1. /\ DOMAIN batch' = BatchFields /\ batch'.calls = batch.calls
        /\ batch'.approved = batch.approved /\ batch'.at = batch.at
        /\ batch'.perm = batch.perm + 1
        /\ batch'.gates = batch.gates \cup {AllowGate(batch.at, batch.perm)}
    BY <1>4, <1>5 DEF BatchFields, AllowGate
  <2>2. evaluate_automatic_for_tool(mode, batch.calls[batch.at].tool,
                                    PermsOf(batch.at)[batch.perm]) # "deny"
    BY <1>2, <1>3, <1>5 DEF Call
  <2>3. RememberedAdmissible'
    BY <1>1, RememberedFrame
  <2> QED BY <1>1, <1>2, <1>5, <2>1, <2>2, <2>3, Admits
<1>6. CASE Rejected(Gated(batch, "deny"), <<>>)
  <2> DEFINE b == Gated(batch, "deny")
  <2>1. /\ DOMAIN b = BatchFields /\ b.calls = batch.calls /\ b.approved = batch.approved
        /\ b.at = batch.at /\ b.perm \in Nat \ {0} /\ batch.gates \subseteq b.gates
        /\ \A g \in b.gates \ batch.gates : g.call = batch.at
    BY <1>1, <1>4 DEF BatchShape
  <2>2. pc' = "gate" /\ batch' = [b EXCEPT !.slots[b.at] = "rejected", !.at = @ + 1]
    BY <1>6 DEF Rejected, GoTo
  <2> HIDE DEF b
  <2>3. /\ DOMAIN batch' = BatchFields /\ batch'.calls = batch.calls
        /\ batch'.approved = batch.approved /\ batch'.at = batch.at + 1
        /\ batch'.perm \in Nat \ {0} /\ batch.gates \subseteq batch'.gates
        /\ \A g \in batch'.gates \ batch.gates : g.call = batch.at
    BY <2>1, <2>2 DEF BatchFields
  <2> QED BY <1>1, <2>2, <2>3, Rejects
<1>7. CASE verdict = "ask" /\ pc' = "confirm" /\ batch' = batch
  <2>1. Judged'
    BY <1>1, <1>7, JudgedFrame DEF Inv
  <2>2. ~Remembered(Perm)
    BY <1>7
  <2>3. policy = "ask"
    BY <1>7, <2>2
  <2>4. Judging'
    <3>1. \A i, n : AllowedUpTo(i, n) /\ AdmittedUpTo(i, n)
                     => AllowedUpTo(i, n)' /\ AdmittedUpTo(i, n)'
      BY <1>1, <1>7, ClearedFrame
    <3>2. \A i, n : i = batch'.at /\ n = batch'.perm - 1
                     => AllowedUpTo(i, n)' /\ AdmittedUpTo(i, n)'
      BY <1>1, <1>7, <3>1 DEF Judging
    <3>3. \A i : i = batch'.at => batch'.perm \in DOMAIN PermsOf(i)'
                /\ evaluate_automatic_for_tool(mode', batch'.calls[i].tool,
                                               PermsOf(i)'[batch'.perm]) = "ask"
      BY <1>1, <1>2, <1>7, <2>3 DEF Call, PermsOf
    <3> QED BY <1>1, <1>7, <3>2, <3>3 DEF Judging
  <2>5. Stages'
    BY <1>1, <1>7 DEF Inv, Stages
  <2> QED BY <1>1, <1>7, <2>1, <2>4, <2>5, SameShape, RememberedFrame DEF Inv
<1> QED BY <1>5, <1>6, <1>7 DEF Permit, GoTo

\* What the user lets the session remember about a permission that the policy
\* left to the user, the policy refuses to no tool.
LEMMA RememberInv ==
  ASSUME RememberedAdmissible, NEW tool, NEW p,
         evaluate_automatic_for_tool(mode, tool, p) = "ask",
         mode' = mode, remembered' \in Remember(p)
  PROVE  RememberedAdmissible'
<1>1. \A t, q : \/ q = p
                \/ p.kind = "WriteFile" /\ q.kind = "WriteFile"
                \/ q.kind = "ExecuteCommand"
        => evaluate_automatic_for_tool(mode, t, q) # "deny"
  BY AskedIsAdmissible
<1>2. DOMAIN remembered' = {"allowlist", "prefixes", "all_writes"}
  BY DEF RememberedAdmissible, Remember
<1>3. ASSUME NEW q, Remembered(q)'
      PROVE  \/ Remembered(q) \/ q = p
             \/ p.kind = "WriteFile" /\ q.kind = "WriteFile"
             \/ q.kind = "ExecuteCommand"
  <2> USE <1>3
  <2>1. CASE remembered' = remembered
    BY <2>1 DEF Remembered
  <2>2. CASE remembered' = [remembered EXCEPT !.allowlist = @ \cup {p}]
    BY <2>2 DEF Remembered, RememberedAdmissible
  <2>3. CASE p.kind = "WriteFile" /\ remembered' = [remembered EXCEPT !.all_writes = TRUE]
    BY <2>3 DEF Remembered, RememberedAdmissible
  <2>4. CASE remembered' = [remembered EXCEPT !.prefixes = @ \cup {p.prefix}]
    BY <2>4 DEF Remembered, RememberedAdmissible
  <2> QED BY <2>1, <2>2, <2>3, <2>4 DEF Remember
<1> QED BY <1>1, <1>2, <1>3 DEF RememberedAdmissible

\* The user denies, or allows and lets the session remember.
LEMMA ConfirmInv == Inv /\ Confirm => Inv'
<1> SUFFICES ASSUME Inv, Confirm PROVE Inv'
  OBVIOUS
<1>1. /\ pc = "confirm" /\ running' = running /\ mode' = mode
      /\ BatchShape /\ RememberedAdmissible
      /\ batch.perm \in DOMAIN PermsOf(batch.at)
      /\ evaluate_automatic_for_tool(mode, batch.calls[batch.at].tool,
                                     PermsOf(batch.at)[batch.perm]) = "ask"
  BY DEF Confirm, Ready, Inv, Judging
<1>2. Perm = PermsOf(batch.at)[batch.perm]
  BY DEF PermsOf, Perm, ToolOf, Call
<1> DEFINE added(v) == [call |-> batch.at, perm |-> batch.perm, verdict |-> v]
<1>3. \A v : /\ DOMAIN Gated(batch, v) = BatchFields
             /\ Gated(batch, v).calls = batch.calls
             /\ Gated(batch, v).approved = batch.approved
             /\ Gated(batch, v).at = batch.at /\ Gated(batch, v).perm = batch.perm
             /\ Gated(batch, v).gates = batch.gates \cup {added(v)}
  BY <1>1 DEF Gated, BatchShape, BatchFields
<1>4. CASE /\ batch' = [Gated(batch, "deny") EXCEPT !.slots[batch.at] = "rejected", !.at = @ + 1]
           /\ pc' = "gate" /\ remembered' = remembered
  <2> DEFINE b == Gated(batch, "deny")
  <2>1. /\ DOMAIN b = BatchFields /\ b.calls = batch.calls /\ b.approved = batch.approved
        /\ b.at = batch.at /\ b.perm \in Nat \ {0} /\ batch.gates \subseteq b.gates
        /\ \A g \in b.gates \ batch.gates : g.call = batch.at
    BY <1>1, <1>3 DEF BatchShape
  <2>2. batch' = [b EXCEPT !.slots[batch.at] = "rejected", !.at = @ + 1]
    BY <1>4
  <2> HIDE DEF b
  <2>3. /\ DOMAIN batch' = BatchFields /\ batch'.calls = batch.calls
        /\ batch'.approved = batch.approved /\ batch'.at = batch.at + 1
        /\ batch'.perm \in Nat \ {0} /\ batch.gates \subseteq batch'.gates
        /\ \A g \in batch'.gates \ batch.gates : g.call = batch.at
    BY <2>1, <2>2 DEF BatchFields
  <2> QED BY <1>1, <1>4, <2>3, Rejects
<1>5. CASE /\ batch' = [Gated(batch, "allow") EXCEPT !.perm = @ + 1]
           /\ pc' = "perm" /\ remembered' \in Remember(Perm)
  <2>1. /\ DOMAIN batch' = BatchFields /\ batch'.calls = batch.calls
        /\ batch'.approved = batch.approved /\ batch'.at = batch.at
        /\ batch'.perm = batch.perm + 1
        /\ batch'.gates = batch.gates \cup {AllowGate(batch.at, batch.perm)}
    BY <1>3, <1>5 DEF BatchFields, AllowGate
  <2>2. RememberedAdmissible'
    BY <1>1, <1>2, <1>5, RememberInv
  <2> QED BY <1>1, <1>5, <2>1, <2>2, Admits
<1> QED BY <1>4, <1>5 DEF Confirm, GoTo

\* The batch begins: its calls have not been judged yet.
LEMMA StartBatchInv == Inv /\ StartBatch => Inv'
<1> SUFFICES ASSUME Inv, StartBatch PROVE Inv'
  OBVIOUS
<1>1. /\ pc = "done" /\ pc' = "gate" /\ batch' = batch /\ running' = running
      /\ mode' = mode /\ remembered' = remembered /\ BatchShape
  BY DEF StartBatch, Ready, GoTo, sessionVars, Inv
<1>2. batch.approved = <<>> /\ batch.gates = {}
  BY <1>1, NewBatchShape DEF Inv, Stages
<1>3. ApprovedCalls' = {}
  BY <1>1, <1>2 DEF ApprovedCalls
<1>4. Judged' /\ Judging' /\ Stages'
  BY <1>1, <1>2, <1>3 DEF Inv, Judged, Judging, Stages
<1> QED BY <1>1, <1>4, SameShape, RememberedFrame DEF Inv

\* The approved calls are announced and started.
LEMMA LaunchInv == Inv /\ (Dispatch \/ Launch) => Inv'
<1> SUFFICES ASSUME Inv, Dispatch \/ Launch PROVE Inv'
  OBVIOUS
<1>1. /\ batch' = batch /\ mode' = mode /\ remembered' = remembered
      /\ BatchShape /\ Judged /\ Stages
  BY DEF Dispatch, Launch, sessionVars, Inv
<1>2. BatchShape' /\ RememberedAdmissible'
  BY <1>1, SameShape, RememberedFrame DEF Inv
<1>3. /\ pc \in {"gate", "launch"} => Judged'
      /\ pc' # "perm" /\ pc' # "confirm" => Judging'
  <2>1. pc \in {"gate", "launch"} => Judged'
    BY <1>1, JudgedFrame
  <2>2. pc' # "perm" /\ pc' # "confirm" => Judging'
    BY DEF Judging
  <2> QED BY <2>1, <2>2
<1>4. CASE Dispatch /\ batch.approved = <<>>
  <2>1. pc' = "append" /\ running' = {}
    BY <1>1, <1>4 DEF Dispatch, GoTo, Ready, Stages
  <2> QED BY <1>2, <2>1, Elsewhere
<1>5. CASE Dispatch /\ batch.approved # <<>>
  <2>1. /\ pc = "gate" /\ pc' = "launch" /\ running' = running
        /\ todo' = [k \in DOMAIN batch.approved |-> AgentEvent("ToolCallDispatched")]
    BY <1>5 DEF Dispatch, GoTo, Ready
  <2>2. batch.approved \in Seq(Nat)
    BY <1>1 DEF BatchShape
  <2>3. todo' \in Seq({AgentEvent("ToolCallDispatched")}) /\ todo' # <<>>
    BY <1>5, <2>1, <2>2
  <2>4. Stages'
    BY <1>1, <2>1, <2>3 DEF Stages
  <2> QED BY <1>2, <1>3, <2>1, <2>4 DEF Inv
<1>6. CASE Launch
  <2>1. /\ pc = "launch" /\ todo = <<>> /\ pc' = "execute" /\ todo' = <<>>
        /\ running' = ApprovedCalls /\ state' = state
    BY <1>6 DEF Launch, GoTo, Ready, ApprovedCalls
  <2>2. ApprovedCalls' = ApprovedCalls
    BY <1>1 DEF ApprovedCalls
  <2>3. Stages'
    BY <1>1, <2>1, <2>2 DEF Stages
  <2> QED BY <1>2, <1>3, <2>1, <2>3 DEF Inv
<1> QED BY <1>4, <1>5, <1>6

\* A tool returns.
LEMMA ToolReturnsInv == ASSUME Inv, NEW i \in running, ToolReturns(i) PROVE Inv'
<1>1. /\ pc = "execute" /\ pc' = pc /\ todo' = todo /\ state' = state /\ mode' = mode
      /\ remembered' = remembered /\ running' \subseteq running
      /\ BatchShape /\ Judged /\ Stages
  BY DEF ToolReturns, Ready, sessionVars, fsmVars, Inv
<1>2. /\ DOMAIN batch' = BatchFields /\ batch'.calls = batch.calls
      /\ batch'.approved = batch.approved /\ batch'.at = batch.at
      /\ batch'.perm = batch.perm /\ batch'.gates = batch.gates
  <2> PICK output : batch' = [batch EXCEPT !.outputs[i] = output]
    BY DEF ToolReturns
  <2> QED BY <1>1 DEF BatchShape, BatchFields
<1>3. BatchShape' /\ ApprovedCalls' = ApprovedCalls
  BY <1>1, <1>2 DEF BatchShape, ApprovedCalls
<1>4. \A j : Cleared(j) => Cleared(j)'
  BY <1>1, <1>2 DEF Cleared, AllowedUpTo, AdmittedUpTo, PermsOf, McpOf
<1>5. Judged' /\ Judging' /\ Stages'
  BY <1>1, <1>2, <1>3, <1>4 DEF Judged, Judging, Stages
<1> QED BY <1>1, <1>3, <1>5, RememberedFrame DEF Inv

\* Initially, and when a turn starts, nothing is judged and nothing runs.
LEMMA InitInv == Init => Inv
<1> SUFFICES ASSUME Init PROVE Inv
  OBVIOUS
<1>1. BatchShape
  <2>1. 1 \in Nat \ {0} /\ <<>> \in Seq(Nat)
    OBVIOUS
  <2> QED BY <2>1, NewBatchShape DEF Init, BatchShape
<1>2. RememberedAdmissible
  BY DEF Init, RememberedAdmissible, Remembered
<1>3. Judged /\ Judging /\ Stages
  BY DEF Init, Judged, Judging, Stages
<1> QED BY <1>1, <1>2, <1>3 DEF Inv

LEMMA PrepareInv == Inv /\ prepare_for_new_user_turn => Inv'
<1> SUFFICES ASSUME Inv, prepare_for_new_user_turn PROVE Inv'
  OBVIOUS
<1>1. /\ pc = "idle" /\ pc' \in {"idle", "top"} /\ running = {}
      /\ remembered' = remembered /\ mode' = mode /\ running' = {}
      /\ batch' = batch \/ batch' = NewBatch(<<>>)
  BY DEF prepare_for_new_user_turn, Return, GoTo, Inv, Stages
<1>2. BatchShape'
  BY <1>1, SameShape, NewShape DEF Inv
<1> QED BY <1>1, <1>2, RememberedFrame, Elsewhere DEF Inv

\* The steps of an iteration up to the model's answer, and those after it that
\* are not about calls.
LEMMA IterationInv ==
  /\ Inv
  /\ \/ LoopTop \/ BudgetStop \/ Compose \/ Summarize \/ Complete \/ StreamItem
     \/ Truncated \/ Continued \/ Final \/ Finish \/ Fail \/ ConfirmImpossible
     \/ AnswerImpossible \/ CollectDone \/ AppendResults \/ Interrupted
  => Inv'
<1> SUFFICES ASSUME Inv,
                    \/ LoopTop \/ BudgetStop \/ Compose \/ Summarize \/ Complete
                    \/ StreamItem \/ Truncated \/ Continued \/ Final \/ Finish \/ Fail
                    \/ ConfirmImpossible \/ AnswerImpossible \/ CollectDone
                    \/ AppendResults \/ Interrupted
             PROVE  Inv'
  OBVIOUS
<1>1. /\ batch' = batch /\ running' = running /\ remembered' = remembered /\ mode' = mode
      /\ pc # "execute"
      /\ pc' \notin {"done", "gate", "perm", "confirm", "launch", "execute"}
  BY DEF LoopTop, BudgetStop, Compose, Summarize, Complete, StreamItem, Truncated, Continued,
         Final, Finish, Fail, ConfirmImpossible, AnswerImpossible, CollectDone, AppendResults,
         Interrupted, FailBatch, Ready, GoTo, Return, sessionVars
<1> QED BY <1>1, SameShape, Aside DEF Inv

\* A message of the model brings a new batch.
LEMMA StreamEndsInv == Inv /\ StreamEnds => Inv'
<1> SUFFICES ASSUME Inv, StreamEnds PROVE Inv'
  OBVIOUS
<1>1. /\ pc = "stream" /\ running' = running /\ remembered' = remembered /\ mode' = mode
  BY DEF StreamEnds, Ready, sessionVars
<1>2. CASE pc' = "fail" /\ batch' = batch
  BY <1>1, <1>2, SameShape, Aside DEF Inv
<1>3. ASSUME NEW calls, pc' = "done", batch' = NewBatch(calls)
      PROVE  Inv'
  <2>1. BatchShape' /\ RememberedAdmissible'
    BY <1>1, <1>3, NewShape, RememberedFrame DEF Inv
  <2>2. NewBatch(calls) = NewBatch(NewBatch(calls).calls)
    BY NewBatchShape
  <2>3. batch' = NewBatch(batch'.calls)
    BY <1>3, <2>2
  <2>4. Judged' /\ Judging' /\ Stages'
    BY <1>1, <1>3, <2>3 DEF Inv, Judged, Judging, Stages, NewBatch
  <2> QED BY <2>1, <2>4 DEF Inv
<1> QED BY <1>2, <1>3 DEF StreamEnds, GoTo

LEMMA ApproveInv == Inv /\ Approve => Inv'
<1> SUFFICES ASSUME Inv, Approve PROVE Inv'
  OBVIOUS
<1>1. /\ pc = "perm" /\ pc' = "gate" /\ running' = running /\ mode' = mode
      /\ remembered' = remembered /\ batch.perm > Len(PermsOf(batch.at))
  BY DEF Approve, Ready, GoTo, sessionVars, PermsOf, ToolOf, Call
<1>2. /\ DOMAIN batch' = BatchFields /\ batch'.calls = batch.calls
      /\ batch'.approved = Append(batch.approved, batch.at)
      /\ batch'.at = batch.at + 1 /\ batch'.perm = batch.perm
      /\ batch'.gates = batch.gates
  BY DEF Approve, Inv, BatchShape, BatchFields
<1> QED BY <1>1, <1>2, Approves

\* The results are taken up.
LEMMA CollectInv == Inv /\ (Collect \/ CollectNext \/ Answer \/ After) => Inv'
<1> SUFFICES ASSUME Inv, Collect \/ CollectNext \/ Answer \/ After PROVE Inv'
  OBVIOUS
<1>1. /\ running' = running /\ remembered' = remembered /\ mode' = mode
      /\ pc = "execute" => running = {}
      /\ pc' \notin {"done", "gate", "perm", "confirm", "launch", "execute"}
  BY DEF Collect, CollectNext, Answer, After, Completed, Ready, GoTo, sessionVars
<1>2. running' = {} /\ RememberedAdmissible' /\ BatchShape
  BY <1>1, RememberedFrame DEF Inv, Stages
<1>3. BatchShape'
  <2>1. batch.at \in Nat \ {0} /\ batch.at + 1 \in Nat \ {0}
    BY <1>2 DEF BatchShape
  <2>2. CASE batch' = batch
    BY <1>2, <2>2, SameShape
  <2>3. CASE batch' = [batch EXCEPT !.at = 1]
    BY <1>2, <2>3 DEF BatchShape, BatchFields
  <2>4. ASSUME NEW i, NEW success, Completed(batch, i, success)
        PROVE  BatchShape'
    BY <1>2, <2>1, <2>4 DEF BatchShape, BatchFields, Completed
  <2>5. CASE batch' = NewBatch(<<>>)
    BY <2>5, NewShape
  <2> QED BY <2>2, <2>3, <2>4, <2>5 DEF Collect, CollectNext, Answer, After
<1> QED BY <1>1, <1>2, <1>3, Elsewhere

LEMMA NextInv == Inv /\ [Next]_vars => Inv'
<1> SUFFICES ASSUME Inv, [Next]_vars PROVE Inv'
  OBVIOUS
<1>1. CASE RunSteps
  BY <1>1, ApplyEventInv, IterationInv, StartBatchInv, GateInv, PermitInv, ApproveInv,
     LaunchInv, CollectInv DEF RunSteps
<1>2. CASE UserReplies
  BY <1>2, ConfirmInv, CollectInv DEF UserReplies
<1>3. CASE StreamItem \/ StreamEnds \/ prepare_for_new_user_turn
  BY <1>3, IterationInv, StreamEndsInv, PrepareInv
<1>4. CASE Interrupt \/ CloseChannel \/ UNCHANGED vars
  <2>1. /\ pc' = pc /\ todo' = todo /\ batch' = batch /\ running' = running
        /\ state' = state /\ mode' = mode /\ remembered' = remembered
    BY <1>4 DEF Interrupt, CloseChannel, vars, fsmVars, sessionVars
  <2> QED BY <2>1, Frame
<1>5. CASE \E i \in running : ToolReturns(i)
  BY <1>5, ToolReturnsInv
<1> QED BY <1>1, <1>2, <1>3, <1>4, <1>5 DEF Next

\* The calls of a batch are judged in order, each permission once; what was
\* approved stays approved, and what is remembered the policy does not refuse.
THEOREM BatchInvariant == Spec => []Inv
<1>1. Init => Inv
  BY InitInv
<1>2. Inv /\ [Next]_vars => Inv'
  BY NextInv
<1> QED BY <1>1, <1>2, PTL DEF Spec

\* Whatever the tools, the modes, the messages of the model and the replies of
\* the user: a call that runs was allowed each permission it needs in this
\* batch, was denied none, and runs in ToolExecution (execute_tool_calls_batch
\* is reached only with what the gates of dispatch_tool_calls_batch approved).
THEOREM RunsGated == Spec => []GatedExecution
<1>1. Inv => GatedExecution
  <2> SUFFICES ASSUME Inv, NEW i \in running
               PROVE  /\ \A k \in DOMAIN Tools[batch.calls[i].tool].perms :
                           [call |-> i, perm |-> k, verdict |-> "allow"] \in batch.gates
                      /\ \A g \in batch.gates : g.call = i => g.verdict = "allow"
                      /\ state = "ToolExecution"
    BY DEF GatedExecution
  <2>1. pc = "execute" /\ state = "ToolExecution" /\ i \in ApprovedCalls
    BY DEF Inv, Stages
  <2>2. Cleared(i)
    BY <2>1 DEF Inv, Judged
  <2>3. \A k \in DOMAIN PermsOf(i) : k <= Len(PermsOf(i))
    BY <2>2, ToolsAssumption DEF Cleared, PermsOf
  <2> QED BY <2>1, <2>2, <2>3 DEF Cleared, AllowedUpTo, PermsOf, AllowGate
<1> QED BY <1>1, BatchInvariant, PTL

\* The approvals that a session remembers never let run what its policy denies:
\* they are looked up before the policy (check_policy_for_permission), and yet
\* what the user could approve the policy would not have refused.
THEOREM PolicyHolds == Spec => []PolicyNeverOverridden
<1>1. Inv => PolicyNeverOverridden
  <2> SUFFICES ASSUME Inv, NEW i \in running, NEW name, name = batch.calls[i].tool
               PROVE  /\ \A p \in Range(Tools[name].perms) :
                           evaluate_automatic_for_tool(mode, name, p) # "deny"
                      /\ \A c \in Range(Tools[name].mcp) :
                           evaluate_mcp_automatic(mode, name, c) = "allow"
    BY DEF PolicyNeverOverridden
  <2>1. Cleared(i)
    BY DEF Inv, Stages, Judged
  <2>2. \A k \in DOMAIN PermsOf(i) : k <= Len(PermsOf(i))
    BY <2>1, ToolsAssumption DEF Cleared, PermsOf
  <2>3. \A k \in DOMAIN PermsOf(i) :
          evaluate_automatic_for_tool(mode, name, PermsOf(i)[k]) # "deny"
    BY <2>1, <2>2 DEF Cleared, AdmittedUpTo
  <2>4. \A k \in DOMAIN McpOf(i) : evaluate_mcp_automatic(mode, name, McpOf(i)[k]) = "allow"
    BY <2>1 DEF Cleared, AdmittedUpTo
  <2> QED BY <2>3, <2>4 DEF Range, PermsOf, McpOf
<1> QED BY <1>1, BatchInvariant, PTL

(***************************************************************************)
(* The loop: run and the two transition tables of the state machine agree  *)
(* on every path, and every message of the model gets its AssistantTurn.   *)
(* Its inductive invariant.                                                *)
(***************************************************************************)
\* The states in which a completion is asked for.
Working(i) == IF i = 0 THEN {"Planning", "Thinking"} ELSE {"Thinking"}

Quiet == {"StatusInfo", "UsageReport", "ProviderConfirmed", "MicrocompactEstimate"}
Info == AgentEvent("StatusInfo")
Rejection == ToolCallCompleted(FALSE)

Labels == {"idle", "top", "budget", "compose", "summarize", "complete", "stream", "done",
           "continued", "finish", "interrupted", "fail", "gate", "perm", "confirm",
           "launch", "execute", "collect", "answer", "append", "after"}

\* In which state s the step at label is reached, with the events that are still
\* to be applied, in iteration i.
Stands(label, events, s, i) ==
  /\ label \in Labels
  /\ label = "idle" => events = <<>>
  /\ label = "top" =>
       \/ events = <<>> /\ (s = "Thinking" \/ (s = "Idle" /\ i = 0))
       \/ events = <<Info>> /\ s = "Thinking"
  /\ label = "budget" =>
       \/ events \in {<<Info, AgentEvent("Done")>>, <<AgentEvent("Done")>>} /\ s = "Thinking"
       \/ events = <<>> /\ s = "Complete"
  /\ label = "compose" =>
       \/ events \in {<<>>, <<AgentEvent("MicrocompactEstimate")>>} /\ s \in Working(i)
       \/ /\ events \in {<<AgentEvent("MicrocompactEstimate"), IterationStarted(1)>>,
                         <<IterationStarted(1)>>}
          /\ s = "Idle" /\ i = 0
       \/ events = <<AgentEvent("ContextSummarized")>> /\ s = "Summarizing"
  /\ label = "summarize" =>
       \/ events = <<AgentEvent("SummarizationStarted")>> /\ s \in Working(i)
       \/ events = <<>> /\ s = "Summarizing"
  /\ label = "complete" => events \in {<<>>, <<Info>>} /\ s \in Working(i)
  /\ label = "stream" =>
       /\ events \in {<<>>, <<AgentEvent("TextDelta")>>} \cup {<<AgentEvent(t)>> : t \in Quiet}
       /\ s \in {"Planning", "Thinking"}
  /\ label = "done" =>
       \/ events = <<>> /\ s = "Thinking"
       \/ events = <<AgentEvent("TextDelta")>> /\ s = "Planning"
  /\ label = "continued" => events \in {<<>>, <<Info>>} /\ s = "Thinking"
  /\ label \in {"finish", "interrupted"} =>
       \/ events = <<AgentEvent("Done")>> /\ s = "Thinking"
       \/ events = <<>> /\ s = "Complete"
  /\ label = "fail" =>
       \/ events = <<>>
       \/ events = <<Info>> /\ s \in {"Planning", "Thinking", "Summarizing"}
       \/ /\ events \in {<<ErrorEvent("ModelError")>>, <<Info, ErrorEvent("ModelError")>>}
          /\ s \in {"Planning", "Thinking"}
       \/ /\ events \in {<<ErrorEvent("ResponseTruncated")>>,
                         <<Info, ErrorEvent("ResponseTruncated")>>}
          /\ s = "Thinking"
       \/ /\ events = <<ErrorEvent("SessionFailed")>>
          /\ s \in {"Thinking", "ToolExecution", "AwaitingConfirmation"}
  /\ label = "gate" =>
       \/ events \in {<<>>, <<Info>>, <<Rejection>>, <<Rejection, Info>>} /\ s = "Thinking"
       \/ events = <<AgentEvent("TextDelta"), Rejection>> /\ s = "AwaitingConfirmation"
  /\ label = "perm" =>
       \/ events = <<>> /\ s = "Thinking"
       \/ events = <<AgentEvent("TextDelta")>> /\ s = "AwaitingConfirmation"
  /\ label = "confirm" =>
       \/ events = <<AgentEvent("ConfirmationRequired")>> /\ s = "Thinking"
       \/ events = <<>> /\ s = "AwaitingConfirmation"
  /\ label = "launch" =>
       /\ events \in Seq({AgentEvent("ToolCallDispatched")})
       /\ IF events = <<>> THEN s = "ToolExecution" ELSE s \in {"Thinking", "ToolExecution"}
  /\ label = "execute" => events = <<>> /\ s = "ToolExecution"
  /\ label = "answer" =>
       events \in {<<>>, <<AgentEvent("QuestionRequired")>>} /\ s = "ToolExecution"
  /\ label \in {"append", "after"} => events = <<>> /\ s = "Thinking"

\* The state to go back to after a summarization is kept during one only.
Resumes ==
  IF state = "Summarizing" \/ pc = "summarize"
  THEN resume \in Working(loop.iteration) ELSE resume = "none"

LoopTyped ==
  /\ loop.iteration \in Nat
  /\ state = "Idle" => ~loop.budget_stop
  /\ DOMAIN loop = {"iteration", "continuations", "summaries", "budget_stop", "stop"}
  /\ result \notin {"InvalidTransition", "SummarizationRefused"}

\* The calls of the batch that have no result yet: as many as the state machine
\* counts, and it is in ToolExecution as long as there are some.
Outstanding ==
  /\ pc \notin {"idle", "execute", "collect", "answer"} => remaining = 0
  /\ pc = "idle" /\ state = "Idle" => remaining = 0
  /\ pc = "execute" => remaining = Len(batch.approved)
  /\ pc = "answer" => remaining = Len(batch.approved) - batch.at + 1
  /\ pc = "collect" =>
       /\ todo \in {<<>>, <<ToolCallCompleted(TRUE)>>, <<ToolCallCompleted(FALSE)>>}
       /\ remaining = Len(batch.approved) - batch.at + 1 + Len(todo)
       /\ state = IF remaining = 0 THEN "Thinking" ELSE "ToolExecution"

\* Every call of the batch gets a result: the ones judged are rejected or
\* approved, and the approved ones are completed in order.
Filled(i) == batch.slots[i] # "empty"

Slots ==
  /\ Len(batch.calls) \in Nat /\ DOMAIN batch.slots = 1..Len(batch.calls)
  /\ ApprovedCalls \subseteq DOMAIN batch.slots
  /\ pc \in {"gate", "perm", "confirm"} =>
       \A i \in DOMAIN batch.slots : i < batch.at => Filled(i) \/ i \in ApprovedCalls
  /\ pc \in {"perm", "confirm"} => batch.at \in DOMAIN batch.slots
  /\ pc \in {"launch", "execute", "collect", "answer"} =>
       /\ batch.approved # <<>>
       /\ \A i \in DOMAIN batch.slots : Filled(i) \/ i \in ApprovedCalls
  /\ pc \in {"collect", "answer"} =>
       /\ batch.at <= Len(batch.approved) + 1
       /\ \A k \in DOMAIN batch.approved : k < batch.at => Filled(batch.approved[k])
  /\ pc = "answer" => batch.at <= Len(batch.approved)
  /\ pc = "append" => ~MissingSlot

LoopInv ==
  /\ Inv /\ Stands(pc, todo, state, loop.iteration) /\ Resumes /\ LoopTyped
  /\ Outstanding /\ Slots

\* One message at most has no AssistantTurn yet: the one whose calls are handled.
Handling == {"done", "gate", "perm", "confirm", "launch", "execute", "collect", "answer",
             "append", "continued", "finish"}

TurnsCounted ==
  /\ DOMAIN log = {"model_calls", "messages", "assistant_turns"}
  /\ log.messages \in Nat /\ log.assistant_turns \in Nat
  /\ pc \in Handling => log.messages = log.assistant_turns + 1
  /\ pc \notin Handling \cup {"fail", "idle"} => log.messages = log.assistant_turns
  /\ pc \in {"fail", "idle"} => log.messages - log.assistant_turns \in {0, 1}
  /\ pc = "idle" /\ result \in {"Completed", "BudgetLimit"} =>
       log.messages = log.assistant_turns

(***************************************************************************)
(* The transition tables.                                                  *)
(***************************************************************************)
\* Both tables take state s to n on the event, whatever is outstanding.
Moves(s, event, n) ==
  /\ validate_transition(s, event) /\ n # "none"
  /\ \A left, saved : next_state_after(s, event, left, saved) = n

LEMMA QuietMoves ==
  \A t \in Quiet, s \in {"Planning", "Thinking"} : Moves(s, AgentEvent(t), s)
<1> SUFFICES ASSUME NEW t \in Quiet, NEW s \in {"Planning", "Thinking"}
             PROVE  Moves(s, AgentEvent(t), s)
  OBVIOUS
<1>1. validate_transition(s, AgentEvent(t)) /\ s # "none"
  <2>1. t \in LegalEvents["Planning"] /\ t \in LegalEvents["Thinking"]
    BY DEF Quiet, LegalEvents
  <2>2. AgentEvent(t).type = t
    BY DEF AgentEvent
  <2> QED BY <2>1, <2>2 DEF validate_transition
<1>2. \A left, saved : next_state_after(s, AgentEvent(t), left, saved) = s
  BY DEF Quiet, AgentEvent, next_state_after
<1> QED BY <1>1, <1>2 DEF Moves

LEMMA EarlyMoves ==
  /\ Moves("Idle", AgentEvent("MicrocompactEstimate"), "Idle")
  /\ Moves("Idle", IterationStarted(1), "Planning")
  /\ \A s \in {"Planning", "Thinking"} :
       /\ Moves(s, AgentEvent("TextDelta"), "Thinking")
       /\ Moves(s, AgentEvent("SummarizationStarted"), "Summarizing")
       /\ Moves(s, ErrorEvent("ModelError"), "Failed")
  /\ Moves("Summarizing", Info, "Summarizing")
  /\ Moves("Thinking", AgentEvent("Done"), "Complete")
  /\ Moves("Thinking", ErrorEvent("ResponseTruncated"), "Failed")
BY DEF Info, Moves, AgentEvent, ErrorEvent, IterationStarted, validate_transition,
       LegalEvents, LegalErrors, AgentErrors, next_state_after

LEMMA BatchMoves ==
  /\ Moves("Thinking", AgentEvent("ConfirmationRequired"), "AwaitingConfirmation")
  /\ Moves("AwaitingConfirmation", AgentEvent("TextDelta"), "Thinking")
  /\ Moves("Thinking", Rejection, "Thinking")
  /\ \A s \in {"Thinking", "ToolExecution"} :
       Moves(s, AgentEvent("ToolCallDispatched"), "ToolExecution")
  /\ Moves("ToolExecution", AgentEvent("QuestionRequired"), "ToolExecution")
  /\ \A s \in {"Thinking", "ToolExecution", "AwaitingConfirmation"} :
       Moves(s, ErrorEvent("SessionFailed"), "Failed")
BY DEF Rejection, ToolCallCompleted, Moves, AgentEvent, ErrorEvent, validate_transition,
       LegalEvents, LegalErrors, AgentErrors, next_state_after

LEMMA Ends ==
  /\ \A e : <<e>> # <<>> /\ Head(<<e>>) = e /\ Tail(<<e>>) = <<>>
  /\ \A e, f : <<e, f>> # <<>> /\ Head(<<e, f>>) = e /\ Tail(<<e, f>>) = <<f>>
OBVIOUS

\* An event that is applied leads to where the next one, or the step, stands.
Goes(label, events, s, i, n) ==
  /\ Moves(s, Head(events), n) /\ Stands(label, Tail(events), n, i)
  /\ n = "Idle" => s = "Idle"
  /\ n = "Summarizing" <=> s = "Summarizing" \/ label = "summarize"

LEMMA Applies ==
  ASSUME NEW label, NEW events, NEW s, NEW i, Stands(label, events, s, i), events # <<>>,
         label # "collect", events # <<AgentEvent("ContextSummarized")>>
  PROVE  \E n : Goes(label, events, s, i, n)
<1>1. CASE label = "top"
  <2>1. CASE events = <<Info>> /\ s = "Thinking"
    BY <1>1, <2>1, Ends, QuietMoves DEF Stands, Goes, Labels, Info, Quiet
  <2> QED BY <1>1, <2>1 DEF Stands
<1>2. CASE label = "budget"
  <2>1. CASE events = <<Info, AgentEvent("Done")>> /\ s = "Thinking"
    BY <1>2, <2>1, Ends, QuietMoves DEF Stands, Goes, Labels, Info, Quiet
  <2>2. CASE events = <<AgentEvent("Done")>> /\ s = "Thinking"
    BY <1>2, <2>2, Ends, EarlyMoves DEF Stands, Goes, Labels, Info
  <2> QED BY <1>2, <2>1, <2>2 DEF Stands
<1>3. CASE label = "compose"
  <2>1. CASE events = <<AgentEvent("MicrocompactEstimate")>> /\ s \in Working(i)
    BY <1>3, <2>1, Ends, QuietMoves DEF Stands, Goes, Labels, Info, Working, Quiet
  <2>2. CASE /\ events = <<AgentEvent("MicrocompactEstimate"), IterationStarted(1)>>
             /\ s = "Idle" /\ i = 0
    BY <1>3, <2>2, Ends, EarlyMoves DEF Stands, Goes, Labels, Info, Working
  <2>3. CASE events = <<IterationStarted(1)>> /\ s = "Idle" /\ i = 0
    BY <1>3, <2>3, Ends, EarlyMoves DEF Stands, Goes, Labels, Info, Working
  <2> QED BY <1>3, <2>1, <2>2, <2>3 DEF Stands
<1>4. CASE label = "summarize"
  <2>1. CASE events = <<AgentEvent("SummarizationStarted")>> /\ s \in Working(i)
    BY <1>4, <2>1, Ends, EarlyMoves DEF Stands, Goes, Labels, Info, Working
  <2> QED BY <1>4, <2>1 DEF Stands
<1>5. CASE label = "complete"
  <2>1. CASE events = <<Info>> /\ s \in Working(i)
    BY <1>5, <2>1, Ends, QuietMoves DEF Stands, Goes, Labels, Info, Working, Quiet
  <2> QED BY <1>5, <2>1 DEF Stands
<1>6. CASE label = "stream"
  <2>1. CASE events = <<AgentEvent("TextDelta")>> /\ s \in {"Planning", "Thinking"}
    BY <1>6, <2>1, Ends, EarlyMoves DEF Stands, Goes, Labels, Info
  <2>2. CASE events \in {<<AgentEvent(t)>> : t \in Quiet} /\ s \in {"Planning", "Thinking"}
    <3>1. PICK t \in Quiet : events = <<AgentEvent(t)>>
      BY <2>2
    <3>2. Head(events) = AgentEvent(t) /\ Tail(events) = <<>>
      BY <3>1, Ends
    <3>3. Moves(s, AgentEvent(t), s)
      BY <2>2, QuietMoves
    <3>4. Goes(label, events, s, i, s)
      BY <1>6, <2>2, <3>2, <3>3 DEF Stands, Goes, Labels
    <3> QED BY <3>4
  <2> QED BY <1>6, <2>1, <2>2 DEF Stands
<1>7. CASE label = "done"
  <2>1. CASE events = <<AgentEvent("TextDelta")>> /\ s = "Planning"
    BY <1>7, <2>1, Ends, EarlyMoves DEF Stands, Goes, Labels, Info
  <2> QED BY <1>7, <2>1 DEF Stands
<1>8. CASE label = "continued"
  <2>1. CASE events = <<Info>> /\ s = "Thinking"
    BY <1>8, <2>1, Ends, QuietMoves DEF Stands, Goes, Labels, Info, Quiet
  <2> QED BY <1>8, <2>1 DEF Stands
<1>9. CASE label \in {"finish", "interrupted"}
  <2>1. CASE events = <<AgentEvent("Done")>> /\ s = "Thinking"
    BY <1>9, <2>1, Ends, EarlyMoves DEF Stands, Goes, Labels, Info
  <2> QED BY <1>9, <2>1 DEF Stands
<1>10. CASE label = "fail"
  <2>1. CASE events = <<Info>> /\ s \in {"Planning", "Thinking"}
    BY <1>10, <2>1, Ends, QuietMoves DEF Stands, Goes, Labels, Info, Quiet
  <2>2. CASE events = <<Info>> /\ s = "Summarizing"
    BY <1>10, <2>2, Ends, EarlyMoves DEF Stands, Goes, Labels, Info
  <2>3. CASE events = <<ErrorEvent("ModelError")>> /\ s \in {"Planning", "Thinking"}
    BY <1>10, <2>3, Ends, EarlyMoves DEF Stands, Goes, Labels, Info
  <2>4. CASE events = <<Info, ErrorEvent("ModelError")>> /\ s \in {"Planning", "Thinking"}
    BY <1>10, <2>4, Ends, QuietMoves DEF Stands, Goes, Labels, Info, Quiet
  <2>5. CASE events = <<ErrorEvent("ResponseTruncated")>> /\ s = "Thinking"
    BY <1>10, <2>5, Ends, EarlyMoves DEF Stands, Goes, Labels, Info
  <2>6. CASE events = <<Info, ErrorEvent("ResponseTruncated")>> /\ s = "Thinking"
    BY <1>10, <2>6, Ends, QuietMoves DEF Stands, Goes, Labels, Info, Quiet
  <2>7. CASE /\ events = <<ErrorEvent("SessionFailed")>>
             /\ s \in {"Thinking", "ToolExecution", "AwaitingConfirmation"}
    BY <1>10, <2>7, Ends, BatchMoves DEF Stands, Goes, Labels, Info
  <2> QED BY <1>10, <2>1, <2>2, <2>3, <2>4, <2>5, <2>6, <2>7 DEF Stands
<1>11. CASE label = "gate"
  <2>1. CASE events = <<Info>> /\ s = "Thinking"
    BY <1>11, <2>1, Ends, QuietMoves DEF Stands, Goes, Labels, Info, Quiet
  <2>2. CASE events = <<Rejection>> /\ s = "Thinking"
    BY <1>11, <2>2, Ends, BatchMoves DEF Stands, Goes, Labels, Info
  <2>3. CASE events = <<Rejection, Info>> /\ s = "Thinking"
    BY <1>11, <2>3, Ends, BatchMoves DEF Stands, Goes, Labels, Info
  <2>4. CASE events = <<AgentEvent("TextDelta"), Rejection>> /\ s = "AwaitingConfirmation"
    BY <1>11, <2>4, Ends, BatchMoves DEF Stands, Goes, Labels, Info
  <2> QED BY <1>11, <2>1, <2>2, <2>3, <2>4 DEF Stands
<1>12. CASE label = "perm"
  <2>1. CASE events = <<AgentEvent("TextDelta")>> /\ s = "AwaitingConfirmation"
    BY <1>12, <2>1, Ends, BatchMoves DEF Stands, Goes, Labels, Info
  <2> QED BY <1>12, <2>1 DEF Stands
<1>13. CASE label = "confirm"
  <2>1. CASE events = <<AgentEvent("ConfirmationRequired")>> /\ s = "Thinking"
    BY <1>13, <2>1, Ends, BatchMoves DEF Stands, Goes, Labels, Info
  <2> QED BY <1>13, <2>1 DEF Stands
<1>14. CASE label = "answer"
  <2>1. CASE events = <<AgentEvent("QuestionRequired")>> /\ s = "ToolExecution"
    BY <1>14, <2>1, Ends, BatchMoves DEF Stands, Goes, Labels, Info
  <2> QED BY <1>14, <2>1 DEF Stands
<1>15. CASE label = "launch"
  <2>1. /\ Head(events) = AgentEvent("ToolCallDispatched")
        /\ Tail(events) \in Seq({AgentEvent("ToolCallDispatched")})
        /\ s \in {"Thinking", "ToolExecution"}
    BY <1>15 DEF Stands
  <2>2. Goes(label, events, s, i, "ToolExecution")
    BY <1>15, <2>1, BatchMoves DEF Stands, Goes
  <2> QED BY <2>2
<1>16. CASE label \in {"idle", "execute", "append", "after"}
  BY <1>16 DEF Stands
<1> QED BY <1>1, <1>2, <1>3, <1>4, <1>5, <1>6, <1>7, <1>8, <1>9, <1>10, <1>11, <1>12,
       <1>13, <1>14, <1>15, <1>16 DEF Stands, Labels

(***************************************************************************)
(* Every step preserves the invariant.                                     *)
(***************************************************************************)
\* What is claimed beside Inv, for all steps but the application of events.
Beside == Stands(pc, todo, state, loop.iteration) /\ Resumes /\ LoopTyped /\ Outstanding /\ Slots

\* The batch is untouched and not under way.
LEMMA SlotsKept ==
  ASSUME Slots, batch' = batch,
         pc' \notin {"gate", "perm", "confirm", "launch", "execute", "collect", "answer", "append"}
  PROVE  Slots'
BY DEF Slots, ApprovedCalls

\* The batch is untouched and goes on.
LEMMA SlotsSame ==
  ASSUME Slots, batch' = batch, pc' = pc
  PROVE  Slots'
BY DEF Slots, ApprovedCalls, Filled, MissingSlot

LEMMA NewSlots ==
  ASSUME NEW calls, Len(calls) \in Nat, DOMAIN calls = 1..Len(calls), batch' = NewBatch(calls),
         pc' \notin {"gate", "perm", "confirm", "launch", "execute", "collect", "answer", "append"}
  PROVE  Slots'
<1>1. /\ batch'.calls = calls /\ batch'.approved = <<>>
      /\ DOMAIN batch'.slots = 1..Len(calls)
  BY DEF NewBatch
<1> QED BY <1>1 DEF Slots, ApprovedCalls

LEMMA ApplyEventLoop == LoopInv /\ apply_event => Beside'
<1> SUFFICES ASSUME LoopInv, apply_event PROVE Beside'
  OBVIOUS
<1> DEFINE event == Head(todo)
           next == next_state_after(state, event, remaining, resume)
<1>1. /\ todo # <<>> /\ batch' = batch /\ loop' = loop /\ running' = running
      /\ Stands(pc, todo, state, loop.iteration) /\ Resumes /\ LoopTyped
      /\ Outstanding /\ Slots
  BY DEF apply_event, LoopInv
<1>2. Slots'
  <2>1. pc' = pc \/ pc' = "idle"
    BY DEF apply_event, Return
  <2> QED BY <1>1, <2>1, SlotsKept, SlotsSame
\* Whatever is legal goes on, or back to the caller who has gone.
<1>3. ASSUME validate_transition(state, event), next # "none"
      PROVE  /\ state' = next
             /\ resume' = IF event.type = "ContextSummarized" THEN "none" ELSE resume
             /\ remaining' = IF state = "ToolExecution" /\ event.type = "ToolCallCompleted"
                             THEN IF remaining <= 1 THEN 0 ELSE remaining - 1
                             ELSE remaining
             /\ \/ todo' = Tail(todo) /\ pc' = pc /\ result' = result
                \/ todo' = <<>> /\ pc' = "idle" /\ result' = "SessionFailed"
  BY <1>3 DEF apply_event, Return
<1>4. CASE pc = "collect"
  <2>1. PICK success \in BOOLEAN : todo = <<ToolCallCompleted(success)>>
    BY <1>1, <1>4 DEF Outstanding
  <2>2. event = ToolCallCompleted(success) /\ Tail(todo) = <<>> /\ Len(todo) = 1
    BY <2>1
  <2>3. batch.at \in Nat /\ Len(batch.approved) \in Nat /\ batch.at <= Len(batch.approved) + 1
    BY <1>1, <1>4 DEF LoopInv, Inv, BatchShape, Slots
  <2>4. remaining = Len(batch.approved) - batch.at + 2 /\ remaining \in Nat \ {0}
        /\ state = "ToolExecution"
    <3>1. remaining = Len(batch.approved) - batch.at + 1 + 1
      BY <1>1, <1>4, <2>2 DEF Outstanding
    <3>2. remaining \in Nat \ {0} /\ remaining = Len(batch.approved) - batch.at + 2
      BY <2>3, <3>1
    <3> QED BY <1>1, <1>4, <3>2 DEF Outstanding
  <2>5. event.type = "ToolCallCompleted" /\ validate_transition(state, event)
    BY <2>2, <2>4 DEF ToolCallCompleted, validate_transition, LegalEvents
  <2>6. next = IF remaining > 1 THEN "ToolExecution" ELSE "Thinking"
    BY <2>4, <2>5 DEF next_state_after
  <2>7. /\ state' = next /\ resume' = resume
        /\ remaining' = IF remaining <= 1 THEN 0 ELSE remaining - 1
        /\ \/ todo' = Tail(todo) /\ pc' = pc /\ result' = result
           \/ todo' = <<>> /\ pc' = "idle" /\ result' = "SessionFailed"
    BY <1>3, <2>4, <2>5, <2>6
  <2>8. /\ remaining' = Len(batch.approved) - batch.at + 1
        /\ state' = IF remaining' = 0 THEN "Thinking" ELSE "ToolExecution"
    BY <2>3, <2>4, <2>6, <2>7
  <2>9. Resumes' /\ LoopTyped'
    BY <1>1, <1>4, <2>4, <2>7, <2>8 DEF Resumes, LoopTyped
  <2>10. todo' = <<>> /\ Len(todo') = 0
    BY <2>2, <2>7
  <2>11. Outstanding'
    <3>1. pc' = "collect" \/ (pc' = "idle" /\ state' # "Idle")
      BY <1>4, <2>7, <2>8
    <3>2. /\ todo' \in {<<>>, <<ToolCallCompleted(TRUE)>>, <<ToolCallCompleted(FALSE)>>}
          /\ remaining' = Len(batch'.approved) - batch'.at + 1 + Len(todo')
      BY <1>1, <2>3, <2>8, <2>10
    <3> QED BY <2>8, <3>1, <3>2 DEF Outstanding
  <2>12. Stands(pc', todo', state', loop'.iteration)
    BY <1>4, <2>7, <2>10 DEF Stands, Labels
  <2> QED BY <1>2, <2>9, <2>11, <2>12 DEF Beside
<1>5. CASE todo = <<AgentEvent("ContextSummarized")>> /\ pc # "collect"
  <2>1. Head(todo).type = "ContextSummarized" /\ Tail(todo) = <<>>
    BY <1>5, Ends DEF AgentEvent
  <2>2. pc = "compose" /\ state = "Summarizing"
    <3>1. \A t : AgentEvent(t) = AgentEvent("ContextSummarized") => t = "ContextSummarized"
      BY DEF AgentEvent
    <3>2. pc # "launch"
      BY <1>1, <2>1 DEF Stands, AgentEvent
    <3> QED BY <1>1, <1>5, <3>2 DEF Stands, AgentEvent, Info, ErrorEvent, Rejection,
                                    ToolCallCompleted, Quiet, Labels, IterationStarted
  <2>3. resume \in Working(loop.iteration) /\ resume # "none"
    BY <1>1, <2>2 DEF Resumes, Working
  <2>4. validate_transition(state, event) /\ next = resume
    BY <2>1, <2>2 DEF validate_transition, LegalEvents, next_state_after
  <2>5. /\ state' = resume /\ resume' = "none" /\ remaining' = remaining /\ todo' = <<>>
        /\ \/ pc' = "compose" /\ result' = result
           \/ pc' = "idle" /\ result' = "SessionFailed"
    BY <1>3, <2>1, <2>2, <2>3, <2>4
  <2>6. state' \notin {"Idle", "Summarizing"}
    BY <2>3, <2>5 DEF Working
  <2>7. Resumes' /\ LoopTyped'
    BY <1>1, <2>5, <2>6 DEF Resumes, LoopTyped
  <2>8. Outstanding'
    BY <1>1, <2>2, <2>5, <2>6 DEF Outstanding
  <2>9. Stands(pc', todo', state', loop'.iteration)
    BY <1>1, <2>3, <2>5 DEF Stands, Labels
  <2> QED BY <1>2, <2>7, <2>8, <2>9 DEF Beside
<1>6. CASE todo # <<AgentEvent("ContextSummarized")>> /\ pc # "collect"
  <2>1. PICK n : Goes(pc, todo, state, loop.iteration, n)
    BY <1>1, <1>6, Applies
  <2>2. /\ validate_transition(state, event) /\ next = n /\ n # "none"
        /\ \A left, saved : next_state_after(state, event, left, saved) = n
    BY <2>1 DEF Goes, Moves
  <2>3. event.type # "ContextSummarized"
    <3>1. event.type = "ContextSummarized" => \A saved : n = saved
      BY <2>2 DEF next_state_after
    <3> QED BY <3>1
  <2>4. ~(state = "ToolExecution" /\ event.type = "ToolCallCompleted")
    <3>1. state = "ToolExecution" /\ event.type = "ToolCallCompleted"
            => \A left : n = IF left > 1 THEN "ToolExecution" ELSE "Thinking"
      BY <2>2 DEF next_state_after
    <3>2. (\A left : n = IF left > 1 THEN "ToolExecution" ELSE "Thinking")
            => n = "ToolExecution" /\ n = "Thinking"
      <4>1. 2 > 1 /\ ~(0 > 1)
        OBVIOUS
      <4> QED BY <4>1
    <3> QED BY <3>1, <3>2
  <2>5. /\ state' = n /\ resume' = resume /\ remaining' = remaining
        /\ \/ todo' = Tail(todo) /\ pc' = pc /\ result' = result
           \/ todo' = <<>> /\ pc' = "idle" /\ result' = "SessionFailed"
    BY <1>3, <2>2, <2>3, <2>4
  <2>6. /\ n = "Idle" => state = "Idle"
        /\ n = "Summarizing" <=> state = "Summarizing" \/ pc = "summarize"
        /\ Stands(pc, Tail(todo), n, loop.iteration)
    BY <2>1 DEF Goes
  <2>7. Resumes'
    BY <1>1, <2>5, <2>6 DEF Resumes
  <2>8. LoopTyped'
    BY <1>1, <2>5, <2>6 DEF LoopTyped
  <2>9. Outstanding'
    <3>1. pc # "execute"
      BY <1>1 DEF Stands
    <3>2. CASE pc' = pc
      BY <1>1, <1>6, <2>5, <2>6, <3>1, <3>2 DEF Outstanding
    <3>3. CASE pc' = "idle"
      <4>1. state' = "Idle" => pc \notin {"execute", "answer", "collect"}
        BY <1>1, <1>6, <2>5, <2>6 DEF Stands
      <4> QED BY <1>1, <2>5, <2>6, <3>3, <4>1 DEF Outstanding
    <3> QED BY <2>5, <3>2, <3>3
  <2>10. Stands(pc', todo', state', loop'.iteration)
    <3>1. \A v : Stands("idle", <<>>, v, loop.iteration)
      BY DEF Stands, Labels
    <3> QED BY <1>1, <2>5, <2>6, <3>1
  <2> QED BY <1>2, <2>7, <2>8, <2>9, <2>10 DEF Beside
<1> QED BY <1>4, <1>5, <1>6

InBatch == {"gate", "perm", "confirm", "launch", "execute", "collect", "answer", "append"}

\* A step outside batches that leaves the state machine as it is.
LEMMA Sidestep ==
  ASSUME LoopInv, pc \notin {"idle", "execute", "collect", "summarize"},
         pc' \notin InBatch \cup {"summarize"}, UNCHANGED <<state, resume, batch>>,
         remaining' = 0 \/ (remaining' = remaining /\ pc # "answer"),
         DOMAIN loop' = DOMAIN loop, loop'.iteration = loop.iteration,
         loop'.budget_stop = loop.budget_stop \/ state # "Idle",
         result' \notin {"InvalidTransition", "SummarizationRefused"},
         Stands(pc', todo', state, loop.iteration)
  PROVE  Beside'
<1>1. Resumes /\ LoopTyped /\ Outstanding /\ Slots
  BY DEF LoopInv
<1>2. Stands(pc', todo', state', loop'.iteration)
  OBVIOUS
<1>3. Resumes'
  BY <1>1 DEF Resumes, InBatch
<1>4. LoopTyped'
  BY <1>1 DEF LoopTyped
<1>5. Outstanding'
  BY <1>1 DEF Outstanding, InBatch
<1>6. Slots'
  BY <1>1, SlotsKept DEF InBatch
<1> QED BY <1>2, <1>3, <1>4, <1>5, <1>6 DEF Beside

\* What a step of run finds when no event is left to apply.
LEMMA Found ==
  ASSUME LoopInv
  PROVE  /\ Stands(pc, todo, state, loop.iteration) /\ loop.iteration \in Nat
         /\ DOMAIN loop = {"iteration", "continuations", "summaries", "budget_stop", "stop"}
         /\ result \notin {"InvalidTransition", "SummarizationRefused"}
         /\ state = "Idle" => ~loop.budget_stop
BY DEF LoopInv, LoopTyped

LEMMA Joined ==
  ASSUME NEW S, NEW e \in S, NEW f \in S
  PROVE  /\ <<>> \o <<>> = <<>> /\ <<>> \o <<e>> = <<e>> /\ <<e>> \o <<>> = <<e>>
         /\ <<e>> \o <<f>> = <<e, f>>
<1>1. <<>> \in Seq(S) /\ Len(<<>>) = 0 /\ <<e>> \in Seq(S) /\ <<f>> \in Seq(S)
  OBVIOUS
<1>2. \A s, t \in Seq(S) :
        /\ s \o t \in Seq(S) /\ Len(s \o t) = Len(s) + Len(t)
        /\ \A k \in 1..Len(s) : (s \o t)[k] = s[k]
        /\ \A k \in 1..Len(t) : (s \o t)[Len(s) + k] = t[k]
  OBVIOUS
<1>3. \A s \in Seq(S) : /\ Len(s) = 0 => s = <<>>
                        /\ Len(s) = 1 /\ s[1] = e => s = <<e>>
                        /\ Len(s) = 2 /\ s[1] = e /\ s[2] = f => s = <<e, f>>
  OBVIOUS
<1>4. <<>> \o <<>> = <<>>
  BY <1>1, <1>2, <1>3
<1>5. <<>> \o <<e>> = <<e>>
  BY <1>1, <1>2, <1>3
<1>6. <<e>> \o <<>> = <<e>>
  BY <1>1, <1>2, <1>3
<1>7. <<e>> \o <<f>> = <<e, f>>
  <2> DEFINE s == <<e>>
             t == <<f>>
  <2>1. /\ s \in Seq(S) /\ t \in Seq(S) /\ Len(s) = 1 /\ Len(t) = 1
        /\ s[1] = e /\ t[1] = f /\ 1 \in 1..1 /\ 1 + 1 = 2
    OBVIOUS
  <2> HIDE DEF s, t
  <2>2. s \o t \in Seq(S) /\ Len(s \o t) = 2 /\ (s \o t)[1] = e /\ (s \o t)[2] = f
    BY <1>2, <2>1
  <2> QED BY <1>3, <2>2 DEF s, t
<1> QED BY <1>4, <1>5, <1>6, <1>7

LEMMA LoopTopLoop == LoopInv /\ LoopTop => Beside'
<1> SUFFICES ASSUME LoopInv, LoopTop PROVE Beside'
  OBVIOUS
<1>1. /\ pc = "top" /\ todo = <<>> /\ UNCHANGED <<state, resume, batch>> /\ remaining' = remaining
  BY DEF LoopTop, Ready, fsmVars
<1>2. state = "Thinking" \/ (state = "Idle" /\ loop.iteration = 0)
  BY <1>1, Found DEF Stands
<1>3. CASE /\ pc' = "idle" /\ todo' = <<>> /\ result' = "IterationLimitReached" /\ loop' = loop
  <2>1. Stands(pc', todo', state, loop.iteration)
    BY <1>3 DEF Stands, Labels
  <2> QED BY <1>1, <1>3, <2>1, Sidestep DEF InBatch
<1>4. CASE /\ loop.budget_stop /\ result' = result /\ loop' = loop
           /\ pc' = "budget" /\ todo' = <<AgentEvent("StatusInfo"), AgentEvent("Done")>>
  <2>1. Stands(pc', todo', state, loop.iteration)
    BY <1>2, <1>4, Found DEF Stands, Labels, Info
  <2> QED BY <1>1, <1>4, <2>1, Sidestep, Found DEF InBatch
<1>5. ASSUME NEW cleared \in {<<>>, <<AgentEvent("MicrocompactEstimate")>>},
             pc' = "compose", result' = result, loop' = [loop EXCEPT !.summaries = 0],
             todo' = cleared \o (IF state = "Idle"
                                THEN <<IterationStarted(loop.iteration + 1)>> ELSE <<>>)
      PROVE  Beside'
  <2>1. Stands(pc', todo', state, loop.iteration)
    <3>1. CASE state = "Idle"
      <4>1. loop.iteration + 1 = 1
        BY <1>2, <3>1
      <4>2. todo' \in {<<AgentEvent("MicrocompactEstimate"), IterationStarted(1)>>,
                      <<IterationStarted(1)>>}
        <5> DEFINE m == AgentEvent("MicrocompactEstimate")
        <5>1. /\ <<>> \o <<IterationStarted(1)>> = <<IterationStarted(1)>>
              /\ <<m>> \o <<IterationStarted(1)>> = <<m, IterationStarted(1)>>
          <6>1. m \in {m, IterationStarted(1)} /\ IterationStarted(1) \in {m, IterationStarted(1)}
            OBVIOUS
          <6> QED BY <6>1, Joined
        <5> QED BY <1>5, <3>1, <4>1, <5>1
      <4> QED BY <1>2, <1>5, <3>1, <4>2 DEF Stands, Labels
    <3>2. CASE state = "Thinking"
      <4>1. todo' \in {<<>>, <<AgentEvent("MicrocompactEstimate")>>}
        BY <1>5, <3>2, Joined
      <4> QED BY <1>5, <3>2, <4>1 DEF Stands, Labels, Working
    <3> QED BY <1>2, <3>1, <3>2
  <2>2. DOMAIN loop' = DOMAIN loop /\ loop'.iteration = loop.iteration
        /\ loop'.budget_stop = loop.budget_stop
    BY <1>5, Found
  <2> QED BY <1>1, <1>5, <2>1, <2>2, Sidestep, Found DEF InBatch
<1> QED BY <1>3, <1>4, <1>5 DEF LoopTop, Return, GoTo

\* An iteration that is left, or a message that is answered, truncated or final.
LEMMA OutsideLoop ==
  LoopInv /\ (BudgetStop \/ Continued \/ Finish \/ Fail \/ Interrupted) => Beside'
<1> SUFFICES ASSUME LoopInv, BudgetStop \/ Continued \/ Finish \/ Fail \/ Interrupted
             PROVE  Beside'
  OBVIOUS
<1>1. /\ pc \in {"budget", "continued", "finish", "fail", "interrupted"} /\ todo = <<>>
      /\ UNCHANGED <<state, resume, batch, loop>> /\ remaining' = remaining /\ todo' = <<>>
      /\ \/ pc' = "idle" /\ result' \in {"BudgetLimit", "Completed", "failed"}
         \/ pc = "continued" /\ pc' = "top" /\ result' = result
  BY DEF BudgetStop, Continued, Finish, Fail, Interrupted, Ready, GoTo, Return, fsmVars
<1>2. Stands(pc', todo', state, loop.iteration)
  BY <1>1, Found DEF Stands, Labels
<1> QED BY <1>1, <1>2, Sidestep, Found DEF InBatch

LEMMA ComposeLoop == LoopInv /\ Compose => Beside'
<1> SUFFICES ASSUME LoopInv, Compose PROVE Beside'
  OBVIOUS
<1>1. /\ pc = "compose" /\ todo = <<>> /\ UNCHANGED <<state, batch>> /\ remaining' = remaining
  BY DEF Compose, Ready
<1>2. state \in Working(loop.iteration)
  BY <1>1, Found DEF Stands, AgentEvent, IterationStarted
<1>3. state \in {"Planning", "Thinking"}
  BY <1>2 DEF Working
<1>4. CASE /\ pc' = "complete" /\ todo' \in {<<>>, <<Info>>}
           /\ UNCHANGED <<resume, loop, result>>
  <2>1. Stands(pc', todo', state, loop.iteration)
    BY <1>2, <1>4 DEF Stands, Labels
  <2> QED BY <1>1, <1>4, <2>1, Sidestep, Found DEF InBatch
<1>5. CASE loop' = [loop EXCEPT !.summaries = @ + 1] /\ UNCHANGED <<pc, todo, resume, result>>
  <2>1. Stands(pc', todo', state, loop.iteration)
    BY <1>5, Found
  <2>2. DOMAIN loop' = DOMAIN loop /\ loop'.iteration = loop.iteration
        /\ loop'.budget_stop = loop.budget_stop
    BY <1>5, Found
  <2> QED BY <1>1, <1>5, <2>1, <2>2, Sidestep, Found DEF InBatch
<1>6. CASE /\ loop' = [loop EXCEPT !.summaries = @ + 1] /\ resume' = state /\ result' = result
           /\ pc' = "summarize" /\ todo' = <<AgentEvent("SummarizationStarted")>>
  <2>1. DOMAIN loop' = DOMAIN loop /\ loop'.iteration = loop.iteration
        /\ loop'.budget_stop = loop.budget_stop
    BY <1>6, Found
  <2>2. Stands(pc', todo', state', loop'.iteration)
    BY <1>1, <1>2, <1>6, <2>1 DEF Stands, Labels
  <2>3. Resumes' /\ LoopTyped'
    BY <1>1, <1>2, <1>6, <2>1, Found DEF Resumes, LoopTyped
  <2>4. Outstanding' /\ Slots'
    BY <1>1, <1>6, SlotsKept DEF LoopInv, Outstanding
  <2> QED BY <2>2, <2>3, <2>4 DEF Beside
<1> QED BY <1>3, <1>4, <1>5, <1>6 DEF Compose, GoTo, Info

LEMMA SummarizeLoop == LoopInv /\ Summarize => Beside'
<1> SUFFICES ASSUME LoopInv, Summarize PROVE Beside'
  OBVIOUS
<1>1. /\ pc = "summarize" /\ todo = <<>> /\ UNCHANGED <<batch, loop, result>>
      /\ remaining' = remaining /\ pc' \in {"compose", "fail"}
  BY DEF Summarize, Ready, GoTo
<1>2. state = "Summarizing" /\ resume \in Working(loop.iteration)
  BY <1>1 DEF LoopInv, Stands, Resumes, AgentEvent
<1>3. \/ /\ pc' = "compose" /\ todo' = <<AgentEvent("ContextSummarized")>>
         /\ UNCHANGED <<state, resume>>
      \/ pc' = "compose" /\ todo' = <<>> /\ state' = resume /\ resume' = "none"
      \/ pc' = "fail" /\ todo' = <<Info>> /\ UNCHANGED <<state, resume>>
  BY DEF Summarize, GoTo, Info
<1>4. Stands(pc', todo', state', loop'.iteration)
  BY <1>1, <1>2, <1>3 DEF Stands, Labels
<1>5. Resumes' /\ LoopTyped'
  BY <1>1, <1>2, <1>3, Found DEF Resumes, LoopTyped, Working
<1>6. Outstanding' /\ Slots'
  BY <1>1, SlotsKept DEF LoopInv, Outstanding
<1> QED BY <1>4, <1>5, <1>6 DEF Beside

LEMMA AsksLoop == LoopInv /\ (Complete \/ StreamItem) => Beside'
<1> SUFFICES ASSUME LoopInv, Complete \/ StreamItem PROVE Beside'
  OBVIOUS
<1>1. /\ pc \in {"complete", "stream"} /\ todo = <<>> /\ UNCHANGED <<state, resume, batch, result>>
      /\ remaining' = remaining
  BY DEF Complete, StreamItem, Ready, fsmVars
<1>2. state \in {"Planning", "Thinking"}
  BY <1>1, Found DEF Stands, Working
<1>3. \/ /\ pc' = "stream"
         /\ todo' \in {<<>>, <<AgentEvent("TextDelta")>>} \cup {<<AgentEvent(t)>> : t \in Quiet}
      \/ /\ pc' = "fail"
         /\ todo' \in {<<Info>>, <<ErrorEvent("ModelError")>>, <<Info, ErrorEvent("ModelError")>>}
  BY DEF Complete, StreamItem, GoTo, Info, Quiet, ModelErrorEvents
<1>4. Stands(pc', todo', state, loop.iteration)
  BY <1>2, <1>3 DEF Stands, Labels
<1>5. DOMAIN loop' = DOMAIN loop /\ loop'.iteration = loop.iteration
  <2>1. CASE loop' = loop
    BY <2>1
  <2>2. ASSUME NEW over, loop' = [loop EXCEPT !.budget_stop = @ \/ over]
        PROVE  DOMAIN loop' = DOMAIN loop /\ loop'.iteration = loop.iteration
    BY <2>2, Found
  <2> QED BY <2>1, <2>2 DEF Complete, StreamItem
<1> QED BY <1>1, <1>2, <1>3, <1>4, <1>5, Sidestep, Found DEF InBatch

LEMMA StreamEndsLoop == LoopInv /\ StreamEnds => Beside'
<1> SUFFICES ASSUME LoopInv, StreamEnds PROVE Beside'
  OBVIOUS
<1>1. /\ pc = "stream" /\ todo = <<>> /\ UNCHANGED <<state, resume, result>>
      /\ remaining' = remaining
  BY DEF StreamEnds, Ready, fsmVars
<1>2. state \in {"Planning", "Thinking"}
  BY <1>1, Found DEF Stands
<1>3. CASE /\ pc' = "fail" /\ UNCHANGED <<loop, batch>>
           /\ todo' \in {<<Info>>, <<ErrorEvent("ModelError")>>, <<Info, ErrorEvent("ModelError")>>}
  <2>1. Stands(pc', todo', state, loop.iteration)
    BY <1>2, <1>3 DEF Stands, Labels
  <2> QED BY <1>1, <1>2, <1>3, <2>1, Sidestep, Found DEF InBatch
<1>4. ASSUME NEW stop, NEW calls \in Messages \cup {<<>>},
             /\ pc' = "done"
             /\ todo' = (IF state = "Planning" THEN <<AgentEvent("TextDelta")>> ELSE <<>>),
             loop' = [loop EXCEPT !.stop = stop], batch' = NewBatch(calls)
      PROVE  Beside'
  <2>1. DOMAIN loop' = DOMAIN loop /\ loop'.iteration = loop.iteration
        /\ loop'.budget_stop = loop.budget_stop
    BY <1>4, Found
  <2>2. Stands(pc', todo', state', loop'.iteration)
    BY <1>1, <1>2, <1>4 DEF Stands, Labels
  <2>3. Resumes' /\ LoopTyped'
    BY <1>1, <1>2, <1>4, <2>1, Found DEF LoopInv, Resumes, LoopTyped
  <2>4. Outstanding'
    BY <1>1, <1>4 DEF LoopInv, Outstanding
  <2>5. Slots'
    <3>1. Len(<<>>) = 0 /\ DOMAIN <<>> = 1..0 /\ Len(<<>>) \in Nat
      OBVIOUS
    <3>2. Len(calls) \in Nat /\ DOMAIN calls = 1..Len(calls)
      BY <3>1, MessagesAssumption
    <3> QED BY <1>4, <3>2, NewSlots
  <2> QED BY <2>2, <2>3, <2>4, <2>5 DEF Beside
<1> QED BY <1>3, <1>4 DEF StreamEnds, GoTo, ModelErrorEvents, Info

LEMMA EndsLoop == LoopInv /\ (Truncated \/ Final) => Beside'
<1> SUFFICES ASSUME LoopInv, Truncated \/ Final PROVE Beside'
  OBVIOUS
<1>1. /\ pc = "done" /\ todo = <<>> /\ UNCHANGED <<state, resume, batch, result>>
      /\ remaining' = remaining /\ \E n : loop' = [loop EXCEPT !.continuations = n]
  BY DEF Truncated, Final, Ready, fsmVars
<1>2. state = "Thinking"
  BY <1>1, Found DEF Stands
<1>3. \/ pc' = "continued" /\ todo' = <<Info>>
      \/ pc' = "finish" /\ todo' = <<AgentEvent("Done")>>
      \/ /\ pc' = "fail"
         /\ todo' \in {<<Info, ErrorEvent("ResponseTruncated")>>, <<ErrorEvent("ModelError")>>}
  BY DEF Truncated, Final, GoTo, Info
<1>4. Stands(pc', todo', state, loop.iteration)
  BY <1>2, <1>3 DEF Stands, Labels
<1>5. DOMAIN loop' = DOMAIN loop /\ loop'.iteration = loop.iteration
      /\ loop'.budget_stop = loop.budget_stop
  BY <1>1, Found
<1> QED BY <1>1, <1>3, <1>4, <1>5, Sidestep, Found DEF InBatch

LEMMA AfterLoop == LoopInv /\ After => Beside'
<1> SUFFICES ASSUME LoopInv, After PROVE Beside'
  OBVIOUS
<1>1. /\ pc = "after" /\ todo = <<>> /\ UNCHANGED <<state, resume, result>>
      /\ remaining' = remaining /\ batch' = NewBatch(<<>>)
      /\ \/ pc' = "interrupted" /\ todo' = <<AgentEvent("Done")>> /\ loop' = loop
         \/ /\ pc' = "top" /\ todo' \in {<<>>, <<Info>>}
            /\ loop' = [loop EXCEPT !.iteration = @ + 1, !.stop = "none"]
  BY DEF After, Ready, GoTo, fsmVars, Info
<1>2. state = "Thinking"
  BY <1>1, Found DEF Stands
<1>3. Stands(pc', todo', state', loop'.iteration)
  BY <1>1, <1>2 DEF Stands, Labels
<1>4. /\ DOMAIN loop' = DOMAIN loop
      /\ loop'.iteration = loop.iteration \/ loop'.iteration = loop.iteration + 1
  BY <1>1, Found
<1>5. Resumes' /\ LoopTyped' /\ Outstanding'
  <2>1. loop'.iteration \in Nat
    BY <1>4, Found
  <2> QED BY <1>1, <1>2, <1>4, <2>1, Found DEF LoopInv, Resumes, LoopTyped, Outstanding
<1>6. Slots'
  <2>1. Len(<<>>) \in Nat /\ DOMAIN <<>> = 1..Len(<<>>)
    OBVIOUS
  <2> QED BY <1>1, <2>1, NewSlots
<1> QED BY <1>3, <1>5, <1>6 DEF Beside

LEMMA PrepareLoop == LoopInv /\ prepare_for_new_user_turn => Beside'
<1> SUFFICES ASSUME LoopInv, prepare_for_new_user_turn PROVE Beside'
  OBVIOUS
<1>1. pc = "idle" /\ resume' = resume /\ Resumes /\ LoopTyped /\ Outstanding /\ Slots
  BY DEF prepare_for_new_user_turn, LoopInv
<1>2. CASE /\ state \notin {"Idle", "Complete", "Failed"}
           /\ pc' = "idle" /\ todo' = <<>> /\ result' = "refused"
           /\ UNCHANGED <<state, remaining, loop, batch>>
  <2>1. Stands(pc', todo', state', loop'.iteration)
    BY <1>2 DEF Stands, Labels
  <2>2. Resumes' /\ LoopTyped' /\ Outstanding' /\ Slots'
    BY <1>1, <1>2, SlotsSame DEF Resumes, LoopTyped, Outstanding
  <2> QED BY <2>1, <2>2 DEF Beside
<1>3. CASE /\ state \in {"Idle", "Complete", "Failed"} /\ state' = "Idle"
           /\ remaining' = (IF state = "Idle" THEN remaining ELSE 0)
           /\ loop' = [iteration |-> 0, continuations |-> 0, summaries |-> 0,
                       budget_stop |-> FALSE, stop |-> "none"]
           /\ batch' = NewBatch(<<>>) /\ todo' = <<>>
           /\ pc' \in {"top", "idle"} /\ result' \in {"none", "SessionFailed"}
  <2>1. /\ loop'.iteration = 0 /\ ~loop'.budget_stop
        /\ DOMAIN loop' = {"iteration", "continuations", "summaries", "budget_stop", "stop"}
    BY <1>3
  <2>2. Stands(pc', todo', state', loop'.iteration)
    BY <1>3, <2>1 DEF Stands, Labels
  <2>3. Resumes' /\ LoopTyped'
    BY <1>1, <1>3, <2>1 DEF Resumes, LoopTyped
  <2>4. Outstanding'
    BY <1>1, <1>3 DEF Outstanding
  <2>5. Slots'
    <3>1. Len(<<>>) \in Nat /\ DOMAIN <<>> = 1..Len(<<>>)
      OBVIOUS
    <3> QED BY <1>3, <3>1, NewSlots
  <2> QED BY <2>2, <2>3, <2>4, <2>5 DEF Beside
<1> QED BY <1>2, <1>3 DEF prepare_for_new_user_turn, Return, GoTo

(***************************************************************************)
(* The steps of a batch.                                                   *)
(***************************************************************************)
LEMMA BatchSide ==
  ASSUME LoopInv, pc # "summarize", pc' # "summarize", UNCHANGED <<state, resume, result>>,
         DOMAIN loop' = DOMAIN loop, loop'.iteration = loop.iteration,
         loop'.budget_stop = loop.budget_stop
  PROVE  Resumes' /\ LoopTyped'
BY DEF LoopInv, Resumes, LoopTyped

\* While calls are judged nothing is outstanding.
LEMMA NoneOutstanding ==
  ASSUME LoopInv, pc \in {"done", "gate", "perm", "confirm"}, remaining' \in {remaining, 0},
         pc' \in {"gate", "perm", "confirm", "launch", "append"}
  PROVE  Outstanding'
BY DEF LoopInv, Outstanding

LEMMA StartBatchLoop == LoopInv /\ StartBatch => Beside'
<1> SUFFICES ASSUME LoopInv, StartBatch PROVE Beside'
  OBVIOUS
<1>1. /\ pc = "done" /\ todo = <<>> /\ pc' = "gate" /\ todo' = <<>> /\ batch' = batch
      /\ UNCHANGED <<state, resume, result>> /\ remaining' = 0
      /\ \E n : loop' = [loop EXCEPT !.continuations = n]
  BY DEF StartBatch, Ready, GoTo
<1>2. DOMAIN loop' = DOMAIN loop /\ loop'.iteration = loop.iteration
      /\ loop'.budget_stop = loop.budget_stop
  BY <1>1, Found
<1>3. Stands(pc', todo', state', loop'.iteration)
  BY <1>1, Found DEF Stands, Labels
<1>4. Resumes' /\ LoopTyped' /\ Outstanding'
  BY <1>1, <1>2, BatchSide, NoneOutstanding
<1>5. Slots'
  <2>1. batch.at = 1 /\ Slots
    BY <1>1, NewBatchShape DEF LoopInv, Inv, Stages
  <2> QED BY <1>1, <2>1 DEF Slots, ApprovedCalls
<1> QED BY <1>3, <1>4, <1>5 DEF Beside

\* What has been judged by the time of a call.
LEMMA Judgement ==
  ASSUME LoopInv
  PROVE  /\ BatchShape /\ Slots /\ batch.at \in Nat \ {0}
         /\ batch.approved \in Seq(Nat) /\ Len(batch.calls) \in Nat
         /\ DOMAIN batch.slots = 1..Len(batch.calls)
BY DEF LoopInv, Inv, BatchShape, Slots

LEMMA RejectSlots ==
  ASSUME LoopInv, pc \in {"gate", "perm", "confirm"}, batch.at \in DOMAIN batch.slots,
         pc' = "gate", batch'.calls = batch.calls, batch'.approved = batch.approved,
         batch'.at = batch.at + 1, batch'.slots = [batch.slots EXCEPT ![batch.at] = "rejected"]
  PROVE  Slots'
<1>1. ApprovedCalls' = ApprovedCalls /\ DOMAIN batch'.slots = DOMAIN batch.slots
  BY DEF ApprovedCalls
<1>2. ASSUME NEW i \in DOMAIN batch.slots, i < batch.at + 1
      PROVE  batch'.slots[i] # "empty" \/ i \in ApprovedCalls
  <2>1. i < batch.at \/ i = batch.at
    BY <1>2, Judgement
  <2> QED BY <1>2, <2>1, Judgement DEF Slots, Filled
<1> QED BY <1>1, <1>2, Judgement DEF Slots, Filled

LEMMA JudgeSlots ==
  ASSUME LoopInv, pc \in {"gate", "perm", "confirm"}, batch.at \in DOMAIN batch.slots,
         pc' \in {"perm", "confirm"}, batch'.calls = batch.calls,
         batch'.approved = batch.approved, batch'.at = batch.at, batch'.slots = batch.slots
  PROVE  Slots'
BY Judgement DEF Slots, ApprovedCalls, Filled

\* A call is rejected: its result is there, and the state machine is told.
LEMMA RejectsLoop ==
  ASSUME LoopInv, NEW b, NEW events, Rejected(b, events), todo = <<>>,
         DOMAIN b = BatchFields, b.calls = batch.calls, b.approved = batch.approved,
         b.at = batch.at, b.slots = batch.slots, batch.at \in DOMAIN batch.slots,
         pc \in {"gate", "perm"}, events \in {<<>>, <<Info>>},
         UNCHANGED <<state, resume, remaining, loop, result>>
  PROVE  Beside'
<1>1. /\ batch' = [b EXCEPT !.slots[b.at] = "rejected", !.at = @ + 1]
      /\ pc' = "gate" /\ todo' = <<Rejection>> \o events
  BY DEF Rejected, GoTo, Rejection
<1>2. /\ batch'.calls = batch.calls /\ batch'.approved = batch.approved
      /\ batch'.at = batch.at + 1
      /\ batch'.slots = [batch.slots EXCEPT ![batch.at] = "rejected"]
  BY <1>1 DEF BatchFields
<1>3. todo' \in {<<Rejection>>, <<Rejection, Info>>}
  <2>1. Rejection \in {Rejection, Info} /\ Info \in {Rejection, Info}
    OBVIOUS
  <2>2. <<Rejection>> \o <<>> = <<Rejection>> /\ <<Rejection>> \o <<Info>> = <<Rejection, Info>>
    BY <2>1, Joined
  <2> QED BY <1>1, <2>2
<1>4. state = "Thinking"
  BY Found DEF Stands
<1>5. Stands(pc', todo', state', loop'.iteration)
  BY <1>1, <1>3, <1>4 DEF Stands, Labels
<1>6. Resumes' /\ LoopTyped' /\ Outstanding'
  BY <1>1, BatchSide, NoneOutstanding
<1>7. Slots'
  BY <1>1, <1>2, RejectSlots
<1> QED BY <1>5, <1>6, <1>7 DEF Beside

\* A call goes on to its next permission.
LEMMA PassesLoop ==
  ASSUME LoopInv, todo = <<>>, pc \in {"gate", "perm"}, pc' = "perm", todo' = <<>>,
         batch.at \in DOMAIN batch.slots, batch'.calls = batch.calls,
         batch'.approved = batch.approved, batch'.at = batch.at, batch'.slots = batch.slots,
         UNCHANGED <<state, resume, remaining, loop, result>>
  PROVE  Beside'
<1>1. Stands(pc', todo', state', loop'.iteration)
  BY Found DEF Stands, Labels
<1>2. Resumes' /\ LoopTyped' /\ Outstanding' /\ Slots'
  BY BatchSide, NoneOutstanding, JudgeSlots
<1> QED BY <1>1, <1>2 DEF Beside

LEMMA GateLoop == LoopInv /\ Gate => Beside'
<1> SUFFICES ASSUME LoopInv, Gate PROVE Beside'
  OBVIOUS
<1> DEFINE b == [batch EXCEPT !.writes = WriteFiles, !.perm = 1]
<1>1. /\ pc = "gate" /\ todo = <<>> /\ batch.at <= Len(batch.calls)
      /\ UNCHANGED <<state, resume, remaining, loop, result>>
  BY DEF Gate, Ready, fsmVars
<1>2. /\ DOMAIN b = BatchFields /\ b.calls = batch.calls /\ b.approved = batch.approved
      /\ b.at = batch.at /\ b.slots = batch.slots
  BY Judgement DEF BatchShape, BatchFields
<1>3. batch.at \in DOMAIN batch.slots
  BY <1>1, Judgement
<1>4. ASSUME NEW events \in {<<>>, <<Info>>}, Rejected(b, events) PROVE Beside'
  <2> HIDE DEF b
  <2> QED BY <1>1, <1>2, <1>3, <1>4, RejectsLoop
<1>5. CASE batch' = b /\ pc' = "perm" /\ todo' = <<>>
  BY <1>1, <1>2, <1>3, <1>5, PassesLoop
<1> QED BY <1>4, <1>5 DEF Gate, GoTo, Info

LEMMA GatedParts ==
  ASSUME LoopInv, NEW v
  PROVE  LET b == Gated(batch, v)
         IN /\ DOMAIN b = BatchFields /\ b.calls = batch.calls
            /\ b.approved = batch.approved /\ b.at = batch.at /\ b.slots = batch.slots
BY Judgement DEF Gated, BatchShape, BatchFields

LEMMA PermitLoop == LoopInv /\ Permit => Beside'
<1> SUFFICES ASSUME LoopInv, Permit PROVE Beside'
  OBVIOUS
<1>1. /\ pc = "perm" /\ todo = <<>> /\ UNCHANGED <<state, resume, remaining, loop, result>>
  BY DEF Permit, Ready, fsmVars
<1>2. batch.at \in DOMAIN batch.slots
  BY <1>1, Judgement DEF Slots
<1>3. CASE /\ batch' = [Gated(batch, "allow") EXCEPT !.perm = @ + 1]
           /\ pc' = "perm" /\ todo' = <<>>
  <2> DEFINE b == Gated(batch, "allow")
  <2>1. /\ DOMAIN b = BatchFields /\ b.calls = batch.calls
        /\ b.approved = batch.approved /\ b.at = batch.at /\ b.slots = batch.slots
    BY GatedParts
  <2>2. batch' = [b EXCEPT !.perm = @ + 1]
    BY <1>3
  <2> HIDE DEF b
  <2>3. /\ batch'.calls = batch.calls /\ batch'.approved = batch.approved
        /\ batch'.at = batch.at /\ batch'.slots = batch.slots
    BY <2>1, <2>2 DEF BatchFields
  <2> QED BY <1>1, <1>2, <1>3, <2>3, PassesLoop
<1>4. CASE Rejected(Gated(batch, "deny"), <<>>)
  <2> DEFINE b == Gated(batch, "deny")
  <2>1. /\ DOMAIN b = BatchFields /\ b.calls = batch.calls
        /\ b.approved = batch.approved /\ b.at = batch.at /\ b.slots = batch.slots
    BY GatedParts
  <2>2. Rejected(b, <<>>)
    BY <1>4
  <2> HIDE DEF b
  <2> QED BY <1>1, <1>2, <2>1, <2>2, RejectsLoop
<1>5. CASE /\ pc' = "confirm" /\ todo' = <<AgentEvent("ConfirmationRequired")>>
           /\ batch' = batch
  <2>1. Stands(pc', todo', state', loop'.iteration)
    BY <1>1, <1>5, Found DEF Stands, Labels
  <2>2. Resumes' /\ LoopTyped' /\ Outstanding' /\ Slots'
    BY <1>1, <1>2, <1>5, BatchSide, NoneOutstanding, JudgeSlots
  <2> QED BY <2>1, <2>2 DEF Beside
<1> QED BY <1>3, <1>4, <1>5 DEF Permit, GoTo

LEMMA ConfirmLoop == LoopInv /\ Confirm => Beside'
<1> SUFFICES ASSUME LoopInv, Confirm PROVE Beside'
  OBVIOUS
<1>1. /\ pc = "confirm" /\ todo = <<>> /\ UNCHANGED <<state, resume, remaining, loop, result>>
  BY DEF Confirm, Ready, fsmVars
<1>2. batch.at \in DOMAIN batch.slots /\ state = "AwaitingConfirmation"
  BY <1>1, Judgement, Found DEF Slots, Stands
<1>3. CASE /\ batch' = [Gated(batch, "deny") EXCEPT !.slots[batch.at] = "rejected", !.at = @ + 1]
           /\ pc' = "gate" /\ todo' = <<AgentEvent("TextDelta"), ToolCallCompleted(FALSE)>>
  <2> DEFINE b == Gated(batch, "deny")
  <2>1. /\ DOMAIN b = BatchFields /\ b.calls = batch.calls
        /\ b.approved = batch.approved /\ b.at = batch.at /\ b.slots = batch.slots
    BY GatedParts
  <2>2. batch' = [b EXCEPT !.slots[batch.at] = "rejected", !.at = @ + 1]
    BY <1>3
  <2> HIDE DEF b
  <2>3. /\ batch'.calls = batch.calls /\ batch'.approved = batch.approved
        /\ batch'.at = batch.at + 1
        /\ batch'.slots = [batch.slots EXCEPT ![batch.at] = "rejected"]
    BY <2>1, <2>2 DEF BatchFields
  <2>4. Slots'
    BY <1>1, <1>2, <1>3, <2>3, RejectSlots
  <2>5. Stands(pc', todo', state', loop'.iteration)
    BY <1>1, <1>2, <1>3 DEF Stands, Labels, Rejection
  <2>6. Resumes' /\ LoopTyped' /\ Outstanding'
    BY <1>1, <1>3, BatchSide, NoneOutstanding
  <2> QED BY <2>4, <2>5, <2>6 DEF Beside
<1>4. CASE /\ batch' = [Gated(batch, "allow") EXCEPT !.perm = @ + 1]
           /\ pc' = "perm" /\ todo' = <<AgentEvent("TextDelta")>>
  <2> DEFINE b == Gated(batch, "allow")
  <2>1. /\ DOMAIN b = BatchFields /\ b.calls = batch.calls
        /\ b.approved = batch.approved /\ b.at = batch.at /\ b.slots = batch.slots
    BY GatedParts
  <2>2. batch' = [b EXCEPT !.perm = @ + 1]
    BY <1>4
  <2> HIDE DEF b
  <2>3. /\ batch'.calls = batch.calls /\ batch'.approved = batch.approved
        /\ batch'.at = batch.at /\ batch'.slots = batch.slots
    BY <2>1, <2>2 DEF BatchFields
  <2>4. Slots'
    BY <1>1, <1>2, <1>4, <2>3, JudgeSlots
  <2>5. Stands(pc', todo', state', loop'.iteration)
    BY <1>1, <1>2, <1>4 DEF Stands, Labels
  <2>6. Resumes' /\ LoopTyped' /\ Outstanding'
    BY <1>1, <1>4, BatchSide, NoneOutstanding
  <2> QED BY <2>4, <2>5, <2>6 DEF Beside
<1> QED BY <1>3, <1>4 DEF Confirm, GoTo

\* One more call is approved.
LEMMA ApprovedGrows ==
  ASSUME NEW a \in Nat, batch.approved \in Seq(Nat), batch'.approved = Append(batch.approved, a)
  PROVE  ApprovedCalls' = ApprovedCalls \cup {a}
<1> DEFINE s == batch.approved
           R(t) == {t[k] : k \in DOMAIN t}
<1>1. s \in Seq(Nat)
  OBVIOUS
<1> HIDE DEF s
<1>2. R(Append(s, a)) = R(s) \cup {a}
  <2>1. /\ Append(s, a) \in Seq(Nat) /\ Len(Append(s, a)) = Len(s) + 1
        /\ \A k \in 1..Len(s) : Append(s, a)[k] = s[k]
        /\ Append(s, a)[Len(s) + 1] = a
    BY <1>1
  <2>2. DOMAIN s = 1..Len(s) /\ DOMAIN Append(s, a) = 1..(Len(s) + 1) /\ Len(s) \in Nat
    BY <1>1
  <2>3. \A k : k \in 1..(Len(s) + 1) <=> k \in 1..Len(s) \/ k = Len(s) + 1
    BY <2>2
  <2> QED BY <1>1, <2>1, <2>2, <2>3
<1> QED BY <1>2 DEF ApprovedCalls, s

LEMMA ApproveLoop == LoopInv /\ Approve => Beside'
<1> SUFFICES ASSUME LoopInv, Approve PROVE Beside'
  OBVIOUS
<1>1. /\ pc = "perm" /\ todo = <<>> /\ pc' = "gate" /\ todo' = <<>>
      /\ UNCHANGED <<state, resume, remaining, loop, result>>
  BY DEF Approve, Ready, GoTo, fsmVars
<1>2. /\ batch'.calls = batch.calls /\ batch'.slots = batch.slots
      /\ batch'.approved = Append(batch.approved, batch.at) /\ batch'.at = batch.at + 1
  BY Judgement DEF Approve, BatchShape, BatchFields
<1>3. Stands(pc', todo', state', loop'.iteration)
  BY <1>1, Found DEF Stands, Labels
<1>4. Resumes' /\ LoopTyped' /\ Outstanding'
  BY <1>1, BatchSide, NoneOutstanding
<1>5. Slots'
  <2>1. ApprovedCalls' = ApprovedCalls \cup {batch.at} /\ batch.at \in DOMAIN batch.slots
    BY <1>1, <1>2, Judgement, ApprovedGrows DEF Slots
  <2>2. ASSUME NEW i \in DOMAIN batch.slots, i < batch.at + 1
        PROVE  batch.slots[i] # "empty" \/ i \in ApprovedCalls'
    <3>1. i < batch.at \/ i = batch.at
      BY <2>2, Judgement
    <3> QED BY <1>1, <2>1, <3>1, Judgement DEF Slots, Filled
  <2> QED BY <1>1, <1>2, <2>1, <2>2, Judgement DEF Slots, Filled
<1> QED BY <1>3, <1>4, <1>5 DEF Beside

LEMMA DispatchLoop == LoopInv /\ Dispatch => Beside'
<1> SUFFICES ASSUME LoopInv, Dispatch PROVE Beside'
  OBVIOUS
<1>1. /\ pc = "gate" /\ todo = <<>> /\ batch.at > Len(batch.calls) /\ batch' = batch
      /\ UNCHANGED <<state, resume, remaining, loop, result>>
      /\ pc' = IF batch.approved = <<>> THEN "append" ELSE "launch"
      /\ todo' = [k \in DOMAIN batch.approved |-> AgentEvent("ToolCallDispatched")]
  BY DEF Dispatch, Ready, GoTo, fsmVars
<1>2. state = "Thinking"
  BY <1>1, Found DEF Stands
<1>3. /\ todo' \in Seq({AgentEvent("ToolCallDispatched")})
      /\ batch.approved = <<>> <=> todo' = <<>>
  <2> DEFINE n == Len(batch.approved)
             sent == AgentEvent("ToolCallDispatched")
  <2>1. n \in Nat /\ DOMAIN batch.approved = 1..n /\ (batch.approved = <<>> <=> n = 0)
    BY Judgement
  <2>2. todo' = [k \in 1..n |-> sent]
    BY <1>1, <2>1
  <2> HIDE DEF n, sent
  <2>3. todo' \in Seq({sent}) /\ Len(todo') = n
    BY <2>1, <2>2
  <2>4. todo' = <<>> <=> n = 0
    BY <2>3
  <2> QED BY <2>1, <2>3, <2>4 DEF sent
<1>4. Stands(pc', todo', state', loop'.iteration)
  BY <1>1, <1>2, <1>3 DEF Stands, Labels
<1>5. Resumes' /\ LoopTyped' /\ Outstanding'
  BY <1>1, BatchSide, NoneOutstanding
<1>6. \A i \in DOMAIN batch.slots : Filled(i) \/ i \in ApprovedCalls
  <2> SUFFICES ASSUME NEW i \in DOMAIN batch.slots PROVE Filled(i) \/ i \in ApprovedCalls
    OBVIOUS
  <2>1. i < batch.at
    BY <1>1, Judgement
  <2> QED BY <1>1, <2>1, Judgement DEF Slots
<1>7. batch.approved = <<>> => ApprovedCalls = {}
  BY DEF ApprovedCalls
<1>8. Slots'
  BY <1>1, <1>6, <1>7, Judgement DEF Slots, ApprovedCalls, Filled, MissingSlot
<1> QED BY <1>4, <1>5, <1>8 DEF Beside

LEMMA LaunchLoop == LoopInv /\ Launch => Beside'
<1> SUFFICES ASSUME LoopInv, Launch PROVE Beside'
  OBVIOUS
<1>1. /\ pc = "launch" /\ todo = <<>> /\ pc' = "execute" /\ todo' = <<>> /\ batch' = batch
      /\ UNCHANGED <<state, resume, loop, result>> /\ remaining' = Len(batch.approved)
  BY DEF Launch, Ready, GoTo
<1>2. Stands(pc', todo', state', loop'.iteration)
  BY <1>1, Found DEF Stands, Labels
<1>3. Resumes' /\ LoopTyped' /\ Outstanding'
  BY <1>1, BatchSide DEF Outstanding
<1>4. Slots'
  BY <1>1, Judgement DEF Slots, ApprovedCalls, Filled
<1> QED BY <1>2, <1>3, <1>4 DEF Beside

LEMMA ToolReturnsLoop == ASSUME LoopInv, NEW i \in running, ToolReturns(i) PROVE Beside'
<1>1. /\ pc = "execute" /\ UNCHANGED <<pc, todo, state, resume, remaining, loop, result>>
  BY DEF ToolReturns, Ready, fsmVars
<1>2. /\ batch'.calls = batch.calls /\ batch'.slots = batch.slots
      /\ batch'.approved = batch.approved /\ batch'.at = batch.at
  <2> PICK output : batch' = [batch EXCEPT !.outputs[i] = output]
    BY DEF ToolReturns
  <2> QED BY Judgement DEF BatchShape, BatchFields
<1>3. Stands(pc', todo', state', loop'.iteration)
  BY <1>1, Found
<1>4. Resumes' /\ LoopTyped' /\ Outstanding'
  BY <1>1, <1>2, BatchSide DEF LoopInv, Outstanding
<1>5. Slots'
  BY <1>1, <1>2, Judgement DEF Slots, ApprovedCalls, Filled
<1> QED BY <1>3, <1>4, <1>5 DEF Beside

LEMMA CollectLoop == LoopInv /\ Collect => Beside'
<1> SUFFICES ASSUME LoopInv, Collect PROVE Beside'
  OBVIOUS
<1>1. /\ pc = "execute" /\ todo = <<>> /\ pc' = "collect" /\ todo' = <<>>
      /\ UNCHANGED <<state, resume, remaining, loop, result>>
  BY DEF Collect, Ready, GoTo, fsmVars
<1>2. /\ batch'.calls = batch.calls /\ batch'.slots = batch.slots
      /\ batch'.approved = batch.approved /\ batch'.at = 1
  BY Judgement DEF Collect, BatchShape, BatchFields
<1>3. Len(batch.approved) \in Nat \ {0} /\ DOMAIN batch.approved = 1..Len(batch.approved)
  BY <1>1, Judgement DEF Slots
<1>4. Stands(pc', todo', state', loop'.iteration)
  BY <1>1 DEF Stands, Labels
<1>5. Resumes' /\ LoopTyped'
  BY <1>1, BatchSide
<1>6. Outstanding'
  <2>1. remaining = Len(batch.approved) /\ state = "ToolExecution"
    BY <1>1, Found DEF LoopInv, Outstanding, Stands
  <2>2. Len(todo') = 0
    BY <1>1
  <2>3. remaining' = Len(batch'.approved) - batch'.at + 1 + Len(todo')
    BY <1>1, <1>2, <1>3, <2>1, <2>2
  <2> QED BY <1>1, <1>3, <2>1, <2>3 DEF Outstanding
<1>7. Slots'
  <2>1. \A k \in DOMAIN batch.approved : ~(k < 1)
    BY <1>3
  <2>2. 1 <= Len(batch.approved) + 1
    BY <1>3
  <2> QED BY <1>1, <1>2, <2>1, <2>2, Judgement DEF Slots, ApprovedCalls, Filled
<1> QED BY <1>4, <1>5, <1>6, <1>7 DEF Beside

\* The next result is there, and the state machine is told.
LEMMA CompletesLoop ==
  ASSUME LoopInv, pc \in {"collect", "answer"}, todo = <<>>, batch.at <= Len(batch.approved),
         NEW success \in BOOLEAN, Completed(batch, batch.approved[batch.at], success),
         UNCHANGED <<state, resume, remaining, loop, result>>
  PROVE  Beside'
<1> DEFINE i == batch.approved[batch.at]
<1>1. /\ pc' = "collect" /\ todo' = <<ToolCallCompleted(success)>>
      /\ batch' = [batch EXCEPT !.slots[i] = IF success THEN "success" ELSE "error", !.at = @ + 1]
  BY DEF Completed, GoTo
<1>2. PICK word : /\ word # "empty" /\ batch'.slots = [batch.slots EXCEPT ![i] = word]
                  /\ batch'.calls = batch.calls /\ batch'.approved = batch.approved
                  /\ batch'.at = batch.at + 1
  <2>1. "success" # "empty" /\ "error" # "empty"
    OBVIOUS
  <2> QED BY <1>1, <2>1, Judgement DEF BatchShape, BatchFields
<1>3. batch.at \in DOMAIN batch.approved /\ i \in DOMAIN batch.slots
  BY Judgement DEF Slots, ApprovedCalls
<1>4. ApprovedCalls' = ApprovedCalls
  BY <1>2 DEF ApprovedCalls
<1>5. \A j \in DOMAIN batch.slots :
        /\ batch'.slots[i] # "empty"
        /\ Filled(j) => batch'.slots[j] # "empty"
  BY <1>2, <1>3 DEF Filled
<1>6. ASSUME NEW k \in DOMAIN batch.approved, k < batch.at + 1
      PROVE  batch'.slots[batch.approved[k]] # "empty"
  <2>1. k < batch.at \/ k = batch.at
    BY <1>6, Judgement
  <2>2. batch.approved[k] \in DOMAIN batch.slots
    BY Judgement DEF Slots, ApprovedCalls
  <2> QED BY <1>3, <1>5, <2>1, <2>2, Judgement DEF Slots
<1>7. Slots'
  <2>1. batch'.at <= Len(batch'.approved) + 1 /\ batch'.approved # <<>>
    BY <1>2, Judgement DEF Slots
  <2> QED BY <1>1, <1>2, <1>4, <1>5, <1>6, <2>1, Judgement DEF Slots, Filled
<1>8. Len(batch.approved) \in Nat /\ remaining = Len(batch.approved) - batch.at + 1
  <2>1. Len(todo) = 0
    OBVIOUS
  <2>2. Len(batch.approved) - batch.at + 1 \in Nat
    BY Judgement
  <2> QED BY <2>1, <2>2, Judgement DEF LoopInv, Outstanding
<1>9. remaining # 0
  BY <1>8, Judgement
<1>10. Outstanding'
  <2>1. state = "ToolExecution"
    BY <1>9, Found DEF LoopInv, Outstanding, Stands
  <2>2. Len(todo') = 1
    BY <1>1
  <2>3. remaining' = Len(batch'.approved) - batch'.at + 1 + Len(todo')
    BY <1>2, <1>8, <2>2, Judgement
  <2> QED BY <1>1, <1>9, <2>1, <2>3 DEF Outstanding
<1>11. Stands(pc', todo', state', loop'.iteration)
  BY <1>1 DEF Stands, Labels
<1>12. Resumes' /\ LoopTyped'
  BY <1>1, BatchSide
<1> QED BY <1>7, <1>10, <1>11, <1>12 DEF Beside

LEMMA CollectNextLoop == LoopInv /\ (CollectNext \/ Answer) => Beside'
<1> SUFFICES ASSUME LoopInv, CollectNext \/ Answer PROVE Beside'
  OBVIOUS
<1>1. /\ pc \in {"collect", "answer"} /\ todo = <<>>
      /\ UNCHANGED <<state, resume, remaining, loop, result>>
      /\ batch.at <= Len(batch.approved)
  BY Judgement DEF CollectNext, Answer, Ready, fsmVars, Slots
<1>2. ASSUME NEW success \in BOOLEAN, Completed(batch, batch.approved[batch.at], success)
      PROVE  Beside'
  BY <1>1, <1>2, CompletesLoop
<1>3. CASE /\ pc = "collect" /\ pc' = "answer" /\ batch' = batch
           /\ todo' = <<AgentEvent("QuestionRequired")>>
  <2>1. Len(batch.approved) \in Nat /\ remaining = Len(batch.approved) - batch.at + 1
    <3>1. Len(todo) = 0
      BY <1>1
    <3>2. Len(batch.approved) - batch.at + 1 \in Nat
      BY <1>1, Judgement
    <3> QED BY <1>3, <3>1, <3>2, Judgement DEF LoopInv, Outstanding
  <2>2. remaining # 0
    BY <1>1, <2>1, Judgement
  <2>3. state = "ToolExecution"
    BY <1>3, <2>2 DEF LoopInv, Outstanding
  <2>4. Stands(pc', todo', state', loop'.iteration)
    BY <1>1, <1>3, <2>3 DEF Stands, Labels
  <2>5. Resumes' /\ LoopTyped'
    BY <1>1, <1>3, BatchSide
  <2>6. Outstanding'
    BY <1>1, <1>3, <2>1 DEF Outstanding
  <2>7. Slots'
    BY <1>1, <1>3, Judgement DEF Slots, ApprovedCalls, Filled
  <2> QED BY <2>4, <2>5, <2>6, <2>7 DEF Beside
<1>4. CASE CollectNext
  <2>1. \/ \E success \in BOOLEAN : Completed(batch, batch.approved[batch.at], success)
        \/ GoTo("answer", <<AgentEvent("QuestionRequired")>>) /\ batch' = batch
    BY <1>4 DEF CollectNext
  <2> QED BY <1>2, <1>3, <1>4, <2>1 DEF GoTo, CollectNext, Ready
<1>5. CASE Answer
  BY <1>2, <1>5 DEF Answer
<1> QED BY <1>4, <1>5

LEMMA CollectDoneLoop == LoopInv /\ CollectDone => Beside'
<1> SUFFICES ASSUME LoopInv, CollectDone PROVE Beside'
  OBVIOUS
<1>1. /\ pc = "collect" /\ todo = <<>> /\ pc' = "append" /\ todo' = <<>> /\ batch' = batch
      /\ UNCHANGED <<state, resume, remaining, loop, result>>
      /\ batch.at > Len(batch.approved)
  BY DEF CollectDone, Ready, GoTo, fsmVars
<1>2. Len(batch.approved) \in Nat /\ batch.at = Len(batch.approved) + 1
  BY <1>1, Judgement DEF Slots
<1>3. remaining = 0 /\ state = "Thinking"
  <2>1. Len(todo) = 0
    BY <1>1
  <2>2. Len(batch.approved) - batch.at + 1 + Len(todo) = 0
    BY <1>2, <2>1
  <2> QED BY <1>1, <2>2 DEF LoopInv, Outstanding
<1>4. Stands(pc', todo', state', loop'.iteration)
  BY <1>1, <1>3 DEF Stands, Labels
<1>5. Resumes' /\ LoopTyped' /\ Outstanding'
  BY <1>1, <1>3, BatchSide DEF Outstanding
<1>6. Slots'
  <2>1. \A k \in DOMAIN batch.approved : k < batch.at
    BY <1>2, Judgement
  <2>2. \A i \in DOMAIN batch.slots : Filled(i)
    BY <1>1, <2>1, Judgement DEF Slots, ApprovedCalls
  <2>3. ~MissingSlot
    BY <2>2 DEF MissingSlot, Filled
  <2> QED BY <1>1, <2>3, Judgement DEF Slots, ApprovedCalls, MissingSlot
<1> QED BY <1>4, <1>5, <1>6 DEF Beside

LEMMA LeavesLoop == LoopInv /\ (AppendResults \/ ConfirmImpossible \/ AnswerImpossible) => Beside'
<1> SUFFICES ASSUME LoopInv, AppendResults \/ ConfirmImpossible \/ AnswerImpossible
             PROVE  Beside'
  OBVIOUS
<1>1. /\ pc \in {"append", "confirm", "answer"} /\ todo = <<>>
      /\ UNCHANGED <<state, resume, batch, loop, result>>
  BY DEF AppendResults, ConfirmImpossible, AnswerImpossible, Ready
<1>2. \/ pc = "append" /\ pc' = "after" /\ todo' = <<>> /\ remaining' = remaining
      \/ /\ pc' = "fail" /\ todo' = <<ErrorEvent("SessionFailed")>> /\ remaining' = 0
         /\ pc # "append"
  BY <1>1, Judgement DEF AppendResults, ConfirmImpossible, AnswerImpossible, FailBatch, GoTo,
                         Ready, Slots
<1>3. Stands(pc', todo', state, loop.iteration)
  BY <1>1, <1>2, Found DEF Stands, Labels
<1> QED BY <1>1, <1>2, <1>3, Sidestep, Found DEF InBatch

LEMMA CallerLoop == LoopInv /\ (Interrupt \/ CloseChannel \/ UNCHANGED vars) => Beside'
<1> SUFFICES ASSUME LoopInv, Interrupt \/ CloseChannel \/ UNCHANGED vars PROVE Beside'
  OBVIOUS
<1>1. UNCHANGED <<state, resume, remaining, pc, todo, loop, batch, running, result>>
  BY DEF Interrupt, CloseChannel, vars, fsmVars
<1> QED BY <1>1, SlotsSame DEF LoopInv, Beside, Resumes, LoopTyped, Outstanding

LEMMA InitLoop == Init => LoopInv
<1> SUFFICES ASSUME Init PROVE LoopInv
  OBVIOUS
<1>1. /\ state = "Idle" /\ resume = "none" /\ remaining = 0 /\ pc = "idle" /\ todo = <<>>
      /\ result = "none" /\ batch = NewBatch(<<>>)
      /\ loop.iteration = 0 /\ ~loop.budget_stop
      /\ DOMAIN loop = {"iteration", "continuations", "summaries", "budget_stop", "stop"}
  BY DEF Init
<1>2. Stands(pc, todo, state, loop.iteration)
  BY <1>1 DEF Stands, Labels
<1>3. Resumes /\ LoopTyped /\ Outstanding
  BY <1>1 DEF Resumes, LoopTyped, Outstanding
<1>4. Slots
  <2>1. Len(<<>>) = 0 /\ DOMAIN <<>> = 1..Len(<<>>) /\ Len(<<>>) \in Nat
    OBVIOUS
  <2>2. /\ batch.calls = <<>> /\ batch.approved = <<>> /\ DOMAIN batch.slots = DOMAIN <<>>
    BY <1>1 DEF NewBatch
  <2>3. ApprovedCalls = {}
    BY <2>2 DEF ApprovedCalls
  <2> QED BY <1>1, <2>1, <2>2, <2>3 DEF Slots
<1> QED BY <1>2, <1>3, <1>4, InitInv DEF LoopInv

LEMMA NextLoop == LoopInv /\ [Next]_vars => LoopInv'
<1> SUFFICES ASSUME LoopInv, [Next]_vars PROVE LoopInv'
  OBVIOUS
<1>1. Inv'
  BY NextInv DEF LoopInv
<1>2. CASE RunSteps
  BY <1>2, ApplyEventLoop, LoopTopLoop, OutsideLoop, ComposeLoop, SummarizeLoop, AsksLoop,
     EndsLoop, AfterLoop, StartBatchLoop, GateLoop, PermitLoop, ApproveLoop, DispatchLoop,
     LaunchLoop, CollectLoop, CollectNextLoop, CollectDoneLoop, LeavesLoop, <1>1
     DEF RunSteps, Beside, LoopInv
<1>3. CASE UserReplies
  BY <1>1, <1>3, ConfirmLoop, CollectNextLoop DEF UserReplies, Beside, LoopInv
<1>4. CASE \/ StreamItem \/ StreamEnds \/ prepare_for_new_user_turn
           \/ Interrupt \/ CloseChannel \/ UNCHANGED vars
  BY <1>1, <1>4, AsksLoop, StreamEndsLoop, PrepareLoop, CallerLoop DEF Beside, LoopInv
<1>5. CASE \E i \in running : ToolReturns(i)
  BY <1>1, <1>5, ToolReturnsLoop DEF Beside, LoopInv
<1> QED BY <1>2, <1>3, <1>4, <1>5 DEF Next

\* Each step of run is reached in a state that the tables provide for, with the
\* calls counted that have no result yet.
THEOREM LoopInvariant == Spec => []LoopInv
<1>1. Init => LoopInv
  BY InitLoop
<1>2. LoopInv /\ [Next]_vars => LoopInv'
  BY NextLoop
<1> QED BY <1>1, <1>2, PTL DEF Spec

\* Whatever the tools, the policy modes, the messages, the replies and the
\* bounds: validate_transition accepts every event that run emits and
\* next_state_after has a state for it, no call of a batch is without a result
\* when the results are appended, and every completion is asked for in Planning
\* or Thinking with no call outstanding and no summarization pending.
THEOREM LoopSound == Spec => []LoopStateSound
<1>1. LoopInv => LoopStateSound
  <2> SUFFICES ASSUME LoopInv PROVE LoopStateSound
    OBVIOUS
  <2>1. Ready("append") => ~MissingSlot
    BY Judgement DEF Slots, Ready
  <2>2. ASSUME Ready("complete")
        PROVE  /\ state \in {"Planning", "Thinking"}
               /\ remaining = 0 /\ resume = "none" /\ running = {}
               /\ loop.iteration > 0 => state = "Thinking"
    <3>1. pc = "complete" /\ state \in Working(loop.iteration) /\ loop.iteration \in Nat
      BY <2>2, Found DEF Ready, Stands
    <3>2. /\ state \in {"Planning", "Thinking"}
          /\ loop.iteration > 0 => state = "Thinking"
      BY <3>1 DEF Working
    <3>3. remaining = 0 /\ resume = "none" /\ running = {}
      BY <3>1, <3>2 DEF LoopInv, Outstanding, Resumes, Inv, Stages
    <3> QED BY <3>2, <3>3
  <2> QED BY <2>1, <2>2, Found DEF LoopStateSound
<1> QED BY <1>1, LoopInvariant, PTL

(***************************************************************************)
(* The journal of messages.                                                *)
(***************************************************************************)
Logged == {"model_calls", "messages", "assistant_turns"}

\* The step journals nothing and brings no message.
LEMMA TurnsKept ==
  ASSUME TurnsCounted, pc # "idle" \/ pc' = "idle",
         log'.messages = log.messages, log'.assistant_turns = log.assistant_turns,
         DOMAIN log' = DOMAIN log,
         \/ pc' \in Handling <=> pc \in Handling
         \/ pc' = "fail" \/ pc' = "idle",
         pc' \notin Handling \cup {"fail", "idle"} => pc \notin {"fail", "idle"},
         pc' \in Handling => pc \notin {"fail", "idle"},
         pc' = "idle" /\ result' \in {"Completed", "BudgetLimit"} =>
           pc \notin Handling \cup {"fail"} /\ (pc = "idle" => result' = result)
  PROVE  TurnsCounted'
<1>1. log.messages \in Nat /\ log.assistant_turns \in Nat
  BY DEF TurnsCounted
<1>2. pc \in Handling => log.messages - log.assistant_turns = 1
  BY <1>1 DEF TurnsCounted
<1>3. log.messages = log.assistant_turns => log.messages - log.assistant_turns = 0
  BY <1>1
<1> QED BY <1>1, <1>2, <1>3 DEF TurnsCounted, Handling

\* A message without AssistantTurn gets it.
LEMMA TurnJournaled ==
  ASSUME TurnsCounted, pc \in Handling, pc' \notin Handling,
         log' = [log EXCEPT !.assistant_turns = @ + 1]
  PROVE  TurnsCounted'
<1>1. /\ log.messages \in Nat /\ log.assistant_turns \in Nat /\ DOMAIN log = Logged
      /\ log.messages = log.assistant_turns + 1
  BY DEF TurnsCounted, Logged
<1>2. /\ DOMAIN log' = Logged /\ log'.messages = log.messages
      /\ log'.assistant_turns = log.assistant_turns + 1
  BY <1>1 DEF Logged
<1>3. /\ log'.messages \in Nat /\ log'.assistant_turns \in Nat
      /\ log'.messages = log'.assistant_turns /\ log'.messages - log'.assistant_turns = 0
  BY <1>1, <1>2
<1> QED BY <1>2, <1>3 DEF TurnsCounted, Logged

LEMMA NextTurns == TurnsCounted /\ [Next]_vars => TurnsCounted'
<1> SUFFICES ASSUME TurnsCounted, [Next]_vars PROVE TurnsCounted'
  OBVIOUS
<1>1. CASE apply_event
  <2>1. log' = log /\ (pc' = pc \/ pc' = "idle") /\ todo # <<>>
    BY <1>1 DEF apply_event, Return
  <2>2. CASE pc' = "idle" /\ result' \in {"InvalidTransition", "SessionFailed"}
    BY <2>1, <2>2, TurnsKept DEF Handling
  <2>3. CASE pc' = pc /\ result' = result
    BY <2>1, <2>3 DEF TurnsCounted
  <2> QED BY <1>1, <2>2, <2>3 DEF apply_event, Return
<1>2. CASE prepare_for_new_user_turn
  <2>1. CASE pc = "idle" /\ pc' = "idle" /\ result' = "refused" /\ log' = log
    BY <2>1, TurnsKept DEF Handling
  <2>2. CASE /\ log' = [model_calls |-> 0, messages |-> 0, assistant_turns |-> 0]
             /\ pc' \in {"top", "idle"}
    <3>1. /\ DOMAIN log' = Logged /\ log'.messages = 0 /\ log'.assistant_turns = 0
          /\ 0 - 0 = 0 /\ 0 \in Nat
      BY <2>2 DEF Logged
    <3> QED BY <2>2, <3>1 DEF TurnsCounted, Logged, Handling
  <2> QED BY <1>2, <2>1, <2>2 DEF prepare_for_new_user_turn, Return, GoTo
<1>3. CASE LoopTop \/ Compose \/ Summarize \/ After
  <2>1. /\ pc \in {"top", "compose", "summarize", "after"} /\ log' = log
        /\ \/ pc' \in {"budget", "compose", "summarize", "complete", "fail", "interrupted", "top"}
           \/ pc' = "idle" /\ result' \notin {"Completed", "BudgetLimit"}
    BY <1>3 DEF LoopTop, Compose, Summarize, After, Ready, GoTo, Return
  <2> QED BY <2>1, TurnsKept DEF Handling
<1>4. CASE BudgetStop \/ Fail \/ Interrupted
  <2>1. /\ log' = log /\ pc' = "idle"
        /\ \/ pc \in {"budget", "interrupted"}
           \/ pc = "fail" /\ result' = "failed"
    BY <1>4 DEF BudgetStop, Fail, Interrupted, Ready, Return
  <2> QED BY <2>1, TurnsKept DEF Handling
<1>5. CASE Complete
  <2>1. pc = "complete" /\ pc' \in {"stream", "fail"}
        /\ log' = [log EXCEPT !.model_calls = @ + 1]
    BY <1>5 DEF Complete, Ready, GoTo
  <2>2. /\ DOMAIN log' = DOMAIN log /\ log'.messages = log.messages
        /\ log'.assistant_turns = log.assistant_turns
    BY <2>1 DEF TurnsCounted
  <2> QED BY <2>1, <2>2, TurnsKept DEF Handling
<1>6. CASE StreamItem
  <2>1. log' = log /\ pc = "stream" /\ pc' = "stream"
    BY <1>6 DEF StreamItem, Ready, GoTo
  <2> QED BY <2>1, TurnsKept DEF Handling
<1>7. CASE StreamEnds
  <2>1. CASE pc = "stream" /\ pc' = "fail" /\ log' = log
    BY <2>1, TurnsKept DEF Handling
  <2>2. CASE pc = "stream" /\ pc' = "done" /\ log' = [log EXCEPT !.messages = @ + 1]
    <3>1. /\ log.messages \in Nat /\ log.assistant_turns \in Nat /\ DOMAIN log = Logged
          /\ log.messages = log.assistant_turns
      BY <2>2 DEF TurnsCounted, Handling, Logged
    <3>2. /\ DOMAIN log' = Logged /\ log'.messages = log.messages + 1
          /\ log'.assistant_turns = log.assistant_turns
      BY <2>2, <3>1 DEF Logged
    <3>3. log'.messages \in Nat /\ log'.messages = log'.assistant_turns + 1
      BY <3>1, <3>2
    <3> QED BY <2>2, <3>1, <3>2, <3>3 DEF TurnsCounted, Logged, Handling
  <2> QED BY <1>7, <2>1, <2>2 DEF StreamEnds, Ready, GoTo
<1>8. CASE Truncated \/ Final \/ StartBatch
  <2>1. /\ log' = log /\ pc = "done" /\ pc' \in {"continued", "finish", "fail", "gate"}
    BY <1>8 DEF Truncated, Final, StartBatch, Ready, GoTo
  <2> QED BY <2>1, TurnsKept DEF Handling
<1>9. CASE Continued \/ Finish
  <2>1. /\ log' = [log EXCEPT !.assistant_turns = @ + 1]
        /\ pc \in {"continued", "finish"} /\ pc' \in {"top", "idle"}
    BY <1>9 DEF Continued, Finish, Ready, GoTo, Return
  <2> QED BY <2>1, TurnJournaled DEF Handling
<1>10. CASE AppendResults
  <2>1. CASE /\ pc = "append" /\ pc' = "after" /\ log' = [log EXCEPT !.assistant_turns = @ + 1]
    BY <2>1, TurnJournaled DEF Handling
  <2>2. CASE pc = "append" /\ pc' = "fail" /\ log' = log
    BY <2>2, TurnsKept DEF Handling
  <2> QED BY <1>10, <2>1, <2>2 DEF AppendResults, FailBatch, Ready, GoTo
<1>11. CASE \/ Gate \/ Permit \/ Approve \/ Confirm \/ ConfirmImpossible \/ Dispatch
            \/ Launch \/ Collect \/ CollectNext \/ Answer \/ AnswerImpossible \/ CollectDone
            \/ \E i \in running : ToolReturns(i)
  <2>1. log' = log /\ pc \in Handling /\ pc' \in Handling \cup {"fail"}
    BY <1>11 DEF Gate, Permit, Approve, Confirm, ConfirmImpossible, Dispatch, Launch, Collect,
                 CollectNext, Answer, AnswerImpossible, CollectDone, ToolReturns, Rejected,
                 Completed, FailBatch, Ready, GoTo, Handling
  <2> QED BY <2>1, TurnsKept DEF Handling
<1>12. CASE Interrupt \/ CloseChannel \/ UNCHANGED vars
  <2>1. UNCHANGED <<log, pc, result>>
    BY <1>12 DEF Interrupt, CloseChannel, vars
  <2> QED BY <2>1 DEF TurnsCounted
<1> QED BY <1>1, <1>2, <1>3, <1>4, <1>5, <1>6, <1>7, <1>8, <1>9, <1>10, <1>11, <1>12
        DEF Next, RunSteps, UserReplies

\* A message of the model is followed by its AssistantTurn before the next
\* completion is asked for and before run returns successfully; a run that fails
\* leaves the last one at most without (MAX_CONTINUATIONS, the interrupt and the
\* budget included).
THEOREM TurnsJournaled == Spec => []MessagesJournaled
<1>1. Init => TurnsCounted
  <2> SUFFICES ASSUME Init PROVE TurnsCounted
    OBVIOUS
  <2>1. /\ pc = "idle" /\ DOMAIN log = Logged /\ log.messages = 0 /\ log.assistant_turns = 0
        /\ 0 - 0 = 0 /\ 0 \in Nat
    BY DEF Init, Logged
  <2> QED BY <2>1 DEF TurnsCounted, Logged, Handling
<1>2. TurnsCounted /\ [Next]_vars => TurnsCounted'
  BY NextTurns
<1>3. TurnsCounted => MessagesJournaled
  <2> SUFFICES ASSUME TurnsCounted PROVE MessagesJournaled
    OBVIOUS
  <2>1. log.messages \in Nat /\ log.assistant_turns \in Nat
    BY DEF TurnsCounted
  <2>2. log.messages - log.assistant_turns \in {0, 1}
    BY <2>1 DEF TurnsCounted
  <2>3. pc \in {"top", "compose", "complete"} => log.messages = log.assistant_turns
    BY DEF TurnsCounted, Handling
  <2> QED BY <2>2, <2>3 DEF MessagesJournaled, TurnsCounted
<1> QED BY <1>1, <1>2, <1>3, PTL DEF Spec
=============================================================================
