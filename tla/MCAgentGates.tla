---------------------------- MODULE MCAgentGates ----------------------------
(***************************************************************************)
(* Two machines in behaviours of their own: the gates between a tool call  *)
(* and its execution in one turn, under every policy mode (AgentSession),  *)
(* and the messages that a session keeps and sends over two turns          *)
(* (Conversation), which keeps the newest 2 messages from a summary, sends *)
(* a short model 3 and clears results older than the newest 3.             *)
(***************************************************************************)
EXTENDS MCAgentSession, Conversation

VARIABLE part

MCBackends ==
  {[wire |-> wire, short |-> FALSE] : wire \in {"anthropic", "openai"}}
    \cup {[wire |-> "ollama", short |-> TRUE]}

GatesRest == Init /\ mode = [name |-> "DenyAll"]
TalkRest == TalkInit /\ backend.short

PartsInit ==
  \/ part = "gates" /\ Init /\ TalkRest
  \/ part = "talk" /\ GatesRest /\ TalkInit

PartsNext ==
  \/ part = "gates" /\ Next /\ UNCHANGED talkVars /\ UNCHANGED part
  \/ part = "talk" /\ TalkNext /\ UNCHANGED vars /\ UNCHANGED part

PartsSpec == PartsInit /\ [][PartsNext]_<<part, vars, talkVars>>
=============================================================================
