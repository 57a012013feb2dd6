---------------------------- MODULE LlmSettings ----------------------------
(***************************************************************************)
(* Which provider a run uses: LlmConnectConfig::resolve over the settings  *)
(* of the command line, the environment and ~/.akmon/config.toml, and the  *)
(* account explain_provider_resolution gives of it (explain-provider, doctor, the  *)
(* JSON summary), with the user who then supplies what it asks for.        *)
(***************************************************************************)
EXTENDS Naturals, Sequences, FiniteSets

CONSTANTS
  Models,        \* model names: what the heuristics say of each, see ModelAssumption
  DefaultModel,  \* DEFAULT_CLI_MODEL
  StoredModels,  \* default_model in the config; NoModel for none
  NoModel,
  Hosts,         \* what a custom server's host is named after: a provider or "other"
                 \* (never "none", which stands here for no provider)
  MaxFlags,      \* bound: settings given on the command line or environment
  MaxStored      \* bound: settings found in the config

Keys == {"anthropic", "openrouter", "openai", "groq", "azure_endpoint", "azure_key",
         "url", "url_key"}

ASSUME ModelAssumption ==
  /\ Models \subseteq [claude : BOOLEAN, slash : BOOLEAN, openai : BOOLEAN,
                       groq : BOOLEAN, ollama : BOOLEAN]
  /\ DefaultModel \in Models /\ StoredModels \subseteq Models \cup {NoModel}
  /\ NoModel \notin Models
  /\ "none" \notin Hosts
  /\ MaxFlags \in Nat /\ MaxStored \in Nat

VARIABLES
  given,    \* the settings: [flags, stored, model, default_model, host, bedrock, env]
  trace,    \* the last ProviderResolutionTrace, and with it the outcome of resolve
  supplied  \* the branch for which the user supplied what it asked for, or 0

settingsVars == <<given, trace, supplied>>

(***************************************************************************)
(* llm_connect_from_cli: a blank value is none, a flag comes before the    *)
(* config; the default model on the command line gives way to the config's. *)
(***************************************************************************)
Has(name) == given.flags[name] = "set" \/ given.stored[name] = "set"

merged_cli_model ==
  IF given.model # DefaultModel \/ given.default_model = NoModel THEN given.model
  ELSE given.default_model

(***************************************************************************)
(* resolve: the branch that decides, with the provider or the error.       *)
(***************************************************************************)
AwsKey == given.env.AWS_ACCESS_KEY_ID = "set"
bedrock_branch_active == given.bedrock \/ AwsKey

\* BedrockBackend::from_env asks that the variables exist, blank or not.
from_env == {given.env[v] : v \in DOMAIN given.env} \cap {"none"} = {}

\* A custom server is named after its host (provider_slug_for_host).
custom == IF given.host = "other" THEN "openai_compatible" ELSE given.host

Applies(step) ==
  LET m == merged_cli_model
  IN  CASE step = 1 -> bedrock_branch_active
        [] step = 2 -> m.claude /\ ~m.slash
        [] step = 3 -> m.slash
        [] step = 4 -> Has("azure_endpoint") /\ Has("azure_key")
        [] step = 5 -> Has("openai") /\ m.openai
        [] step = 6 -> Has("groq") /\ m.groq
        [] step = 7 -> Has("url")
        [] step = 8 -> m.ollama
        [] step = 9 -> TRUE

\* The provider of a branch, or "none" when it fails.
Provider(step) ==
  CASE step = 1 -> IF from_env THEN "bedrock" ELSE "none"
    [] step = 2 -> IF Has("anthropic") THEN "anthropic"
                   ELSE IF Has("openrouter") THEN "openrouter" ELSE "none"
    [] step = 3 -> IF Has("openrouter") THEN "openrouter" ELSE "none"
    [] step = 4 -> "azure_openai"
    [] step = 5 -> "openai"
    [] step = 6 -> "groq"
    [] step = 7 -> IF Has("url_key") THEN custom ELSE "none"
    [] step \in {8, 9} -> "ollama"

resolve ==
  LET step == CHOOSE n \in 1..9 : Applies(n) /\ \A k \in 1..(n - 1) : ~Applies(k)
  IN  [ok |-> Provider(step) # "none", step |-> step, id |-> Provider(step)]

(***************************************************************************)
(* explain_provider_resolution.  It has no access to the branch resolve    *)
(* took and infers it from the name of the provider.                       *)
(***************************************************************************)
failure_step(outcome) == outcome.step

\* Mutant of success_step: a Claude model at OpenRouter is taken for a slash id.
SlashStep(id) ==
  CASE id = "bedrock" -> 1 [] id = "anthropic" -> 2 [] id = "openrouter" -> 3
    [] id = "azure_openai" -> 4 [] id = "openai" -> 5 [] id = "groq" -> 6
    [] id = "ollama" -> (IF merged_cli_model.ollama THEN 8 ELSE 9)
    [] OTHER -> 7

success_step(id) ==
  CASE id = "bedrock" -> 1
    [] id = "anthropic" -> 2
    [] id = "openrouter" ->
         (IF merged_cli_model.claude /\ ~merged_cli_model.slash THEN 2 ELSE 3)
    [] id = "azure_openai" -> 4
    [] id = "openai" -> 5
    [] id = "groq" -> 6
    [] id = "ollama" -> (IF merged_cli_model.ollama THEN 8 ELSE 9)
    [] OTHER -> 7

row_state(step, outcome) ==
  LET at == IF outcome.ok THEN success_step(outcome.id) ELSE failure_step(outcome)
  IN  CASE step < at -> (IF outcome.ok THEN "superseded" ELSE "skipped")
        [] step = at -> (IF outcome.ok THEN "matched" ELSE "failed_here")
        [] step > at -> "not_evaluated"

Candidate(provider, eligible, reason, missing) ==
  [provider |-> provider, eligible |-> eligible, reason |-> reason, missing |-> missing]
Selected(provider) == Candidate(provider, TRUE, "selected", {})
Unfit(provider) == Candidate(provider, FALSE, "not_applicable", {})
Missing(provider, reason, names) == Candidate(provider, FALSE, reason, names)
Passed(provider, state) == Candidate(provider, FALSE, state, {})

AwsNames == {"AWS_ACCESS_KEY_ID", "AWS_SECRET_ACCESS_KEY"}

candidate_bedrock(st) ==
  CASE st = "matched" /\ bedrock_branch_active /\ from_env -> Selected("bedrock")
    [] st = "failed_here" -> Missing("bedrock", "failed_here", AwsNames)
    [] st # "failed_here" /\ ~bedrock_branch_active -> Unfit("bedrock")
    [] st # "failed_here" /\ bedrock_branch_active /\ ~from_env ->
         Missing("bedrock", "incomplete", AwsNames)
    [] OTHER -> Passed("bedrock", st)

candidate_native_claude(st) ==
  LET applicable == merged_cli_model.claude /\ ~merged_cli_model.slash
      keys == {"anthropic", "openrouter"}
  IN  CASE ~applicable -> Unfit("native_claude")
        [] applicable /\ st = "matched" -> Selected("native_claude")
        [] applicable /\ st = "failed_here" -> Missing("native_claude", st, keys)
        [] applicable /\ st = "skipped" /\ \A k \in keys : ~Has(k) ->
             Missing("native_claude", "would_fail", keys)
        [] OTHER -> Passed("native_claude", st)

candidate_openrouter_slash(st) ==
  CASE ~merged_cli_model.slash -> Unfit("openrouter")
    [] merged_cli_model.slash /\ st = "matched" -> Selected("openrouter")
    [] merged_cli_model.slash /\ st = "failed_here" ->
         Missing("openrouter", st, {"openrouter"})
    [] merged_cli_model.slash /\ st = "skipped" /\ ~Has("openrouter") ->
         Missing("openrouter", "would_fail", {"openrouter"})
    [] OTHER -> Passed("openrouter", st)

candidate_azure(st) ==
  LET absent == {k \in {"azure_endpoint", "azure_key"} : ~Has(k)}
  IN  CASE absent = {} /\ st = "matched" -> Selected("azure_openai")
        [] Cardinality(absent) = 1 -> Missing("azure_openai", "incomplete", absent)
        [] Cardinality(absent) = 2 -> Unfit("azure_openai")
        [] OTHER -> Passed("azure_openai", st)

\* candidate_openai and candidate_groq
KeyedCandidate(provider, fits, st) ==
  CASE st = "matched" -> Selected(provider)
    [] st # "matched" /\ Has(provider) /\ ~fits -> Passed(provider, "other_model")
    [] st # "matched" /\ ~Has(provider) -> Unfit(provider)
    [] OTHER -> Passed(provider, st)

candidate_openai_compat(st) ==
  CASE st = "matched" /\ Has("url") /\ Has("url_key") -> Selected("openai_compatible")
    [] st = "failed_here" -> Missing("openai_compatible", st, {"url_key"})
    [] st # "failed_here" /\ Has("url") /\ ~Has("url_key") ->
         Missing("openai_compatible", "incomplete", {"url_key"})
    [] st # "failed_here" /\ ~Has("url") -> Unfit("openai_compatible")
    [] OTHER -> Passed("openai_compatible", st)

\* candidate_ollama_heuristic and candidate_ollama_default
OllamaCandidate(fits, st) ==
  CASE ~fits -> Unfit("ollama")
    [] fits /\ st = "matched" -> Selected("ollama")
    [] OTHER -> Passed("ollama", st)

build_candidates(outcome) ==
  LET m == merged_cli_model
      St(step) == row_state(step, outcome)
  IN  <<candidate_bedrock(St(1)), candidate_native_claude(St(2)),
        candidate_openrouter_slash(St(3)), candidate_azure(St(4)),
        KeyedCandidate("openai", m.openai, St(5)), KeyedCandidate("groq", m.groq, St(6)),
        candidate_openai_compat(St(7)),
        OllamaCandidate(m.ollama, St(8)), OllamaCandidate(~m.ollama, St(9))>>

NoTrace == [outcome |-> [ok |-> FALSE, step |-> 0, id |-> "none"], candidates |-> <<>>]

explain_provider_resolution ==
  /\ trace = NoTrace
  /\ trace' = [outcome |-> resolve, candidates |-> build_candidates(resolve)]
  /\ UNCHANGED <<given, supplied>>

(***************************************************************************)
(* The user supplies what the branch that failed asks for and runs again:  *)
(* one key for a Claude model, elsewhere all that is missing.              *)
(***************************************************************************)
FailedRows(candidates) ==
  {k \in DOMAIN candidates : candidates[k].reason = "failed_here"}

Supply ==
  /\ trace # NoTrace /\ ~trace.outcome.ok /\ supplied = 0
  /\ \E k \in FailedRows(trace.candidates) :
       LET missing == trace.candidates[k].missing
       IN  \E names \in IF k = 2 THEN {{n} : n \in missing} ELSE {missing} :
             given' = [given EXCEPT
               !.flags = [n \in Keys |-> IF n \in names THEN "set" ELSE @[n]],
               !.env = [v \in DOMAIN @ |-> IF v \in names THEN "set" ELSE @[v]]]
  /\ trace' = NoTrace /\ supplied' = trace.outcome.step

(***************************************************************************)
(* The settings a user may start with.                                     *)
(***************************************************************************)
FewSet(n) == {S \in SUBSET Keys : Cardinality(S) <= n}
Values(blank, names) ==
  [n \in Keys |-> IF n \in names THEN "set" ELSE IF blank THEN "blank" ELSE "none"]

SettingsInit ==
  /\ \E flags \in FewSet(MaxFlags), stored \in FewSet(MaxStored), blank \in BOOLEAN,
        model \in Models, default_model \in StoredModels, host \in Hosts,
        bedrock \in BOOLEAN, id, secret \in {"none", "blank", "set"} :
       /\ "url" \notin flags \cup stored => host = "other"
       /\ secret # "none" => bedrock \/ id # "none"
       /\ given = [flags |-> Values(blank, flags), stored |-> Values(FALSE, stored),
                   model |-> model, default_model |-> default_model, host |-> host,
                   bedrock |-> bedrock,
                   env |-> [AWS_ACCESS_KEY_ID |-> id, AWS_SECRET_ACCESS_KEY |-> secret]]
  /\ trace = NoTrace /\ supplied = 0

SettingsNext == explain_provider_resolution \/ Supply

SettingsSpec == SettingsInit /\ [][SettingsNext]_settingsVars

(***************************************************************************)
(* Properties                                                              *)
(***************************************************************************)
Eligible == {k \in DOMAIN trace.candidates : trace.candidates[k].eligible}
Names(k) == IF k = 2 THEN {"anthropic", "openrouter"} ELSE {trace.candidates[k].provider}

\* The account agrees with resolve in every setting: the one eligible row is
\* the branch that was taken and names its provider, or there is none and the
\* one failed row is the branch that failed; and whoever supplies what that row
\* asks for gets that provider.  (A custom server whose host is named after a
\* provider is taken for it.)
ExplainedAsResolved ==
  trace # NoTrace =>
    LET outcome == trace.outcome
    IN  /\ supplied # 0 => outcome.ok /\ outcome.step = supplied
        /\ FailedRows(trace.candidates) = IF outcome.ok THEN {} ELSE {outcome.step}
        /\ outcome.step # 7 \/ outcome.id = "openai_compatible" \/ ~outcome.ok =>
             /\ Eligible = IF outcome.ok THEN {outcome.step} ELSE {}
             /\ \A k \in Eligible : outcome.id \in Names(k)
=============================================================================
