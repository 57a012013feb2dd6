--------------------------- MODULE BundleCommands ---------------------------
(***************************************************************************)
(* The akmon commands that move sessions between journals and bundle       *)
(* files: bundle export, import, sign and attest, redact, seal and otel    *)
(* import.  Each command is a sequence of steps (a file is created, then   *)
(* written, a temporary file is renamed, a transaction commits), and       *)
(* between two steps a write may fail or the process may be killed.        *)
(*                                                                         *)
(* A temporary file has a name of its own and is never read, so what is in *)
(* it is part of the running command; what a crash leaves of it is not     *)
(* modelled.  One command runs at a time: the commands lock the journal    *)
(* but not the files.                                                      *)
(***************************************************************************)
EXTENDS VerifyReports, OtelPlan, InspectViews

CONSTANTS
  Paths,        \* --output paths; PATH.pub and PATH.operator.pub stand beside them
  Keys,         \* Ed25519 keys, of signers and of operators
  Names,        \* session ids that --rename-to or a new session may use
  InitialRows,  \* the sessions of journal "here": id -> [head, history]
  InitialStore, \* its objects
  ThereStores,  \* what the objects of journal "there" may be
  OldFiles,     \* what a path may hold at first, written by older versions
  Exports,      \* trace exports: [batches, requested, of, captured], of the trace `of`
  MaxCommands,  \* bound: commands run
  MaxRedacted,  \* bound: objects redacted at once
  MaxFaults     \* bound: failed writes and crashes

ASSUME BundleBounds == MaxCommands \in Nat /\ MaxRedacted \in Nat /\ MaxFaults \in Nat

VARIABLES
  journals,     \* "here", "there" -> [objects, sessions: id -> [head, history]]
  files,        \* Paths -> [bundle, pub, operator_pub], each an Option
  cmd,          \* the running command, NoCommand when there is none
  imported,     \* ghost: what each imported session was made of
  hidden,       \* ghost: Paths -> what the bundle there was redacted of
  sealed,       \* ghost: the paths whose three files a seal has finished
  commands, faults

bundleVars == <<journals, files, cmd, imported, hidden, sealed, commands, faults>>

NoCommand == [op |-> "none"]
Running(op) == cmd # NoCommand /\ cmd.op = op
NoFiles == [bundle |-> None, pub |-> None, operator_pub |-> None]

\* A bundle file that was created but not written yet, and a finished one.
Partial == Some([whole |-> FALSE])
Whole(b) == Some([whole |-> TRUE, contents |-> b])
IsWhole(file) == file # None /\ file[1].whole

\* What a bundle was made of: the objects redacted, whether the session verified.
Source(row, store, redacted) ==
  [redacted |-> redacted,
   clean |-> is_clean(verify_history_against_store(row.history, row.head, store))]

NothingHidden == [redacted |-> {}, clean |-> TRUE]
NewRow == [head |-> None, history |-> <<>>]

BundleInit ==
  /\ \E old \in OldFiles, p \in Paths, store \in ThereStores :
       /\ files = [q \in Paths |-> IF q = p THEN old ELSE NoFiles]
       /\ sealed = {q \in Paths : files[q].pub # None}
       /\ journals = [here |-> [objects |-> InitialStore, sessions |-> InitialRows],
                      there |-> [objects |-> store, sessions |-> <<>>]]
  /\ cmd = NoCommand /\ imported = {}
  /\ hidden = [p \in Paths |-> NothingHidden]
  /\ commands = 0 /\ faults = 0

Idle == cmd = NoCommand /\ commands < MaxCommands
Begin == Idle /\ commands' = commands + 1 /\ UNCHANGED faults

Continue == UNCHANGED <<commands, faults>>

Session(j, s) == journals[j].sessions[s]
SessionsOf(j) == DOMAIN journals[j].sessions

\* The file is read as a bundle, which must verify.
Readable(p) == IsWhole(files[p].bundle) /\ BundleIsClean(files[p].bundle[1].contents)

-----------------------------------------------------------------------------
(* bundle export and redact: an existing output is refused, the file is      *)
(* created, written and removed again when the write fails.                  *)

Create(p, b, hides) ==
  /\ Begin
  /\ files[p].bundle = None
  /\ files' = [files EXCEPT ![p].bundle = Partial]
  /\ cmd' = [op |-> "create", path |-> p, bundle |-> b, hides |-> hides]
  /\ UNCHANGED <<journals, imported, hidden, sealed>>

Export ==
  Idle /\ \E j \in DOMAIN journals : \E s \in SessionsOf(j), p \in Paths :
    /\ Exportable(Session(j, s), journals[j].objects)
    /\ Create(p, assemble_session_bundle(s, Session(j, s), journals[j].objects),
              Source(Session(j, s), journals[j].objects, {}))

Redact ==
  Idle /\ \E j \in DOMAIN journals : \E s \in SessionsOf(j), p \in Paths :
  \E redacted \in UNION {kSubset(n, Referenced(Session(j, s).history)) : n \in 1..MaxRedacted} :
    LET row == Session(j, s)  store == journals[j].objects
    IN /\ Redactable(row, store, redacted)
       /\ Create(p, RedactedBundle(s, row, store, redacted),
                 Source(row, store, redacted))

WriteBundle ==
  /\ Running("create")
  /\ files' = [files EXCEPT ![cmd.path].bundle = Whole(OnWire(cmd.bundle))]
  /\ hidden' = [hidden EXCEPT ![cmd.path] = cmd.hides]
  /\ cmd' = NoCommand
  /\ Continue /\ UNCHANGED <<journals, imported, sealed>>

-----------------------------------------------------------------------------
(* bundle sign and bundle attest: the bundle must verify; the copy with one  *)
(* more entry is written to a temporary file, which is then renamed over the *)
(* output: by default the bundle itself, otherwise whatever is there.        *)

AddEntry(p, q, b) ==
  /\ Begin
  /\ cmd' = [op |-> "replace", from |-> p, path |-> q, bundle |-> b]
  /\ UNCHANGED <<journals, files, imported, hidden, sealed>>

Sign ==
  Idle /\ \E p \in {x \in Paths : Readable(x)} : \E q \in Paths, key \in Keys :
    AddEntry(p, q, add_head_signature(files[p].bundle[1].contents, key))

Attest ==
  Idle /\ \E p \in {x \in Paths : Readable(x)} : \E q \in Paths, key \in Keys :
    AddEntry(p, q, add_operator_attestation(files[p].bundle[1].contents, "operator", key))

Rename ==
  /\ Running("replace")
  /\ files' = [files EXCEPT ![cmd.path].bundle = Whole(cmd.bundle)]
  /\ hidden' = [hidden EXCEPT ![cmd.path] = hidden[cmd.from]]
  /\ sealed' = IF cmd.path = cmd.from THEN sealed ELSE sealed \ {cmd.path}
  /\ cmd' = NoCommand
  /\ Continue /\ UNCHANGED <<journals, imported>>

-----------------------------------------------------------------------------
(* seal: export, sign, attest and verify in temporary files, remove the      *)
(* operator key file of an earlier seal when there is no operator now, then  *)
(* rename the files into place, one by one.                                  *)

SealedBundle(unsigned, signer, operator) ==
  LET signed == add_head_signature(unsigned, signer)
  IN IF operator = None THEN signed
     ELSE add_operator_attestation(signed, "operator", operator[1])

\* The policy that seal verifies its own output with: the key files it wrote.
SealFlags(signer, operator) ==
  [NoPolicy EXCEPT !.signers = {signer}, !.require_signature = TRUE,
                   !.required_operators = {operator[i] : i \in DOMAIN operator}]

\* Mutant: the key file of an earlier operator stays.
NothingStale(p, operator) == FALSE

StaleOperatorPub(p, operator) == operator = None /\ files[p].operator_pub # None

\* The outputs may not exist, and the exported bundle must verify before it is
\* signed.
Seal ==
  Idle /\ \E j \in DOMAIN journals :
  \E s \in {x \in SessionsOf(j) : Exportable(Session(j, x), journals[j].objects)} :
    LET b == OnWire(assemble_session_bundle(s, Session(j, s), journals[j].objects))
    IN /\ BundleIsClean(b)
       /\ \E p \in Paths, force \in BOOLEAN, signer \in Keys,
             operator \in {None} \cup {Some(k) : k \in Keys} :
            /\ force \/ files[p] = NoFiles
            /\ cmd' = [op |-> "seal_temp", path |-> p, signer |-> signer, operator |-> operator,
                       bundle |-> SealedBundle(b, signer, operator)]
       /\ Begin /\ UNCHANGED <<journals, files, imported, hidden, sealed>>

\* The temporary bundle is verified with the temporary key files.
SelfVerify ==
  /\ Running("seal_temp")
  /\ cmd' = IF BundleVerifyExit(SealFlags(cmd.signer, cmd.operator), Keys, None, cmd.bundle) = 0
            THEN [op |-> "seal", path |-> cmd.path,
                  stale |-> StaleOperatorPub(cmd.path, cmd.operator),
                  place |-> [bundle |-> Whole(cmd.bundle), pub |-> Some(cmd.signer),
                             operator_pub |-> cmd.operator],
                  todo |-> <<"bundle", "pub">> \o
                             (IF cmd.operator = None THEN <<>> ELSE <<"operator_pub">>),
                  placed |-> {}]
            ELSE NoCommand
  /\ Continue /\ UNCHANGED <<journals, files, imported, hidden, sealed>>

RemoveStale ==
  /\ Running("seal") /\ cmd.stale
  /\ files' = [files EXCEPT ![cmd.path].operator_pub = None]
  /\ sealed' = sealed \ {cmd.path}
  /\ cmd' = [cmd EXCEPT !.stale = FALSE]
  /\ Continue /\ UNCHANGED <<journals, imported, hidden>>

\* One rename.  After the last one the cleanup is disarmed.
Place ==
  /\ Running("seal") /\ ~cmd.stale
  /\ LET role == Head(cmd.todo)  last == Len(cmd.todo) = 1
     IN /\ files' = [files EXCEPT ![cmd.path][role] = cmd.place[role]]
        /\ sealed' = IF last THEN sealed \cup {cmd.path} ELSE sealed \ {cmd.path}
        /\ hidden' = IF role = "bundle" THEN [hidden EXCEPT ![cmd.path] = NothingHidden] ELSE hidden
        /\ cmd' = IF last THEN NoCommand
                  ELSE [cmd EXCEPT !.todo = Tail(@), !.placed = @ \cup {role}]
  /\ Continue /\ UNCHANGED <<journals, imported>>

-----------------------------------------------------------------------------
(* bundle import: the target id must be new and the bundle must verify; the  *)
(* objects are put one by one, each in a transaction, then the session is    *)
(* opened and then its history imported, in two more.                        *)

Import ==
  Idle /\ \E p \in {x \in Paths : Readable(x)}, j \in DOMAIN journals :
    LET b == files[p].bundle[1].contents
    IN /\ \E target \in ({b.session} \cup Names) \ SessionsOf(j) :
            cmd' = [op |-> "import", journal |-> j, target |-> target, bundle |-> b,
                    todo |-> DOMAIN b.objects]
       /\ Begin /\ UNCHANGED <<journals, files, imported, hidden, sealed>>

\* Mutant: an object that is there already is taken as it is.
ExistingTaken(existing, bytes) == TRUE

SameBytes(existing, bytes) == existing = bytes

PutObject ==
  /\ Running("import")
  /\ \E h \in cmd.todo :
       LET objects == journals[cmd.journal].objects
       IN /\ \/ /\ h \notin DOMAIN objects
                /\ journals' = [journals EXCEPT ![cmd.journal].objects =
                     [x \in DOMAIN objects \cup {h} |-> IF x = h THEN cmd.bundle.objects[h] ELSE objects[x]]]
                /\ cmd' = [cmd EXCEPT !.todo = @ \ {h}]
             \/ /\ h \in DOMAIN objects
                /\ cmd' = IF SameBytes(objects[h], cmd.bundle.objects[h])
                          THEN [cmd EXCEPT !.todo = @ \ {h}] ELSE NoCommand
                /\ UNCHANGED journals
  /\ Continue /\ UNCHANGED <<files, imported, hidden, sealed>>

SetRow(j, s, row) ==
  journals' = [journals EXCEPT ![j].sessions =
    [t \in DOMAIN @ \cup {s} |-> IF t = s THEN row ELSE @[t]]]

OpenTarget ==
  /\ Running("import") /\ cmd.todo = {}
  /\ SetRow(cmd.journal, cmd.target, NewRow)
  /\ imported' = imported \cup {[from |-> "bundle", journal |-> cmd.journal,
                                 session |-> cmd.target, what |-> cmd.bundle]}
  /\ cmd' = [cmd EXCEPT !.op = "import_events"]
  /\ Continue /\ UNCHANGED <<files, hidden, sealed>>

ImportEvents ==
  /\ Running("import_events")
  /\ LET history == bundle_import_history(cmd.bundle)
     IN IF verify_import_precondition(history, journals[cmd.journal].objects)
        THEN SetRow(cmd.journal, cmd.target,
                    [head |-> Some(history[Len(history)].hash), history |-> history])
        ELSE UNCHANGED journals
  /\ cmd' = NoCommand
  /\ Continue /\ UNCHANGED <<files, imported, hidden, sealed>>

-----------------------------------------------------------------------------
(* otel import: the whole trace is planned first; then a new session is      *)
(* opened and the planned events are appended one by one.                    *)

PlanOf == [x \in Exports |-> build_plan(x.batches, x.requested)]

ImportTrace ==
  Idle /\ \E x \in Exports, j \in DOMAIN journals, target \in Names :
    /\ \A k \in DOMAIN journals : target \notin SessionsOf(k)
    /\ PlanOf[x].error = None
    /\ cmd' = [op |-> "trace", journal |-> j, target |-> target, todo |-> PlanOf[x].events]
    /\ imported' = imported \cup {[from |-> "trace", journal |-> j, session |-> target, what |-> x]}
    /\ SetRow(j, target, NewRow)
    /\ Begin /\ UNCHANGED <<files, hidden, sealed>>

\* The objects of the event are put, then it is appended; a crash in between
\* leaves only objects nothing refers to, so the two are one step.
EmitPlanned ==
  /\ Running("trace")
  /\ LET event == Head(cmd.todo)
         row == Session(cmd.journal, cmd.target)
         history == AppendTo(row.history, KindOfPlanned(event), [sec |-> 0, nanos |-> 0])
         put == {digest_bytes(event.contents[i]) : i \in DOMAIN event.contents}
     IN journals' = [journals EXCEPT ![cmd.journal] =
          [objects |-> [h \in DOMAIN @.objects \cup put |->
                          IF h \in DOMAIN @.objects THEN @.objects[h] ELSE h[2]],
           sessions |-> [@.sessions EXCEPT ![cmd.target] =
                          [head |-> Some(history[Len(history)].hash), history |-> history]]]]
  /\ cmd' = IF Len(cmd.todo) = 1 THEN NoCommand ELSE [cmd EXCEPT !.todo = Tail(@)]
  /\ Continue /\ UNCHANGED <<files, imported, hidden, sealed>>

-----------------------------------------------------------------------------
(* Faults.                                                                   *)

Fault ==
  /\ cmd # NoCommand /\ faults < MaxFaults
  /\ faults' = faults + 1
  /\ cmd' = NoCommand
  /\ UNCHANGED <<journals, imported, hidden, sealed, commands>>

\* A write or a rename fails and the command returns an error: export and redact
\* remove their file, seal removes the files it has placed, the others nothing.
CommandFails ==
  /\ Fault
  /\ files' = CASE cmd.op = "create" -> [files EXCEPT ![cmd.path].bundle = None]
                [] cmd.op = "seal" -> [files EXCEPT ![cmd.path] =
                     [role \in DOMAIN NoFiles |-> IF role \in cmd.placed THEN None ELSE @[role]]]
                [] OTHER -> files

\* The process is killed: what is written stays.
Crash == Fault /\ UNCHANGED files

BundleNext ==
  \/ Export \/ Redact \/ WriteBundle
  \/ Sign \/ Attest \/ Rename
  \/ Seal \/ SelfVerify \/ RemoveStale \/ Place
  \/ Import \/ PutObject \/ OpenTarget \/ ImportEvents
  \/ ImportTrace \/ EmitPlanned
  \/ CommandFails \/ Crash

BundleSpec == BundleInit /\ [][BundleNext]_bundleVars

(***************************************************************************)
(* What the project may hold at first: sessions, and files that an older   *)
(* version finished, whose signatures are over their own version.          *)
(***************************************************************************)
IsSeq(s) == s \in Seq({s[i] : i \in DOMAIN s})
IsMap(f) == f = [x \in DOMAIN f |-> f[x]]

IsBundle(b) ==
  b = [agef_version |-> b.agef_version, session |-> b.session, head |-> b.head,
       created_at |-> b.created_at, ended_at |-> b.ended_at,
       event_count |-> b.event_count, object_count |-> b.object_count,
       signatures |-> b.signatures, attestations |-> b.attestations,
       events |-> b.events, objects |-> b.objects]

\* Each entry is what its key signed over this bundle.
Genuine(b) ==
  /\ IsBundle(b) /\ IsSeq(b.events) /\ IsMap(b.objects)
  /\ IsSeq(b.signatures) /\ IsSeq(b.attestations)
  /\ \A i \in DOMAIN b.signatures :
       LET key == b.signatures[i].key_id
       IN b.signatures[i] = [key_id |-> key, signature |-> Signature(key, signing_statement(b))]
  /\ \A i \in DOMAIN b.attestations :
       LET key == b.attestations[i].key_id  identity == b.attestations[i].identity
       IN b.attestations[i] = [key_id |-> key, identity |-> identity,
                               signature |-> Signature(key, operator_statement(b, identity))]

\* The bundle verifies with the key files beside it.
SealVerifies(file) ==
  BundleVerifyExit(SealFlags(file.pub[1], file.operator_pub), Keys, None,
                   file.bundle[1].contents) = 0

ASSUME OldAssumption ==
  /\ \A s \in DOMAIN InitialRows : IsSeq(InitialRows[s].history)
  /\ \A old \in OldFiles :
       /\ old = [bundle |-> old.bundle, pub |-> old.pub, operator_pub |-> old.operator_pub]
       /\ old.bundle # None =>
            /\ old.bundle = Whole(old.bundle[1].contents)
            /\ Genuine(old.bundle[1].contents)
       /\ old.pub # None => old.bundle # None /\ SealVerifies(old)

(***************************************************************************)
(* Properties.                                                             *)
(***************************************************************************)
ContentsOf(p) == files[p].bundle[1].contents
WholePaths == {p \in Paths : IsWhole(files[p].bundle)}

Body(b) == [session |-> b.session, head |-> b.head, events |-> b.events, objects |-> b.objects]

\* Every signature and attestation in a bundle verifies under its own key,
\* whoever signs or attests after whom and whichever version wrote the bundle
\* first: no entry invalidates an earlier one (rule O9 of add_head_signature).
\* And `prove-openssl` hands out artifacts that OpenSSL accepts exactly when
\* `bundle verify` with the same keys says that both signed these contents.
SignaturesSurvive ==
  \A p \in WholePaths :
    LET b == ContentsOf(p)
    IN /\ \A i \in DOMAIN b.signatures :
            verify_manifest_signatures(b, {b.signatures[i].key_id})[i] = "verified"
       /\ \A i \in DOMAIN b.attestations :
            verify_operator_attestations(b, {b.attestations[i].key_id})[i] = "verified"
       /\ \A key \in Keys, operator \in {None} \cup {Some(k) : k \in Keys} :
            LET proofs == prove(b, key, operator)
                operators == {operator[i] : i \in DOMAIN operator}
                report == evaluate_bundle(b, [NoPolicy EXCEPT !.signers = {key}, !.operators = operators])
            IN /\ proofs.refused = None <=>
                    report.signature_verified /\ (operator = None \/ report.operator_key_verified)
               /\ proofs.refused = None =>
                    /\ openssl_accepts(proofs.head)
                    /\ operator = None \/ openssl_accepts(proofs.operator[1])

\* What a finished seal leaves verifies offline with the key files beside it,
\* also when another seal, perhaps by an operator, used the path before, and
\* still after others have signed and attested the bundle in place.
SealedSetVerifies ==
  \A p \in sealed :
    /\ p \in WholePaths /\ files[p].pub # None
    /\ BundleVerifyExit(SealFlags(files[p].pub[1], files[p].operator_pub), Keys, None,
                        ContentsOf(p)) = 0

\* A session that `bundle import` opened is the bundle's whole session, with its
\* objects, and would be exported as the same bundle; or it is empty, because the
\* import is still running or a fault stopped it: no import that runs to its end
\* leaves an empty session behind, whatever is in the target journal.
ImportIsWhole ==
  \A r \in {x \in imported : x.from = "bundle"} :
    LET row == Session(r.journal, r.session)
        objects == journals[r.journal].objects
    IN IF row = NewRow THEN Running("import_events") \/ faults > 0
       ELSE /\ is_clean(verify_history_against_store(row.history, row.head, objects))
            /\ Body(assemble_session_bundle(r.what.session, row, objects)) = Body(r.what)

\* A redacted bundle holds none of the redacted objects and no reference to one,
\* and it verifies, without a warning, whenever its source does, as an unredacted
\* one also does.  Inspected with --resolve once it is imported, it tells of every
\* redacted object that it was redacted, in the JSON report as in the human views.
Inspected(b, verbose, json) ==
  run_inspect(b.session :> [head |-> Some(b.head), history |-> bundle_import_history(b)], b.objects,
              b.session, [verbose |-> verbose, json |-> json, resolve |-> TRUE, binary |-> "hex"])

ShownFields(inspected, json) ==
  UNION {Range(IF json THEN inspected.events[i].kind ELSE inspected.events[i].lines) :
           i \in DOMAIN inspected.events}

RedactionHides ==
  \A p \in WholePaths :
    LET b == ContentsOf(p)
    IN /\ hidden[p].redacted \cap (DOMAIN b.objects \cup EventReferences(b.events)) = {}
       /\ hidden[p].clean => BundleIsClean(b) /\ metadata_warnings(b) = {}
       /\ \A verbose, json \in BOOLEAN : verbose \/ json =>
            \A h \in hidden[p].redacted :
              \E f \in ShownFields(Inspected(b, verbose, json), json) : f.content = <<"redacted", h>>

\* The assistant's messages in the oldest form of a span without a choice, as the
\* array that they make.
UnchosenMessages(span) ==
  LET reduced(e) == IF e.name = GenAi(<<"assistant", "message">>)
                    THEN legacy_assistant_message(e) ELSE <<>>
  IN IF EventsNamed(span, GenAi(<<"choice">>)) # <<>> THEN <<>>
     ELSE FlattenSeq([i \in DOMAIN span.events |-> reduced(span.events[i])])

UnchosenIn(x) ==
  {UnchosenMessages(s) : s \in SpansOf(parse_and_normalize(x.batches).spans)} \ {<<>>}

\* What an import makes of an export: its events after the first, the calls alone
\* among them, and the failures it counts.
Reading(plan, unchosen) ==
  LET events == Tail(plan.events)
      kinds == [i \in DOMAIN events |-> KindOfPlanned(events[i])]
      calls == SelectSeq(kinds, LAMBDA kind : kind.tag \in {"ProviderCall", "ToolCall"})
  IN [error |-> plan.error, kinds |-> kinds, failed |-> plan.built.failed, unchosen |-> unchosen,
      calls |-> [i \in DOMAIN calls |-> <<calls[i].tag, calls[i].attempts>>]]

Readings == [x \in Exports |-> Reading(PlanOf[x], UnchosenIn(x))]

SameTrace(reading, other) ==
  /\ other.error = None
  /\ other.calls = reading.calls
  /\ other.unchosen = reading.unchosen => other.kinds = reading.kinds

FailedCall(kind) ==
  \/ kind.tag = "ProviderCall" /\ kind.attempts[1].status # <<"success">>
  \/ kind.tag = "ToolCall" /\ kind.refs[2][2][1] = "otel_tool_error"

ImportedAs(export, reading, kinds, report) ==
  /\ reading.kinds = kinds
  /\ \A x \in Exports : x.of = export.of => SameTrace(reading, Readings[x])
  /\ \A taken \in reading.unchosen : \E i \in DOMAIN kinds :
       kinds[i].tag = "ProviderCall" /\ kinds[i].refs[2] = digest_bytes(<<"arr", taken>>)
  /\ reading.unchosen = {} => report.capture = Some(export.captured)
  /\ report.passed <=> markdown_capture_cell(report) = "FULL (import)"
  /\ reading.failed = Cardinality({i \in DOMAIN kinds : FailedCall(kinds[i])})

\* A trace gives one session.  Once it can be exported, its events and objects are
\* those that the same trace gives however the collector had ordered and repeated
\* its spans, however the integers were written and whatever malformed attribute an
\* export also held (the first event's configuration object aside), and in whichever
\* of the three forms the messages were, but for one case: where a call without a
\* choice has assistant messages in the oldest form, they are taken for its response,
\* although they may be its history.  Then too the calls are those of the other
\* forms, at the same times and with the same outcomes; only the messages differ.
\* A bundle of the session says, under its signature, how much of the messages the
\* trace had captured, that case aside, and the command has counted the failed calls
\* that the session shows.
TraceImportFaithful ==
  \A r \in {x \in imported : x.from = "trace"} :
    LET row == Session(r.journal, r.session)
        objects == journals[r.journal].objects
        bundle == OnWire(assemble_session_bundle(r.session, row, objects))
        report == evaluate_bundle(bundle, [NoPolicy EXCEPT !.require_capture = TRUE])
        kinds == [i \in 1..(Len(row.history) - 1) |-> row.history[i + 1].event.kind]
    IN Exportable(row, objects) => ImportedAs(r.what, Readings[r.what], kinds, report)
=============================================================================
