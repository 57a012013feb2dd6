----------------------------- MODULE BundleFile -----------------------------
(***************************************************************************)
(* AGEF bundles: what is in one, how it is assembled from a journal        *)
(* session, read back, verified, signed, attested and redacted.  No state: *)
(* BundleCommands runs these against files and journals, JournalVerify     *)
(* compares the bundle verifier with the journal's.                        *)
(*                                                                         *)
(* A signature is modelled as an ideal one: the key and the statement it   *)
(* was made over.  Both hash algorithms are one, as in JournalEvents.      *)
(***************************************************************************)
EXTENDS JournalEvents

AGEF_SPEC_VERSION == "0.1.3"

StartsOf(events) == {i \in DOMAIN events : events[i].kind.tag = "SessionStart"}
BundleSessionEnds(events) == {i \in DOMAIN events : events[i].kind.tag = "SessionEnd"}

FirstOf(S) == CHOOSE i \in S : \A k \in S : i <= k
LastOf(S) == CHOOSE i \in S : \A k \in S : k <= i

\* A manifest with its events and objects.  `signatures` and `attestations` are
\* sequences of entries; `created_at` and `ended_at` are the times of the first
\* SessionStart and of the last SessionEnd, which no signature covers; the
\* producer is left out.
Bundle(session, head, events, objects) ==
  [agef_version |-> AGEF_SPEC_VERSION, session |-> session, head |-> head,
   created_at |-> events[FirstOf(StartsOf(events))].emitted_at.sec,
   ended_at |-> events[LastOf(BundleSessionEnds(events))].emitted_at.sec,
   event_count |-> Len(events), object_count |-> Cardinality(DOMAIN objects),
   signatures |-> <<>>, attestations |-> <<>>,
   events |-> events, objects |-> objects]

\* write_bundle followed by read_bundle: times come back in whole seconds, all
\* else as it was (entries are unambiguous, the counts are the manifest's).
wire_event(e) == [e EXCEPT !.emitted_at = [sec |-> @.sec, nanos |-> 0]]
OnWire(b) == [b EXCEPT !.events = [i \in DOMAIN @ |-> wire_event(@[i])]]

EventReferences(events) ==
  UNION {referenced_object_hashes_for_kind(events[i].kind) : i \in DOMAIN events}

-----------------------------------------------------------------------------
(* assemble_session_bundle: a session needs a head, a SessionStart and a     *)
(* SessionEnd, and all the objects it refers to.                             *)

Exportable(row, store) ==
  /\ row.head # None
  /\ \E i \in DOMAIN row.history : row.history[i].event.kind.tag = "SessionStart"
  /\ SessionEnds(row.history) # {}
  /\ Referenced(row.history) \subseteq DOMAIN store

assemble_session_bundle(session, row, store) ==
  Bundle(session, row.head[1],
         [i \in DOMAIN row.history |-> row.history[i].event],
         [h \in Referenced(row.history) |-> store[h]])

\* The history that an import makes of a bundle: each event under its own hash.
bundle_import_history(b) == [i \in DOMAIN b.events |-> StoredEvent(b.events[i])]

-----------------------------------------------------------------------------
(* verify_bundle: the checks of the journal's verifier, implemented a second *)
(* time over the bundle's own bytes.  A violation names its category, and    *)
(* where they apply the event's position (0 for none) and the object.        *)

Violation(category, at, object) == [category |-> category, at |-> at, object |-> object]
Found(category, holds) == IF holds THEN {Violation(category, 0, None)} ELSE {}

SessionEndViolations(events) ==
  LET ends == BundleSessionEnds(events)
  IN    Found("session_end_missing", ends = {})
   \cup Found("session_end_not_terminal", Cardinality(ends) = 1 /\ ends # {Len(events)})
   \cup Found("session_end_duplicate", Cardinality(ends) > 1)

BrokenParent(events, i) ==
  IF i = 1 THEN events[1].kind.tag # "SessionStart" \/ events[1].parents # None
  ELSE events[i].parents # Some(content_hash(events[i-1]))

\* Mutant: a ProviderCall without attempts has none that is misnumbered.
event_invariant_of_attempts(kind) ==
  /\ kind.tag = "ProviderCall"
  /\ \E i \in DOMAIN kind.attempts :
       \/ kind.attempts[i].attempt_number # i
       \/ i > 1 /\ kind.attempts[i].started_at < kind.attempts[i-1].started_at

event_invariant_violation(kind) ==
  /\ kind.tag = "ProviderCall"
  /\ \/ kind.attempts = <<>>
     \/ \E i \in DOMAIN kind.attempts :
          \/ kind.attempts[i].attempt_number # i
          \/ i > 1 /\ kind.attempts[i].started_at < kind.attempts[i-1].started_at

\* The checks of one event.
EventViolations(b, i) ==
  LET e == b.events[i]
      at(category, holds) == IF holds THEN {Violation(category, i, None)} ELSE {}
  IN    at("sequence", e.sequence # i - 1)
   \cup at("broken_parent_chain", BrokenParent(b.events, i))
   \cup at("event_invariant", event_invariant_violation(e.kind))
   \cup {Violation("missing_object", i, Some(h)) :
           h \in referenced_object_hashes_for_kind(e.kind) \ DOMAIN b.objects}

verify_bundle(b) ==
  LET n == Len(b.events)
      counts ==
             Found("manifest_object_count_mismatch", b.object_count # Cardinality(DOMAIN b.objects))
        \cup Found("manifest_event_count_mismatch", b.event_count # n)
        \cup {Violation("object_key_hash_mismatch", 0, Some(h)) :
                h \in {x \in DOMAIN b.objects : digest_bytes(b.objects[x]) # x}}
  IN counts \cup
     IF n = 0 THEN {Violation("no_events", 0, None)}
     ELSE   (UNION {EventViolations(b, i) : i \in 1..n})
       \cup {Violation("unreferenced_object", 0, Some(h)) :
               h \in DOMAIN b.objects \ EventReferences(b.events)}
       \cup SessionEndViolations(b.events)
       \cup Found("head_mismatch", b.head # content_hash(b.events[n]))

BundleIsClean(b) == verify_bundle(b) = {}

-----------------------------------------------------------------------------
(* Head signatures and operator attestations.  Each entry names its key and  *)
(* carries a signature over a statement; the statements hold the version,    *)
(* the session and the head, and are told apart by their first line.         *)

Signature(key, statement) == [key |-> key, statement |-> statement]

signing_statement(b) == <<"AGEF-SIG-v1", b.agef_version, b.session, b.head>>

operator_statement(b, identity) ==
  <<"AGEF-OPERATOR-v1", b.agef_version, b.session, b.head, identity>>

manifest_unsigned_and_unattested(b) == b.signatures = <<>> /\ b.attestations = <<>>

\* Rule O9: the version is brought up to date only while nothing covers it.
\* Mutant: it is always brought up to date.
StampAlways(b) == [b EXCEPT !.agef_version = AGEF_SPEC_VERSION]

Stamp(b) ==
  IF manifest_unsigned_and_unattested(b)
  THEN [b EXCEPT !.agef_version = AGEF_SPEC_VERSION]
  ELSE b

add_head_signature(b, key) ==
  LET stamped == Stamp(b)
  IN [stamped EXCEPT !.signatures =
        Append(@, [key_id |-> key, signature |-> Signature(key, signing_statement(stamped))])]

add_operator_attestation(b, identity, key) ==
  LET stamped == Stamp(b)
  IN [stamped EXCEPT !.attestations =
        Append(@, [key_id |-> key, identity |-> identity,
                   signature |-> Signature(key, operator_statement(stamped, identity))])]

\* check_signature_entry and check_operator_entry: every trusted key is tried;
\* an entry of a trusted key that does not verify is invalid.
Outcome(entry, statement, trusted) ==
  IF \E key \in trusted : entry.signature = Signature(key, statement) THEN "verified"
  ELSE IF entry.key_id \in trusted THEN "invalid"
  ELSE "unverified_no_key"

verify_manifest_signatures(b, trusted) ==
  [i \in DOMAIN b.signatures |-> Outcome(b.signatures[i], signing_statement(b), trusted)]

verify_operator_attestations(b, trusted) ==
  [i \in DOMAIN b.attestations |->
     Outcome(b.attestations[i], operator_statement(b, b.attestations[i].identity), trusted)]

AnyOutcome(outcomes, outcome) == \E i \in DOMAIN outcomes : outcomes[i] = outcome

-----------------------------------------------------------------------------
(* redact: chosen objects are replaced by sentinels, every event is rewritten *)
(* to refer to them, and the chain is linked anew.                           *)

sentinel(h) == <<"redacted", h>>

rewrite_hash(h, redacted) == IF h \in redacted THEN digest_bytes(sentinel(h)) ELSE h

\* Mutant: only the first reference of an event is rewritten.
RewriteFirst(kind, redacted) ==
  [kind EXCEPT !.refs = [i \in DOMAIN @ |-> IF i = 1 THEN rewrite_hash(@[i], redacted) ELSE @[i]]]

rewrite_event_kind_hashes(kind, redacted) ==
  [kind EXCEPT !.refs = [i \in DOMAIN @ |-> rewrite_hash(@[i], redacted)]]

\* The first event keeps its parents, each later one gets the new hash of its
\* predecessor; sequence and time stay.
Rewritten(history, redacted) ==
  LET r[n \in 0..Len(history)] ==
        IF n = 0 THEN <<>>
        ELSE LET old == history[n].event
                 parents == IF n = 1 THEN old.parents ELSE Some(content_hash(r[n-1][n-1]))
             IN Append(r[n-1], [old EXCEPT !.parents = parents,
                                           !.kind = rewrite_event_kind_hashes(@, redacted)])
  IN r[Len(history)]

Redactable(row, store, redacted) ==
  Exportable(row, store) /\ redacted \subseteq Referenced(row.history)

RedactedBundle(session, row, store, redacted) ==
  LET events == Rewritten(row.history, redacted)
      sentinels == {digest_bytes(sentinel(h)) : h \in redacted}
  IN Bundle(session, content_hash(events[Len(events)]), events,
            [h \in EventReferences(events) |-> IF h \in sentinels THEN h[2] ELSE store[h]])
=============================================================================
