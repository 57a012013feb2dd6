--------------------------- MODULE VerifyReports ---------------------------
(***************************************************************************)
(* What the verifiers tell their readers: the reports of `session verify`, *)
(* of `bundle verify` and `agef-verify`, in JSON, for a terminal and as    *)
(* Markdown, their exit codes, and the OpenSSL artifacts of `bundle        *)
(* prove-openssl`.  No state.                                              *)
(*                                                                         *)
(* A rendering is modelled by the claims it makes, not by its words.       *)
(***************************************************************************)
EXTENDS BundleFile

-----------------------------------------------------------------------------
(* session verify: one list of violations in JSON, the same findings by name *)
(* for a terminal.                                                           *)

verify_report_v1(report) ==
  LET of(category, S, named(_)) == {<<category, named(x)>> : x \in S}
      self(x) == x
      ends == report.session_end_count
  IN [passed |-> is_clean(report),
      violations |->
           of("missing_object", report.missing_objects, self)
      \cup of("object_hash_mismatch", report.object_hash_mismatches, self)
      \cup of("event_hash_mismatch", report.hash_mismatches, self)
      \cup of("parent_chain", report.broken_parent_links, self)
      \cup of("sequence", report.sequence_violations, self)
      \cup (IF report.head_mismatch THEN {<<"head_mismatch", None>>} ELSE {})
      \cup (IF ends = 0 THEN {<<"session_end_missing", None>>} ELSE {})
      \cup (IF ends > 1 THEN {<<"session_end_duplicate", None>>} ELSE {})
      \cup (IF ends = 1 /\ ~report.session_end_is_terminal
            THEN {<<"session_end_not_terminal", None>>} ELSE {})]

\* The terminal prints a verdict and, when it failed, a count for every category
\* (with --verbose the items), and one line on SessionEnd.
run_verify_human(report) ==
  IF is_clean(report)
  THEN [verdict |-> "verified", nonzero |-> {}, session_end |-> "present and terminal"]
  ELSE [verdict |-> "verification failed",
        nonzero |-> {c \in {"missing_objects", "object_hash_mismatches", "hash_mismatches",
                            "broken_parent_links", "sequence_violations"} : report[c] # {}}
                    \cup (IF report.head_mismatch THEN {"head_mismatch"} ELSE {}),
        session_end |-> CASE report.session_end_count = 0 -> "missing"
                          [] report.session_end_count = 1 /\ report.session_end_is_terminal
                               -> "present and terminal"
                          [] report.session_end_count = 1 -> "not terminal"
                          [] OTHER -> "duplicate"]

\* 3 when the journal cannot be opened or read.
run_verify_exit(opened, report) ==
  IF ~opened THEN 3 ELSE IF is_clean(report) THEN 0 ELSE 1

-----------------------------------------------------------------------------
(* The strict reader stops at the first violation; its error has the kind of *)
(* that violation.                                                           *)

CategoryOrder ==
  <<"manifest_object_count_mismatch", "manifest_event_count_mismatch",
    "object_key_hash_mismatch", "no_events", "sequence", "broken_parent_chain",
    "event_invariant", "missing_object", "unreferenced_object", "session_end_missing",
    "session_end_not_terminal", "session_end_duplicate", "head_mismatch">>

Rank(category) == CHOOSE i \in DOMAIN CategoryOrder : CategoryOrder[i] = category

\* Events are checked one after the other, each for all its categories.
PushedBefore(v, w) ==
  LET perEvent(x) == x.at > 0
  IN IF perEvent(v) /\ perEvent(w) /\ v.at # w.at THEN v.at < w.at
     ELSE Rank(v.category) < Rank(w.category)

violation_to_error(category) ==
  CASE category = "object_key_hash_mismatch" -> "ObjectHashMismatch"
    [] category = "missing_object" -> "MissingObject"
    [] category = "head_mismatch" -> "HeadMismatch"
    [] category \in {"manifest_object_count_mismatch", "manifest_event_count_mismatch"}
         -> "InvalidManifest"
    [] OTHER -> "InvalidArchive"

\* None, or the kind of the error.
verify_bundle_strict(b) ==
  LET found == verify_bundle(b)
  IN IF found = {} THEN None
     ELSE Some(violation_to_error(
            (CHOOSE v \in found : \A w \in found : ~PushedBefore(w, v)).category))

-----------------------------------------------------------------------------
(* events.bin: each event is a frame, its length and its bytes.  The reader  *)
(* stops cleanly only between frames, and refuses a frame that is cut short, *)
(* longer than its limit or not the canonical encoding of what it holds.     *)

Frame(event, form) == [event |-> event, form |-> form]
FrameForms == {"whole", "prefix_cut", "payload_cut", "too_large", "not_canonical", "unknown_kind"}

FrameError(form) ==
  CASE form \in {"prefix_cut", "payload_cut"} -> "malformed_framing"
    [] form = "too_large" -> "frame_too_large"
    [] form = "not_canonical" -> "non_canonical_cbor"
    [] OTHER -> "unknown_event_kind"

\* The events of a stream of frames, or the error of the first bad one.
read_events(frames) ==
  LET bad == {i \in DOMAIN frames : frames[i].form # "whole"}
  IN IF bad = {} THEN [error |-> None, events |-> [i \in DOMAIN frames |-> frames[i].event]]
     ELSE [error |-> Some(FrameError(frames[FirstOf(bad)].form)), events |-> <<>>]

bundle_read_exit_code(category) == IF category = "io_error" THEN 3 ELSE 1

-----------------------------------------------------------------------------
(* The capture level: an OpenTelemetry import records in its configuration   *)
(* object how much of the messages the trace held.                           *)

\* None for a native session, and whenever that object is not such a record.
otel_capture_info(b) ==
  IF StartsOf(b.events) = {} THEN None
  ELSE LET refs == b.events[FirstOf(StartsOf(b.events))].kind.refs
           config == IF Len(refs) < 2 THEN None ELSE Some(refs[2])
       IN IF config = None \/ config[1] \notin DOMAIN b.objects THEN None
          ELSE LET content == b.objects[config[1]]
               IN IF content[1] = "otel_config" THEN Some(content[3]) ELSE None

capture_requirement_unmet(required, capture) ==
  required /\ capture # None /\ capture # Some("full")

-----------------------------------------------------------------------------
(* A policy is the flags of `bundle verify`: the keys trusted for            *)
(* signatures, those trusted and those required for attestations, whether a  *)
(* signature, an attestation or full capture is required at all.             *)

NoPolicy == [signers |-> {}, require_signature |-> FALSE, operators |-> {},
             require_operator |-> FALSE, required_operators |-> {}, require_capture |-> FALSE]

\* VerifyPolicy::load: a required operator key is trusted too.  The first key file
\* that cannot be read ends the command.
load_policy(flags, readable) ==
  IF ~(flags.signers \subseteq readable) THEN [error |-> Some("verify_key_error")]
  ELSE IF ~(flags.operators \cup flags.required_operators \subseteq readable)
  THEN [error |-> Some("operator_key_error")]
  ELSE [error |-> None,
        policy |-> [flags EXCEPT !.operators = @ \cup flags.required_operators]]

operator_requirements_ok(b, outcomes, policy) ==
  /\ ~AnyOutcome(outcomes, "invalid")
  /\ policy.require_operator => AnyOutcome(outcomes, "verified")
  /\ \A key \in policy.required_operators :
       \E i \in DOMAIN outcomes : outcomes[i] = "verified" /\ b.attestations[i].key_id = key

\* compute_passed_and_violations.
ComputePassed(violations, signatures, policy, operatorOk, unmet) ==
  /\ violations = {}
  /\ ~AnyOutcome(signatures, "invalid")
  /\ policy.require_signature => AnyOutcome(signatures, "verified")
  /\ operatorOk
  /\ ~unmet

\* The manifest's own times are compared with those of the first and last event.
metadata_warnings(b) ==
  LET n == Len(b.events)
  IN IF n = 0 THEN {}
     ELSE    (IF b.created_at # b.events[1].emitted_at.sec
              THEN {"manifest_created_at_mismatch"} ELSE {})
        \cup (IF b.ended_at # b.events[n].emitted_at.sec
              THEN {"manifest_ended_at_mismatch"} ELSE {})

\* Mutant: a verified signature is reported whatever it was found over.
SignatureVerifiedAlone(integrityOk, signatures) == AnyOutcome(signatures, "verified")

\* Both flags hold only over contents that hash to the signed head.
FlagGated(integrityOk, outcomes) == integrityOk /\ AnyOutcome(outcomes, "verified")

build_verify_report(b, passed, violations, signatures, operators, capture) ==
  LET integrityOk == \A v \in violations : v.category = "capture_requirement_unmet"
  IN [passed |-> passed, violations |-> violations,
      signatures |-> signatures, operators |-> operators, capture |-> capture,
      integrity_ok |-> integrityOk,
      signature_verified |-> FlagGated(integrityOk, signatures),
      operator_key_verified |-> FlagGated(integrityOk, operators),
      head |-> b.head, warnings |-> metadata_warnings(b)]

evaluate_bundle(b, policy) ==
  LET found == verify_bundle(b)
      signatures == verify_manifest_signatures(b, policy.signers)
      operators == verify_operator_attestations(b, policy.operators)
      capture == otel_capture_info(b)
      unmet == capture_requirement_unmet(policy.require_capture, capture)
  IN build_verify_report(b,
       ComputePassed(found, signatures, policy,
                     operator_requirements_ok(b, operators, policy), unmet),
       found \cup (IF unmet THEN {Violation("capture_requirement_unmet", 0, None)} ELSE {}),
       signatures, operators, capture)

\* An import that fails its integrity check reports that alone.
exit_bundle_verify_failed(b) ==
  build_verify_report(b, FALSE, verify_bundle(b), <<>>, <<>>, None)

\* `bundle verify` and `agef-verify`: key files, then the file, then the verdict.
BundleVerifyExit(flags, readable, error, b) ==
  LET loaded == load_policy(flags, readable)
  IN IF loaded.error # None THEN 3
     ELSE IF error # None THEN bundle_read_exit_code(error[1])
     ELSE IF evaluate_bundle(b, loaded.policy).passed THEN 0 ELSE 1

-----------------------------------------------------------------------------
(* The renderings of a report, as the claims they make.                      *)

headline(report) ==
  CASE ~report.passed -> "failed"
    [] report.signature_verified -> "signature verified"
    [] report.signatures = <<>> -> "unsigned"
    [] OTHER -> "present, not verified"

\* Nothing is added for a native bundle or a full import.
capture_human_suffix(capture) == IF capture \in {None, Some("full")} THEN None ELSE capture

\* The terminal's lines: the headline, the verdict on integrity, each violation,
\* each signature and each attestation with its outcome.
human_lines(report) ==
  [headline |-> headline(report), capture |-> capture_human_suffix(report.capture),
   integrity |-> report.integrity_ok, violations |-> report.violations,
   signatures |-> report.signatures, operators |-> report.operators,
   warnings |-> report.warnings]

markdown_signature_cell(report) ==
  CASE report.signatures = <<>> -> "NONE"
    [] report.signatures # <<>> /\ report.signature_verified -> "VERIFIED"
    [] ~report.signature_verified /\ AnyOutcome(report.signatures, "invalid") -> "INVALID"
    [] OTHER -> "PRESENT, NOT VERIFIED"

\* Whether the claim to an operator's name is backed by a key, entry by entry.
markdown_operator_cell(report) ==
  [i \in DOMAIN report.operators |-> report.operators[i] = "verified"]

markdown_capture_cell(report) ==
  CASE report.capture = None -> "FULL (native)"
    [] report.capture = Some("full") -> "FULL (import)"
    [] report.capture = Some("structural") -> "STRUCTURAL"
    [] report.capture = Some("partial") -> "PARTIAL"
    [] OTHER -> "unrecognized"

markdown(report) ==
  [verdict |-> CASE ~report.passed -> "FAILED"
                 [] report.passed /\ report.signature_verified -> "PASSED, signed"
                 [] OTHER -> "PASSED, integrity only",
   integrity |-> report.integrity_ok,
   signature |-> markdown_signature_cell(report),
   operators |-> markdown_operator_cell(report),
   capture |-> markdown_capture_cell(report),
   violations |-> report.violations, warnings |-> report.warnings,
   proves |->    (IF report.integrity_ok /\ report.signature_verified THEN {"contents as signed"} ELSE {})
            \cup (IF report.integrity_ok /\ ~report.signature_verified THEN {"consistent"} ELSE {})
            \cup (IF report.signature_verified THEN {"who signed"} ELSE {})
            \cup (IF report.operator_key_verified THEN {"operator key"} ELSE {}),
   does_not_prove |->
                 (IF ~report.signature_verified THEN {"who produced it"} ELSE {})
            \cup (IF report.capture \notin {None, Some("full")} THEN {"what was said"} ELSE {})]

-----------------------------------------------------------------------------
(* bundle prove-openssl: the bundle must verify; the first entry of the key  *)
(* must verify too; then the statement, the signature and the key are        *)
(* written, three files for the head and three for the operator.             *)

FirstEntryOf(entries, key) ==
  LET of == {i \in DOMAIN entries : entries[i].key_id = key}
  IN IF of = {} THEN None ELSE Some(entries[FirstOf(of)])

Refused(category) == [refused |-> Some(category)]

prepare_head_proof(b, key) ==
  LET entry == FirstEntryOf(b.signatures, key)
  IN IF entry = None THEN Refused("no_matching_signature")
     ELSE IF entry[1].signature # Signature(key, signing_statement(b))
     THEN Refused("signature_invalid")
     ELSE [refused |-> None, statement |-> signing_statement(b),
           signature |-> entry[1].signature, pubkey |-> key]

prepare_operator_proof(b, key) ==
  LET entry == FirstEntryOf(b.attestations, key)
  IN IF entry = None THEN Refused("no_matching_operator_attestation")
     ELSE IF entry[1].signature # Signature(key, operator_statement(b, entry[1].identity))
     THEN Refused("operator_signature_invalid")
     ELSE [refused |-> None, statement |-> operator_statement(b, entry[1].identity),
           signature |-> entry[1].signature, pubkey |-> key]

\* Every requested proof is prepared before anything is written.
prove(b, key, operator) ==
  LET head == prepare_head_proof(b, key)
      attested == IF operator = None THEN None ELSE Some(prepare_operator_proof(b, operator[1]))
  IN IF ~BundleIsClean(b) THEN Refused("integrity_failed")
     ELSE IF head.refused # None THEN head
     ELSE IF attested # None /\ attested[1].refused # None THEN attested[1]
     ELSE [refused |-> None, head |-> head, operator |-> attested]

\* The printed OpenSSL command checks the signature file over the statement file
\* with the key file.
openssl_accepts(proof) == proof.signature = Signature(proof.pubkey, proof.statement)
=============================================================================
