---------------------------- MODULE JournalVerify ----------------------------
(***************************************************************************)
(* The verifier of session histories against histories nobody appended.    *)
(* A session is written by append, then damaged in up to MaxEdits places:  *)
(* events lost, reordered, edited, re-hashed or added, objects lost or     *)
(* overwritten, the head row overwritten.  Each edit is what one of the    *)
(* repository's corruption fixtures does, and every combination is tried.  *)
(***************************************************************************)
EXTENDS VerifyReports

CONSTANTS
  Bytes,      \* object contents
  Forms,      \* what kinds of events differ in: their tag, a ProviderCall's attempts
  Clock,      \* readings of now_utc(): records [sec, nanos]
  Instants,   \* what an edited event's time may be: records [sec, nanos]
  MaxEvents,  \* bound: events of the session as written
  MaxEdits    \* bound: edits made to it

ASSUME VerifyBounds == MaxEvents \in Nat /\ MaxEdits \in Nat

ASSUME FormsAssumption ==
  \A f \in Forms :
    f.tag \in Tags /\ f.attempts \in Seq([attempt_number : Nat, started_at : Int])

VARIABLES
  written,    \* the history as append left it
  history,    \* the history as it is read back
  head,       \* the head row as it is read back
  objects,    \* the object table as it is read back
  edits

verifyVars == <<written, history, head, objects, edits>>

Kind(f, b) == EventKind(f.tag, <<digest_bytes(b)>>, f.attempts)

Ended(h) == h # <<>> /\ h[Len(h)].event.kind.tag = "SessionEnd"

VerifyInit ==
  /\ written = <<>> /\ history = <<>> /\ head = None
  /\ objects = [h \in {digest_bytes(b) : b \in Bytes} |-> h[2]]
  /\ edits = 0

Write ==
  /\ edits = 0 /\ ~Ended(history) /\ Len(history) < MaxEvents
  /\ \E f \in Forms, b \in Bytes, now \in Clock :
       /\ validate_event_kind_invariants(Kind(f, b))
       /\ (history = <<>>) <=> (f.tag = "SessionStart")
       /\ history' = AppendTo(history, Kind(f, b), now)
  /\ written' = history'
  /\ head' = Some(history'[Len(history')].hash)
  /\ UNCHANGED <<objects, edits>>

(***************************************************************************)
(* Edits of a finished session.                                            *)
(***************************************************************************)
Edit ==
  /\ Ended(written) /\ edits < MaxEdits
  /\ edits' = edits + 1
  /\ UNCHANGED written

LoseEvent ==
  /\ Edit
  /\ \E i \in DOMAIN history :
       history' = [k \in 1..(Len(history) - 1) |-> history[IF k < i THEN k ELSE k + 1]]
  /\ UNCHANGED <<head, objects>>

SwapEvents ==
  /\ Edit
  /\ \E i, k \in DOMAIN history :
       /\ i < k
       /\ history' = [history EXCEPT ![i] = history[k], ![k] = history[i]]
  /\ UNCHANGED <<head, objects>>

EditsOf(e) ==
  {[e EXCEPT !.kind = Kind(f, b)] : f \in Forms, b \in Bytes}
  \cup {[e EXCEPT !.emitted_at = now] : now \in Instants}
  \cup {[e EXCEPT !.sequence = q] : q \in 0..MaxEvents}
  \cup {[e EXCEPT !.parents = p] :
          p \in {None} \cup {Some(history[k].hash) : k \in DOMAIN history}}

\* The fields of an event are overwritten; its stored hash is kept or made to
\* match again.
EditEvent ==
  /\ Edit
  /\ \E i \in DOMAIN history, rehash \in BOOLEAN :
     \E e \in EditsOf(history[i].event) \ {history[i].event} :
       history' = [history EXCEPT ![i] = IF rehash THEN StoredEvent(e)
                                         ELSE [hash |-> history[i].hash, event |-> e]]
  /\ UNCHANGED <<head, objects>>

AddEvent ==
  /\ Edit /\ Len(history) < MaxEvents
  /\ \E f \in Forms, b \in Bytes, now \in Clock :
       history' = AppendTo(history, Kind(f, b), now)
  /\ UNCHANGED <<head, objects>>

LoseObject ==
  /\ Edit
  /\ \E h \in DOMAIN objects : objects' = [x \in DOMAIN objects \ {h} |-> objects[x]]
  /\ UNCHANGED <<history, head>>

OverwriteObject ==
  /\ Edit
  /\ \E h \in DOMAIN objects, b \in Bytes :
       objects[h] # b /\ objects' = [objects EXCEPT ![h] = b]
  /\ UNCHANGED <<history, head>>

OverwriteHead ==
  /\ Edit
  /\ \E h \in {None} \cup {Some(history[i].hash) : i \in DOMAIN history} :
       h # head /\ head' = h
  /\ UNCHANGED <<history, objects>>

VerifyNext ==
  \/ Write \/ LoseEvent \/ SwapEvents \/ EditEvent \/ AddEvent
  \/ LoseObject \/ OverwriteObject \/ OverwriteHead

VerifySpec == VerifyInit /\ [][VerifyNext]_verifyVars

(***************************************************************************)
(* Properties.                                                             *)
(***************************************************************************)
Wire(h) == [i \in DOMAIN h |-> WireEvent(h[i].event)]

\* Every prefix is what append makes of the one before it, from the same kinds and
\* times: the reference that the verifier's list of checks is compared with.
\* append also refuses a SessionStart that is not the first event and a
\* ProviderCall whose attempts are missing or out of order; the verifier looks for
\* neither, so Appended excludes neither.
Appended(h) ==
  /\ h # <<>> /\ h[1].event.kind.tag = "SessionStart"
  /\ \A i \in DOMAIN h :
       SubSeq(h, 1, i) = AppendTo(SubSeq(h, 1, i-1), h[i].event.kind, h[i].event.emitted_at)
  /\ SessionEnds(h) = {Len(h)}

ObjectsIntact(h) ==
  \A x \in Referenced(h) : x \in DOMAIN objects /\ digest_bytes(objects[x]) = x

\* verify reports a history clean exactly when it is a chain that appends could
\* have linked, it begins with SessionStart and ends with its only SessionEnd,
\* its objects are intact and the head row, if there is one, names its last
\* event: the seven checks together are neither too weak nor too strong.
CleanIffAppended ==
  is_clean(verify_history_against_store(history, head, objects)) <=>
    /\ Appended(history)
    /\ ObjectsIntact(history)
    /\ head \in {None, Some(history[Len(history)].hash)}

\* The bundle of the session as written, signed; and that bundle with the events
\* and objects as they are now, its counts brought up to date or not.
SignedAsWritten ==
  LET head0 == Some(written[Len(written)].hash)
      b == assemble_session_bundle("s", [head |-> head0, history |-> written],
             [h \in {digest_bytes(x) : x \in Bytes} |-> h[2]])
  IN add_head_signature(OnWire(b), "signer")

DamagedBundle(signed, recounted) ==
  LET kept == DOMAIN objects \cap DOMAIN signed.objects
  IN OnWire([signed EXCEPT !.events = [i \in DOMAIN history |-> history[i].event],
                           !.objects = [h \in kept |-> objects[h]],
                           !.event_count = IF recounted THEN Len(history) ELSE @,
                           !.object_count = IF recounted THEN Cardinality(kept) ELSE @])

TrustSigner == [NoPolicy EXCEPT !.signers = {"signer"}]

\* Every rendering of a report makes the claims of its fields.
ClaimsAgree(report) ==
  LET md == markdown(report)  shown == human_lines(report)
  IN /\ shown.headline = "signature verified" <=> md.verdict = "PASSED, signed"
     /\ shown.headline = "failed" <=> md.verdict = "FAILED"
     /\ shown.integrity <=> shown.violations \subseteq
          {Violation("capture_requirement_unmet", 0, None)}
     /\ md.signature = "VERIFIED" <=> report.signature_verified
     /\ "contents as signed" \in md.proves <=> report.signature_verified
     /\ report.signature_verified \/ report.operator_key_verified => report.integrity_ok
     /\ report.passed => report.integrity_ok

\* A reader who kept the head of the session as written, and verifies against
\* it, sees either violations or the session as it was written, down to the
\* whole seconds that the event hash covers, and its objects.  So does the reader
\* of a bundle that was signed then and damaged since: it passes, and is called
\* signed in any rendering, only with the events and objects that were signed; an
\* import of it is refused for the same violations, and calls nothing signed.
HeadCommitsToSession ==
  Ended(written) =>
    /\ LET declared == Some(written[Len(written)].hash)
       IN is_clean(verify_history_against_store(history, declared, objects)) =>
            Wire(history) = Wire(written) /\ ObjectsIntact(written)
    /\ \A recounted \in BOOLEAN :
         LET signed == SignedAsWritten
             damaged == DamagedBundle(signed, recounted)
             report == evaluate_bundle(damaged, TrustSigner)
             refusal == exit_bundle_verify_failed(damaged)
         IN /\ report.signature_verified =>
                 damaged.events = signed.events /\ damaged.objects = signed.objects
            /\ report.passed <=> report.signature_verified
            /\ verify_bundle_strict(damaged) = None <=> report.integrity_ok
            /\ refusal.violations = report.violations
            /\ ~refusal.passed /\ ~refusal.signature_verified
            /\ ClaimsAgree(report)

\* The categories of the bundle's verifier by their names in the journal's.
JournalCategory(category) ==
  CASE category = "broken_parent_chain" -> "parent_chain"
    [] category = "object_key_hash_mismatch" -> "object_hash_mismatch"
    [] OTHER -> category

\* events.bin broken off after any number of frames, or inside one, is refused or
\* read as events that do not verify.
TruncationShows(b) ==
  LET frames == [i \in DOMAIN b.events |-> Frame(b.events[i], "whole")]
  IN \A n \in 0..(Len(frames) - 1), form \in FrameForms :
       LET read == read_events(SubSeq(frames, 1, n) \o
                     (IF form = "whole" THEN <<>> ELSE <<Frame(b.events[n+1], form)>>))
       IN read.error = None => ~BundleIsClean([b EXCEPT !.events = read.events])

\* append would accept the kind of every event.
KindsAccepted(h) == \A i \in DOMAIN h : validate_event_kind_invariants(h[i].event.kind)

\* The two verifiers agree, category by category, but for the attempts of provider
\* calls, which only verify_bundle checks.  What verify_bundle finds in the bundle
\* of a session, whatever has happened to it, is what the journal's verifier finds
\* in the session that an import makes of the bundle, and event_invariant besides
\* exactly when append would have refused the kind of some event.  So a session
\* that `session verify` calls clean has a bundle that is clean if, and only if,
\* every ProviderCall in it is one that append accepts.  (A clean bundle may come of
\* a session that is not: it carries no stored hashes, and the export heals those.)
\* The JSON report of `session verify` has a violation exactly when its exit code
\* and its terminal output say that it failed.
VerifiersAgree ==
  LET row == [head |-> head, history |-> history]
      b == OnWire(assemble_session_bundle("s", row, objects))
      report == verify_history_against_store(history, head, objects)
      json == verify_report_v1(report)
      human == run_verify_human(report)
  IN /\ json.violations = {} <=> json.passed
     /\ json.passed <=> run_verify_exit(TRUE, report) = 0
     /\ json.passed <=> human.nonzero = {} /\ human.session_end = "present and terminal"
     /\ Exportable(row, objects) =>
          LET imported_ == verify_history_against_store(bundle_import_history(b), Some(b.head), b.objects)
          IN /\ {JournalCategory(v.category) : v \in verify_bundle(b)} =
                  {v[1] : v \in verify_report_v1(imported_).violations}
                    \cup (IF KindsAccepted(history) THEN {} ELSE {"event_invariant"})
             /\ is_clean(report) =>
                  TruncationShows(b) /\ (BundleIsClean(b) <=> KindsAccepted(history))
=============================================================================
