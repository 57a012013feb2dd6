---------------------------- MODULE FileTools ----------------------------
(***************************************************************************)
(* The tools that change files (akmon-tools: write_file, edit, patch,      *)
(* apply_patch, over atomic_write), run side by side as the agent loop     *)
(* runs the approved calls of one assistant message, and the automatic     *)
(* git commit that follows each successful call.                           *)
(*                                                                         *)
(* A file is a sequence of words, which is all that exact matching and     *)
(* hunks need.  Each await of the code that another call can fall into is  *)
(* a step: looking at the path, reading the file, creating the temp file,  *)
(* writing and syncing it, renaming it.  The process may be killed and the *)
(* machine may lose power at any of them.                                  *)
(***************************************************************************)
EXTENDS Naturals, FiniteSets, Sequences, TLC

CONSTANTS Files,        \* the paths inside the sandbox the calls may name
          Words,        \* what contents are made of
          Outside,      \* a path that resolves outside the sandbox
          Missing,      \* nothing at the path (its directory exists)
          Binary,       \* a regular file that is not UTF-8
          Link,         \* a symbolic link as the last component
          Dir,          \* a directory, or anything else not a regular file
          Torn,         \* part of a content
          PersonText,   \* the content the person saves
          Starts,       \* what the paths may hold at first (functions on Files)
          Requests,     \* the calls a message may make
          NCalls,       \* how many calls the message makes
          MaxSaves,     \* bound: files the person saves meanwhile
          MaxFaults     \* bound: failing operations, kills and power losses

ASSUME FileToolsAssumption ==
    /\ Outside \notin Files
    /\ NCalls \in Nat \ {0} /\ MaxSaves \in Nat /\ MaxFaults \in Nat

(***************************************************************************)
(* What a path may hold, and what a call asks for: the tool, one segment   *)
(* per file (a patch may have several, the others have one), and whether   *)
(* it is a dry run.  A segment names a path, the words it replaces and the *)
(* words that take their place; parses says whether its diff text does.    *)
(***************************************************************************)
Contents == Seq(Words) \union {Missing, Binary, Link, Dir}
Paths == Files \union {Outside}
Segments == [path: Paths, old: Seq(Words), new: Seq(Words), parses: BOOLEAN]
AnyRequest ==
    [tool: {"write_file", "edit", "patch", "apply_patch"},
     segs: Seq(Segments) \ {<<>>}, dry: BOOLEAN, file_path: Paths]

ASSUME ContentAssumption ==
    /\ {Missing, Binary, Link, Dir, Torn} \intersect Seq(Words) = {}
    /\ Torn \notin {Missing, Binary, Link, Dir}
    /\ Missing \notin {Binary, Link, Dir} /\ Binary \notin {Link, Dir}
    /\ PersonText \in Seq(Words)
    /\ Starts \subseteq [Files -> Contents]
    /\ Requests \subseteq AnyRequest
    /\ \A r \in Requests : r.tool \in {"write_file", "edit"} => Len(r.segs) = 1

VARIABLES files,    \* what each path holds
          temps,    \* the temp file of a call, while it has one
          former,   \* path |-> what a power loss may bring back there
          calls,    \* the calls of the batch
          git,      \* index and HEAD of the repository, auto-commit cursor
          up,       \* the process runs
          writes,   \* history: the renames of each call
          saved,    \* history: the files the person saved
          faults    \* faults so far

vars == <<files, temps, former, calls, git, up, writes, saved, faults>>

Calls == 1..NCalls
Text(v) == v \notin {Missing, Binary, Link, Dir, Torn}

Segment(p, old, new) == [path |-> p, old |-> old, new |-> new, parses |-> TRUE]

(* The positions at which the words old stand in the content v. *)
Occurrences(v, old) ==
    {i \in 1..Len(v) : /\ i + Len(old) - 1 <= Len(v)
                       /\ SubSeq(v, i, i + Len(old) - 1) = old}

(* count_occurrences: match_indices counts matches that do not overlap,    *)
(* from the left.                                                          *)
MatchCount(v, old) ==
    LET from[i \in 1..Len(v) + 1] ==
            IF i > Len(v) THEN 0
            ELSE IF i \in Occurrences(v, old)
                 THEN 1 + from[i + Len(old)]
                 ELSE from[i + 1]
    IN  from[1]

ReplaceFirst(v, old, new) ==
    LET i == CHOOSE j \in Occurrences(v, old) :
                 \A k \in Occurrences(v, old) : j <= k
    IN  SubSeq(v, 1, i - 1) \o new \o SubSeq(v, i + Len(old), Len(v))

(* What a hunk does to the content: diffy finds the place where the old    *)
(* lines stand and puts the new ones there, or refuses.                    *)
Applies(v, seg) == Occurrences(v, seg.old) # {}

(***************************************************************************)
(* The checks of a tool before it touches the file, in their order.  The   *)
(* result is the error code, or "Ok".                                      *)
(***************************************************************************)
PathCheck(call, seg) ==
    LET v == files[seg.path] IN
    IF seg.path = Outside THEN "PathEscape"
    ELSE IF v = Link THEN "SymlinkRefused"
    ELSE IF v = Missing /\ call.tool # "write_file" THEN "NotFound"
    ELSE IF v = Dir THEN "NotAFile"
    ELSE "Ok"

(* normalize_single_file_patch: apply_patch hands the patch tool one       *)
(* segment whose headers name file_path; anything else is refused first.   *)
Normalized(call) ==
    call.tool = "apply_patch" =>
        /\ Len(call.segs) = 1
        /\ call.segs[1].parses
        /\ call.segs[1].path = call.file_path

(* What the tool does with what it read: an error code, or the content the *)
(* file will get.                                                          *)
Outcome(call, seg, v) ==
    CASE call.tool = "write_file" -> [code |-> "Ok", text |-> seg.new]
      [] call.tool # "write_file" /\ v = Missing ->
             [code |-> "NotFound", text |-> <<>>]
      [] call.tool # "write_file" /\ v = Binary ->
             [code |-> "BinaryContent", text |-> <<>>]
      [] call.tool = "edit" /\ Text(v) ->
             LET n == MatchCount(v, seg.old) IN
             IF n = 0 THEN [code |-> "NotFound", text |-> <<>>]
             ELSE IF n >= 2 THEN [code |-> "AmbiguousMatch", text |-> <<>>]
             ELSE [code |-> "Ok", text |-> ReplaceFirst(v, seg.old, seg.new)]
      [] call.tool \in {"patch", "apply_patch"} /\ Text(v) ->
             IF Applies(v, seg)
             THEN [code |-> "Ok", text |-> ReplaceFirst(v, seg.old, seg.new)]
             ELSE [code |-> "PatchFailed", text |-> <<>>]

-----------------------------------------------------------------------------

(* A batch of calls over some files.  Something may already be staged that *)
(* is not committed: then the path is new to the repository.               *)
Init ==
    /\ files \in Starts
    /\ temps = [c \in {} |-> <<>>]
    /\ former = [f \in Files |-> {}]
    /\ \E reqs \in [Calls -> Requests] :
          calls = [c \in Calls |->
                     [req |-> reqs[c], at |-> "start", seg |-> 1,
                      read |-> Missing, text |-> <<>>,
                      changes |-> <<>>, code |-> "None"]]
    /\ \E staged \in SUBSET {f \in Files : Text(files[f])} :
          git = [index |-> files,
                 head |-> [f \in Files |-> IF f \in staged THEN Missing
                                           ELSE files[f]],
                 next |-> 1, at |-> "add", commits |-> <<>>]
    /\ up = TRUE
    /\ writes = [c \in Calls |-> <<>>] /\ saved = {} /\ faults = 0

Req(c) == calls[c].req
Seg(c) == Req(c).segs[calls[c].seg]

(* A call that meets an error returns the error alone: the changes a patch *)
(* has collected from the files before are dropped.                        *)
Failed(c, code) ==
    [calls EXCEPT ![c].at = "done", ![c].code = code, ![c].changes = <<>>]

(* The content a change set shows for what was read: write_file also goes  *)
(* over a file it could not read as text, and shows an empty one.          *)
Shown(v) == IF Text(v) THEN v ELSE <<>>

(* Where a call goes when a segment is done: to the next one, or it        *)
(* returns the change set it collected.                                    *)
SegmentDone(c, read, after) ==
    LET more == calls[c].seg < Len(Req(c).segs)
    IN  [calls EXCEPT
           ![c].changes = Append(@, [path |-> Seg(c).path,
                                     before |-> Shown(read), after |-> after]),
           ![c].seg = IF more THEN @ + 1 ELSE @,
           ![c].at = IF more THEN "start" ELSE "done",
           ![c].code = IF more THEN @ ELSE "Ok"]

(* The checks at the head of execute, once per segment for a patch. *)
Look(c) ==
    /\ up /\ calls[c].at = "start"
    /\ LET code == IF ~Normalized(Req(c)) \/ ~Seg(c).parses
                   THEN "InvalidArgs" ELSE PathCheck(Req(c), Seg(c))
       IN  calls' = IF code = "Ok" THEN [calls EXCEPT ![c].at = "read"]
                    ELSE Failed(c, code)
    /\ UNCHANGED <<files, temps, former, git, up, writes, saved, faults>>

(* Mutant: dry_run is not looked at. *)
ReadAndWrite(c) ==
    /\ up /\ calls[c].at = "read"
    /\ LET v == files[Seg(c).path]
           r == Outcome(Req(c), Seg(c), v)
       IN  calls' = IF r.code # "Ok" THEN Failed(c, r.code)
                    ELSE [calls EXCEPT ![c].at = "create", ![c].read = v,
                                       ![c].text = r.text]
    /\ UNCHANGED <<files, temps, former, git, up, writes, saved, faults>>

(* What the tool makes of what it read.  A dry run goes no further. *)
ReadAs(c, v) ==
    LET r == Outcome(Req(c), Seg(c), v)
    IN  calls' = IF r.code # "Ok" THEN Failed(c, r.code)
                 ELSE IF Req(c).dry THEN SegmentDone(c, v, r.text)
                 ELSE [calls EXCEPT ![c].at = "create", ![c].read = v,
                                    ![c].text = r.text]

ReadFile(c) ==
    /\ up /\ calls[c].at = "read"
    /\ ReadAs(c, files[Seg(c).path])
    /\ UNCHANGED <<files, temps, former, git, up, writes, saved, faults>>

(* fs::read fails on a file that is there: write_file goes on as if there  *)
(* were none, the other tools return the error.                            *)
ReadFails(c) ==
    /\ up /\ calls[c].at = "read" /\ faults < MaxFaults
    /\ files[Seg(c).path] # Missing
    /\ IF Req(c).tool = "write_file" THEN ReadAs(c, Missing)
       ELSE calls' = Failed(c, "PermissionDenied")
    /\ faults' = faults + 1
    /\ UNCHANGED <<files, temps, former, git, up, writes, saved>>

(***************************************************************************)
(* atomic_write_in_sandbox: a fresh file beside the target, the whole      *)
(* content, sync_all, the target's permissions, then the rename.           *)
(***************************************************************************)
CreateTemp(c) ==
    /\ up /\ calls[c].at = "create"
    /\ temps' = [d \in DOMAIN temps \union {c} |->
                   IF d = c THEN [data |-> Torn, synced |-> FALSE] ELSE temps[d]]
    /\ calls' = [calls EXCEPT ![c].at = "write"]
    /\ UNCHANGED <<files, former, git, up, writes, saved, faults>>

WriteTemp(c) ==
    /\ up /\ calls[c].at = "write"
    /\ temps' = [temps EXCEPT ![c].data = calls[c].text]
    /\ calls' = [calls EXCEPT ![c].at = "sync"]
    /\ UNCHANGED <<files, former, git, up, writes, saved, faults>>

(* Mutant: the content is flushed but not synced. *)
FlushTemp(c) ==
    /\ up /\ calls[c].at = "sync"
    /\ calls' = [calls EXCEPT ![c].at = "rename"]
    /\ UNCHANGED <<files, temps, former, git, up, writes, saved, faults>>

SyncTemp(c) ==
    /\ up /\ calls[c].at = "sync"
    /\ temps' = [temps EXCEPT ![c].synced = TRUE]
    /\ calls' = [calls EXCEPT ![c].at = "rename"]
    /\ UNCHANGED <<files, former, git, up, writes, saved, faults>>

Without(c) == [d \in DOMAIN temps \ {c} |-> temps[d]]

(* Nothing syncs the directory: a power loss may bring back what the path  *)
(* held before, and shows what was synced of the new content.              *)
Rename(c) ==
    /\ up /\ calls[c].at = "rename"
    /\ LET p == Seg(c).path IN
       /\ files' = [files EXCEPT ![p] = temps[c].data]
       /\ former' = [former EXCEPT
                       ![p] = @ \union {files[p]}
                                \union (IF temps[c].synced THEN {} ELSE {Torn})]
       /\ writes' = [writes EXCEPT
                       ![c] = Append(@, [path |-> p, from |-> calls[c].read,
                                         to |-> temps[c].data])]
    /\ temps' = Without(c)
    /\ calls' = SegmentDone(c, calls[c].read, calls[c].text)
    /\ UNCHANGED <<git, up, saved, faults>>

(* An operation of the write fails: the temp file, when there is one, is   *)
(* removed as far as that works, and the tool returns the error.           *)
Cleanup(c) ==
    temps' \in {Without(c), temps} /\ faults' = faults + 1

WriteFails(c) ==
    /\ up /\ faults < MaxFaults
    /\ calls[c].at \in {"create", "write", "sync", "rename"}
    /\ Cleanup(c)
    /\ calls' = Failed(c, "PermissionDenied")
    /\ UNCHANGED <<files, former, git, up, writes, saved>>

-----------------------------------------------------------------------------
(***************************************************************************)
(* try_auto_commit_after_file_tool, for each successful call in the order  *)
(* of the message, when all calls of the batch have returned.  A git       *)
(* command that fails ends it for this call; the tool call has succeeded   *)
(* all the same.                                                           *)
(***************************************************************************)
BatchDone == \A c \in Calls : calls[c].at = "done"

(* The file a successful call may commit, which it resolves once more. *)
Touched(c) == Req(c).segs[1].path
Commits(c) ==
    /\ calls[c].code = "Ok" /\ Req(c).tool # "patch"
    /\ files[Touched(c)] # Missing

NextCall == [git EXCEPT !.next = @ + 1, !.at = "add"]
Staged == {f \in Files : git.index[f] # git.head[f]}

NothingToCommit ==
    /\ up /\ BatchDone /\ git.next <= NCalls /\ git.at = "add"
    /\ ~Commits(git.next)
    /\ git' = NextCall
    /\ UNCHANGED <<files, temps, former, calls, up, writes, saved, faults>>

(* Mutant: commit -a, which leaves out the files git does not know. *)
AddTracked ==
    /\ up /\ BatchDone /\ git.next <= NCalls /\ git.at = "add"
    /\ Commits(git.next)
    /\ git' = LET path == Touched(git.next)
              IN IF git.head[path] = Missing THEN [git EXCEPT !.at = "commit"]
                 ELSE [git EXCEPT !.index[path] = files[path], !.at = "commit"]
    /\ UNCHANGED <<files, temps, former, calls, up, writes, saved, faults>>

GitAdd ==
    /\ up /\ BatchDone /\ git.next <= NCalls /\ git.at = "add"
    /\ Commits(git.next)
    /\ git' = LET path == Touched(git.next)
              IN [git EXCEPT !.index[path] = files[path], !.at = "commit"]
    /\ UNCHANGED <<files, temps, former, calls, up, writes, saved, faults>>

(* git commit -m takes the whole index, and fails when nothing is staged. *)
GitCommit ==
    /\ up /\ git.at = "commit"
    /\ git' = IF Staged = {} THEN NextCall
              ELSE [NextCall EXCEPT
                      !.head = git.index,
                      !.commits = Append(@, [call |-> git.next,
                                             paths |-> Staged])]
    /\ UNCHANGED <<files, temps, former, calls, up, writes, saved, faults>>

GitFails ==
    /\ up /\ BatchDone /\ git.next <= NCalls /\ Commits(git.next)
    /\ faults < MaxFaults
    /\ git' = NextCall /\ faults' = faults + 1
    /\ UNCHANGED <<files, temps, former, calls, up, writes, saved>>

-----------------------------------------------------------------------------
(* The person saves a file in an editor meanwhile. *)
PersonSaves(f) ==
    /\ up /\ Cardinality(saved) < MaxSaves /\ Text(files[f])
    /\ files' = [files EXCEPT ![f] = PersonText]
    /\ saved' = saved \union {f}
    /\ UNCHANGED <<temps, former, calls, git, up, writes, faults>>

(* The process is killed: what is on disk stays, temp files included. *)
Kill ==
    /\ up /\ faults < MaxFaults
    /\ up' = FALSE /\ faults' = faults + 1
    /\ UNCHANGED <<files, temps, former, calls, git, writes, saved>>

(* The power fails: a rename may be undone, data that was not synced is    *)
(* partly there.                                                           *)
PowerLoss ==
    /\ up /\ faults < MaxFaults
    /\ \E now \in [Files -> UNION {former[f] \union {files[f]} : f \in Files}] :
          /\ \A f \in Files : now[f] \in former[f] \union {files[f]}
          /\ files' = now
    /\ temps' = [c \in DOMAIN temps |->
                   IF temps[c].synced THEN temps[c]
                   ELSE [temps[c] EXCEPT !.data = Torn]]
    /\ up' = FALSE /\ faults' = faults + 1
    /\ UNCHANGED <<former, calls, git, writes, saved>>

Next ==
    \/ \E c \in Calls : \/ Look(c) \/ ReadFile(c) \/ ReadFails(c)
                         \/ CreateTemp(c) \/ WriteTemp(c) \/ SyncTemp(c) \/ Rename(c)
                         \/ WriteFails(c)
    \/ NothingToCommit \/ GitAdd \/ GitCommit \/ GitFails
    \/ \E f \in Files : PersonSaves(f)
    \/ Kill \/ PowerLoss

Spec == Init /\ [][Next]_vars

-----------------------------------------------------------------------------
(***************************************************************************)
(* Properties.                                                             *)
(***************************************************************************)
(* No torn file (atomic_write.rs: "readers never observe a torn write"):   *)
(* at any time, and after a kill or a power loss at any point, a path      *)
(* holds a whole version: what it held at first, what the person saved, or *)
(* what one tool computed from a version it read whole.                    *)
WholeFiles ==
    /\ \A f \in Files : files[f] # Torn
    /\ \A c \in Calls : \A i \in 1..Len(writes[c]) : writes[c][i].from # Torn

(* What a call says it did is what it did.  A successful call lists, in    *)
(* order, exactly the files it replaced, with the content read (as far as  *)
(* it was text) and the content put there; a dry run lists what it would   *)
(* do to every file and replaced none.  A call that returns an error lists *)
(* nothing: the one-file tools have replaced nothing then, but a patch of  *)
(* several files has replaced those before the one that failed, exactly    *)
(* those, and its error does not name them.                                *)
ReportsAreTrue ==
    \A c \in Calls : calls[c].at = "done" =>
        LET ok == calls[c].code = "Ok"
            call == Req(c)
            done == writes[c]
            replaced == [i \in DOMAIN done |->
                           [path |-> done[i].path, before |-> Shown(done[i].from),
                            after |-> done[i].to]]
        IN  /\ call.dry => done = <<>>
            /\ ok => Len(calls[c].changes) = Len(call.segs)
            /\ ok /\ ~call.dry => calls[c].changes = replaced
            /\ ~ok => calls[c].changes = <<>>
            /\ ~ok /\ call.tool # "patch" => done = <<>>
            /\ ~call.dry => /\ Len(done) = IF ok THEN Len(call.segs) ELSE calls[c].seg - 1
                           /\ \A i \in DOMAIN done : done[i].path = call.segs[i].path

(* auto_commit commits what the tools wrote: when the batch is over and    *)
(* git worked, the last commit holds what is on disk in every file that a  *)
(* successful edit, write_file or apply_patch changed and nobody saved     *)
(* over.                                                                   *)
WorkIsCommitted ==
    (up /\ git.next > NCalls /\ faults = 0) =>
        \A c \in Calls : (Commits(c) /\ ~Req(c).dry /\ Touched(c) \notin saved)
                           => git.head[Touched(c)] = files[Touched(c)]

==========================================================================
