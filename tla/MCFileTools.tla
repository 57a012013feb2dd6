--------------------------- MODULE MCFileTools ---------------------------
(* Two files and two calls at a time, over the contents and the requests   *)
(* that tell the tools apart; and, in behaviours of their own, the         *)
(* configuration file under commands that run one after the other.         *)
EXTENDS FileTools, ConfigStore

CONSTANTS f, g

X == <<"x">>
Y == <<"y">>
MCPersonText == <<"x", "p">>

MCStarts ==
    {[p \in {f, g} |-> IF p = f THEN v ELSE w] :
        v \in {<<"x">>, <<"x", "x">>}, w \in {Missing, <<"x", "z">>}}
    \union {[p \in {f, g} |-> IF p = f THEN v ELSE <<"x">>] :
              v \in {Binary, Link, Dir}}

One(tool, seg, dry) ==
    [tool |-> tool, segs |-> <<seg>>, dry |-> dry, file_path |-> seg.path]

MCRequests ==
    {One("edit", Segment(f, X, Y), FALSE),
     One("edit", Segment(f, X, Y), TRUE),
     One("edit", Segment(f, <<"z">>, X), FALSE),
     One("write_file", Segment(g, <<>>, Y), FALSE),
     One("write_file", Segment(g, <<>>, Y), TRUE),
     One("write_file", Segment(f, <<>>, Y), FALSE),
     One("edit", Segment(Outside, X, Y), FALSE),
     One("apply_patch", Segment(f, X, Y), FALSE),
     [One("apply_patch", Segment(f, X, Y), FALSE) EXCEPT !.file_path = g],
     [tool |-> "patch", dry |-> FALSE, file_path |-> f,
      segs |-> <<Segment(f, X, Y), Segment(g, X, Y)>>],
     [tool |-> "patch", dry |-> FALSE, file_path |-> f,
      segs |-> <<Segment(f, X, Y), Segment(f, Y, X)>>],
     [tool |-> "patch", dry |-> FALSE, file_path |-> f,
      segs |-> <<Segment(f, X, Y), [Segment(g, X, Y) EXCEPT !.parses = FALSE]>>]}

VARIABLE part

ToolsRest ==
    /\ Init
    /\ files = CHOOSE s \in Starts : TRUE
    /\ \A c \in Calls : calls[c].req = CHOOSE r \in Requests : TRUE
    /\ git.head = git.index
StoreRest ==
    /\ config = 0 /\ tmp = 0 /\ inodes = <<>> /\ procs = <<>>
    /\ expected = Empty /\ commands = 0 /\ failures = 0

PartsInit ==
    \/ part = "tools" /\ Init /\ StoreRest
    \/ part = "config" /\ ToolsRest /\ StoreInit

PartsNext ==
    \/ part = "tools" /\ Next /\ UNCHANGED storeVars /\ UNCHANGED part
    \/ part = "config" /\ StoreNext /\ UNCHANGED vars /\ UNCHANGED part

PartsSpec == PartsInit /\ [][PartsNext]_<<part, vars, storeVars>>
==========================================================================
