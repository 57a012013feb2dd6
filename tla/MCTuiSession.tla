----------------------------- MODULE MCTuiSession -----------------------------
(***************************************************************************)
(* Instances of TuiSession for TLC: two sessions; the bounds are in the cfg. *)
(***************************************************************************)
EXTENDS TuiSession

CONSTANTS s1, s2

MCSessions == {s1, s2}

=============================================================================
