--------------------------- MODULE MCProviderCall ---------------------------
(***************************************************************************)
(* Small instances of ProviderCall for TLC.                                *)
(***************************************************************************)
EXTENDS ProviderCall

\* Answers of a playback provider: with and without a terminal item, and empty.
MCScripts == {<<"text", "done">>, <<"text">>, <<>>}
=============================================================================
