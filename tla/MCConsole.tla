------------------------------ MODULE MCConsole ------------------------------
(* Console for TLC: one key of each kind, and a prompt of one character.   *)
EXTENDS Console

Prompt == {<<"$">>}
==============================================================================
