------------------------------ MODULE MCShell ------------------------------
(* Bounds for TLC: three actions of the user and only Esc besides, or two  *)
(* actions and any one input to the command shell.                         *)
EXTENDS Shell

MCHosted == {<<3, 0>>, <<2, 1>>}
MCOneKey == {<<1, 0>>}
=============================================================================
