---------------------------- MODULE MCLifeline1 -----------------------------
(* Values of the constants of Lifeline1 for TLC. *)
EXTENDS Lifeline1

TwoNames == <<"lifeline.hy5.berlin", "lifeline.exys.org">>

=============================================================================
