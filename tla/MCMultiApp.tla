----------------------------- MODULE MCMultiApp ------------------------------
(* Small instances of MultiApp for TLC. *)
EXTENDS MultiApp

CONSTANT old

SomeAnswers == {"weather", "stock"}
=============================================================================
