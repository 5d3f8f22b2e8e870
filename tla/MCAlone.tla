------------------------------ MODULE MCAlone ------------------------------
(* The judged loop of MCEvalEngine, and a single piston.                   *)
EXTENDS MCEvalEngine, Alone
=============================================================================
