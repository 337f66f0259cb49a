------------------------------ MODULE MCScreen ------------------------------
(* Screen has no constants and needs no bound: all of its states.          *)
EXTENDS Screen
=============================================================================
