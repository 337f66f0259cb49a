---------------------------- MODULE MCAppControl ----------------------------
(* Instance of AppControl: an event queue that bursts of buttons fill, and *)
(* the two host messages that change what a press does.                    *)
EXTENDS AppControl
=============================================================================
