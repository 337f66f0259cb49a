----------------------------- MODULE MCVoiceBle -----------------------------
(* VoiceBle with two transfer ids, of which 0 is also what a cleared       *)
(* transfer holds, and images of one and three units; four do not fit.     *)
EXTENDS VoiceBle

MCSizes == {1, 3, 4}
MCIds == {0, 1}
MCHandles == {1}
=============================================================================
