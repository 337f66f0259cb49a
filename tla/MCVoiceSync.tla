---------------------------- MODULE MCVoiceSync -----------------------------
(* One recording, spoken or silent, sent as often as it takes to lose an   *)
(* answer, restart both sides and send it again.                           *)
EXTENDS VoiceSync
=============================================================================
