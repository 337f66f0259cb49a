----------------------------- MODULE MCReceiver -----------------------------
(* One recording id, sent by two requests at a time, with the same bytes   *)
(* or with others, of which some are silence; the receiver stops at any    *)
(* point.                                                                  *)
EXTENDS Receiver
=============================================================================
