----------------------------- MODULE MCMemoSync -----------------------------
(* Two memos typed one after the other, each of any kind; one kill or      *)
(* stopped worker on the phone, one stop of the receiver.                  *)
EXTENDS MemoSync
=============================================================================
