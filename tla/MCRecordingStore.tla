-------------------------- MODULE MCRecordingStore --------------------------
(* Instance of RecordingStore: two names, small pages, packets of every    *)
(* kind the page arithmetic tells apart.                                   *)
EXTENDS RecordingStore

MCPacket == {"short", "long", "empty", "oversize"}
(* With LaceMax = 4: one lacing value, two lacing values, none at all, and *)
(* more bytes than a page holds.                                           *)
MCSize == [p \in MCPacket |-> CASE p = "short" -> 2
                                [] p = "long" -> 5
                                [] p = "empty" -> 0
                                [] p = "oversize" -> 9]
=============================================================================
