---------------------------- MODULE RecordingLog ----------------------------
(***************************************************************************)
(* What the recording store promises to its caller, without pages, buffers *)
(* or files: a recording is a sequence of packets that ends as a "final"   *)
(* file holding every accepted packet, or, when something failed or power  *)
(* went, as a "partial" file holding a prefix that lost no more than       *)
(* LossBound packets behind the last accepted one.                         *)
(*                                                                         *)
(* RecordingStore implements this module, AudioPipeline is built on it.    *)
(***************************************************************************)
EXTENDS Integers, Sequences

CONSTANTS Name,       \* the file names a recording may be given
          Packet,     \* the Opus packets
          LossBound,  \* how many accepted packets a crash may lose
          NoName      \* no recording is open

VARIABLES open,       \* the recording being written, or NoName
          accepted,   \* the packets accepted for it, in order
          disk        \* for every name, what survives on the medium

logVars == <<open, accepted, disk>>

Absent == [kind |-> "absent", packets |-> << >>]
Prefix(s, k) == SubSeq(s, 1, k)

LogInit ==
    /\ open = NoName
    /\ accepted = << >>
    /\ disk = [n \in Name |-> Absent]

(* Accepting may also push older packets out to the medium, never letting  *)
(* the medium fall further behind than LossBound.                          *)
LogOpen(n) ==
    /\ open = NoName
    /\ disk[n] = Absent
    /\ open' = n
    /\ accepted' = << >>
    /\ disk' = [disk EXCEPT ![n].kind = "partial"]

LogAccept(p) ==
    /\ open # NoName
    /\ accepted' = Append(accepted, p)
    /\ \E k \in Len(disk[open].packets) .. Len(accepted) :
          /\ k >= Len(accepted') - LossBound
          /\ disk' = [disk EXCEPT ![open].packets = Prefix(accepted, k)]
    /\ UNCHANGED open

(* Everything accepted reaches the medium while the recording stays open.  *)
LogFlush ==
    /\ open # NoName
    /\ disk' = [disk EXCEPT ![open].packets = accepted]
    /\ UNCHANGED <<open, accepted>>

LogFinalize ==
    /\ open # NoName
    /\ accepted # << >>
    /\ disk[open].packets = accepted
    /\ disk' = [disk EXCEPT ![open].kind = "final"]
    /\ open' = NoName
    /\ accepted' = << >>

LogDiscard ==
    /\ open # NoName
    /\ accepted = << >>
    /\ disk' = [disk EXCEPT ![open] = Absent]
    /\ open' = NoName
    /\ UNCHANGED accepted

(* A failure or a crash: what the medium already held is kept.             *)
LogGiveUp ==
    /\ open # NoName
    /\ \E k \in Len(disk[open].packets) .. Len(accepted) :
          disk' = [disk EXCEPT ![open].packets = Prefix(accepted, k)]
    /\ open' = NoName
    /\ accepted' = << >>

LogNext ==
    \/ \E n \in Name : LogOpen(n)
    \/ \E p \in Packet : LogAccept(p)
    \/ LogFlush \/ LogFinalize \/ LogDiscard \/ LogGiveUp

LogSpec == LogInit /\ [][LogNext]_logVars
=============================================================================
