--------------------------- MODULE RecordingStore ---------------------------
(***************************************************************************)
(* The Ogg/Opus file writer of                                             *)
(* firmware/components/recording_store/recording_store.c: pages are built  *)
(* in RAM, written to <name>.part, made durable every few pages, and the   *)
(* file is renamed to <name>.ogg only when its last page is on the medium. *)
(*                                                                         *)
(* The writer is called by one task at a time.  Every I/O call may fail,   *)
(* and power may go between any two of its steps (Crash).                  *)
(*                                                                         *)
(* pc stands for s_writer.active and s_writer.file:                        *)
(*   "idle"     not active                                                 *)
(*   "headers"  active, file just created, headers not yet written         *)
(*   "open"     active, file open, between two calls                       *)
(*   "close"    active, file closed by finish, not yet renamed             *)
(***************************************************************************)
EXTENDS Integers, Sequences

CONSTANTS Name,            \* the names recording_store_begin may draw
          NoName,
          Packet,          \* the packets the encoder may hand over
          Size,            \* their length in bytes
          LaceMax,         \* 255: bytes one lacing value can stand for
          MaxSegments,     \* OGG_MAX_SEGMENTS
          MaxPayload,      \* OGG_MAX_PAYLOAD
          PacketsPerPage,  \* OGG_PACKETS_PER_PAGE
          SyncEveryPages,  \* OGG_SYNC_EVERY_PAGES
          PreSkip,         \* pre_skip_48k
          FrameSamples,    \* frame_samples of every packet
          SampleRate,      \* input_sample_rate
          MaxAccepted      \* bound: packets per recording that are explored

ASSUME NameAssumption == NoName \notin Name
ASSUME SizeAssumption == Size \in [Packet -> Nat]
ASSUME LimitAssumption ==
    /\ LaceMax \in Nat \ {0}
    /\ MaxSegments \in Nat \ {0}
    /\ MaxPayload \in Nat \ {0}
    /\ PacketsPerPage \in Nat \ {0}
    /\ SyncEveryPages \in Nat \ {0}
ASSUME RateAssumption ==
    /\ PreSkip \in Nat
    /\ FrameSamples \in Nat
    /\ SampleRate \in Nat \ {0}
ASSUME BoundAssumption == MaxAccepted \in Nat

VARIABLES pc,
          name,              \* temp_path and final_path
          page_sequence,
          granule_pos,
          segment_count,
          payload_len,
          pages_since_sync,
          payload,           \* the packets of the page being built
          accepted,          \* the packets counted by packet_count
          part,              \* <name>.part on the medium, or NoFile
          ogg,               \* <name>.ogg on the medium, or NoFile
          result             \* the esp_err_t of the last call

vars == <<pc, name, page_sequence, granule_pos, segment_count, payload_len,
          pages_since_sync, payload, accepted, part, ogg, result>>
page == <<page_sequence, granule_pos, segment_count, payload_len,
          pages_since_sync, payload>>

-----------------------------------------------------------------------------
(* Files.  A page is what its header says; upto counts the packets of the  *)
(* file up to and including the page.  The first `synced` pages survive a  *)
(* power loss; torn tells that bytes of an incomplete page follow.         *)

Page == [type : {"bos", "data", "eos"}, seq : Nat, granule : Nat, upto : Nat]
File == [pages : Seq(Page), packets : Seq(Packet), synced : Nat, torn : BOOLEAN]
NoFile == [pages |-> << >>, packets |-> << >>, synced |-> -1, torn |-> FALSE]
EmptyFile == [pages |-> << >>, packets |-> << >>, synced |-> 0, torn |-> FALSE]

Exists(f) == f # NoFile
Upto(f, k) == IF k = 0 THEN 0 ELSE f.pages[k].upto

(* write_page when both fwrite calls succeed                               *)
AppendPage(f, type, granule, packets) ==
    [f EXCEPT !.pages = Append(@, [type |-> type, seq |-> page_sequence,
                                   granule |-> granule,
                                   upto |-> Len(f.packets) + Len(packets)]),
              !.packets = @ \o packets]

(* write_page when one of them fails: some bytes of the page may be there  *)
TearPage(f) == [f EXCEPT !.torn = TRUE]

(* sync_file when fflush and fsync succeed                                 *)
SyncFile(f) == [f EXCEPT !.synced = Len(f.pages)]

(* What can be found on the medium when a file was not synced to its end:  *)
(* its first k pages and, of a torn file, a piece of the next one.         *)
Truncations(f) ==
    { [pages |-> SubSeq(f.pages, 1, k), packets |-> SubSeq(f.packets, 1, Upto(f, k)),
       synced |-> k, torn |-> t] :
         k \in f.synced .. Len(f.pages), t \in {FALSE, f.torn} }

-----------------------------------------------------------------------------
Lacing(p) == (Size[p] \div LaceMax) + 1

ValidPacket(p) ==
    /\ Size[p] > 0
    /\ Lacing(p) <= MaxSegments
    /\ Size[p] <= MaxPayload

(* Mutant: only the packets of a page are counted.                         *)
PageFullByCount(p) == Len(payload) >= PacketsPerPage

PageFull(p) ==
    \/ Len(payload) >= PacketsPerPage
    \/ segment_count + Lacing(p) > MaxSegments
    \/ payload_len + Size[p] > MaxPayload

FrameGranule == (FrameSamples * 48000) \div SampleRate

(* Mutant: off by one.                                                     *)
SyncDueLate == pages_since_sync + 1 > SyncEveryPages

SyncDue == pages_since_sync + 1 >= SyncEveryPages

(* Mutant: the page is given the position of the packet that follows it.   *)
FlushedFileAhead(type) ==
    IF segment_count = 0 THEN part[name]
    ELSE AppendPage(part[name], type, granule_pos + FrameGranule, payload)

(* flush_audio_page: nothing buffered means nothing written                *)
FlushedFile(type) ==
    IF segment_count = 0 THEN part[name]
    ELSE AppendPage(part[name], type, granule_pos, payload)

-----------------------------------------------------------------------------
Init ==
    /\ pc = "idle"
    /\ name = NoName
    /\ page_sequence = 0
    /\ granule_pos = 0
    /\ segment_count = 0
    /\ payload_len = 0
    /\ pages_since_sync = 0
    /\ payload = << >>
    /\ accepted = << >>
    /\ part = [n \in Name |-> NoFile]
    /\ ogg = [n \in Name |-> NoFile]
    /\ result = "OK"

(* The caller drops s_writer; memset of the next begin clears the page.    *)
Deactivate ==
    /\ pc' = "idle"
    /\ name' = NoName
    /\ accepted' = << >>
    /\ UNCHANGED page

(* recording_store_begin up to fopen: one of eight random suffixes must    *)
(* name neither a .part nor an .ogg file.                                  *)
Begin(n) ==
    /\ pc = "idle"
    /\ ~Exists(part[n]) /\ ~Exists(ogg[n])
    /\ pc' = "headers"
    /\ name' = n
    /\ page_sequence' = 0
    /\ granule_pos' = PreSkip
    /\ segment_count' = 0
    /\ payload_len' = 0
    /\ pages_since_sync' = 0
    /\ payload' = << >>
    /\ accepted' = << >>
    /\ part' = [part EXCEPT ![n] = EmptyFile]
    /\ UNCHANGED <<ogg, result>>

(* No free name in eight attempts, or fopen failed.                        *)
BeginFails ==
    /\ pc = "idle"
    /\ result' = "FAIL"
    /\ UNCHANGED <<pc, name, page, accepted, part, ogg>>

(* write_opus_headers and the first sync_file                              *)
HeaderPages ==
    << [type |-> "bos",  seq |-> page_sequence, granule |-> 0, upto |-> 0],
       [type |-> "data", seq |-> page_sequence + 1, granule |-> 0, upto |-> 0] >>

HeaderFile(k, torn) ==
    [pages |-> SubSeq(HeaderPages, 1, k), packets |-> << >>, synced |-> 0, torn |-> torn]

WriteHeaders ==
    /\ pc = "headers"
    /\ part' = [part EXCEPT ![name] = SyncFile(HeaderFile(2, FALSE))]
    /\ page_sequence' = page_sequence + 2
    /\ pc' = "open"
    /\ result' = "OK"
    /\ UNCHANGED <<name, granule_pos, segment_count, payload_len,
                   pages_since_sync, payload, accepted, ogg>>

(* recording_store_abort(false): the file is removed; a failing remove is  *)
(* ignored and leaves whatever had been written.                           *)
RemovePart(f) ==
    \E left \in {NoFile} \cup Truncations(f) :
        part' = [part EXCEPT ![name] = left]

HeadersFail ==
    /\ pc = "headers"
    /\ \E k \in 0 .. 2, torn \in BOOLEAN : RemovePart(HeaderFile(k, torn))
    /\ Deactivate
    /\ result' = "FAIL"
    /\ UNCHANGED ogg

(* recording_store_write_opus refuses a packet it could not lace.          *)
WriteRejected(p) ==
    /\ pc = "open" /\ result = "OK"
    /\ ~ValidPacket(p)
    /\ result' = "FAIL"
    /\ UNCHANGED <<pc, name, page, accepted, part, ogg>>

(* The packet joins the page being built.                                  *)
Buffer(p, segments, bytes, packets) ==
    /\ segment_count' = segments + Lacing(p)
    /\ payload_len' = bytes + Size[p]
    /\ payload' = Append(packets, p)
    /\ granule_pos' = granule_pos + FrameGranule
    /\ accepted' = Append(accepted, p)

WriteBuffered(p) ==
    /\ pc = "open" /\ result = "OK" /\ Len(accepted) < MaxAccepted
    /\ ValidPacket(p) /\ ~PageFull(p)
    /\ Buffer(p, segment_count, payload_len, payload)
    /\ UNCHANGED <<pc, name, page_sequence, pages_since_sync, part, ogg, result>>

(* The page is full: it is written, every SyncEveryPages it is synced, and *)
(* the packet starts the next page.                                        *)
WriteFlushed(p) ==
    /\ pc = "open" /\ result = "OK" /\ Len(accepted) < MaxAccepted
    /\ ValidPacket(p) /\ PageFull(p)
    /\ part' = [part EXCEPT ![name] = IF SyncDue THEN SyncFile(FlushedFile("data"))
                                                  ELSE FlushedFile("data")]
    /\ page_sequence' = page_sequence + 1
    /\ pages_since_sync' = IF SyncDue THEN 0 ELSE pages_since_sync + 1
    /\ Buffer(p, 0, 0, << >>)
    /\ UNCHANGED <<pc, name, ogg, result>>

(* Mutant: the error of write_page is ignored.                             *)
WriteFailsIgnored(p) ==
    /\ pc = "open" /\ result = "OK" /\ Len(accepted) < MaxAccepted
    /\ ValidPacket(p) /\ PageFull(p)
    /\ part' = [part EXCEPT ![name] = TearPage(@)]
    /\ page_sequence' = page_sequence + 1
    /\ Buffer(p, 0, 0, << >>)
    /\ UNCHANGED <<pc, name, pages_since_sync, ogg, result>>

(* write_page failed: page_sequence has moved on, the page stays buffered  *)
(* and the packet is not taken.                                            *)
WriteFails(p) ==
    /\ pc = "open" /\ result = "OK" /\ Len(accepted) < MaxAccepted
    /\ ValidPacket(p) /\ PageFull(p)
    /\ part' = [part EXCEPT ![name] = TearPage(@)]
    /\ page_sequence' = page_sequence + 1
    /\ result' = "FAIL"
    /\ UNCHANGED <<pc, name, granule_pos, segment_count, payload_len,
                   pages_since_sync, payload, accepted, ogg>>

(* The page was written but not synced; the packet is not taken.           *)
WriteSyncFails(p) ==
    /\ pc = "open" /\ result = "OK" /\ Len(accepted) < MaxAccepted
    /\ ValidPacket(p) /\ PageFull(p) /\ SyncDue
    /\ part' = [part EXCEPT ![name] = FlushedFile("data")]
    /\ page_sequence' = page_sequence + 1
    /\ pages_since_sync' = pages_since_sync + 1
    /\ segment_count' = 0
    /\ payload_len' = 0
    /\ payload' = << >>
    /\ result' = "FAIL"
    /\ UNCHANGED <<pc, name, granule_pos, accepted, ogg>>

-----------------------------------------------------------------------------
(* recording_store_finish: an empty recording is discarded.                *)
FinishEmpty ==
    /\ pc = "open" /\ result = "OK"
    /\ accepted = << >>
    /\ RemovePart(part[name])
    /\ Deactivate
    /\ UNCHANGED <<ogg, result>>

(* Mutant: fclose is trusted to sync.                                      *)
FinishPagesUnsynced ==
    /\ pc = "open" /\ result = "OK"
    /\ accepted # << >>
    /\ part' = [part EXCEPT ![name] = FlushedFile("eos")]
    /\ page_sequence' = page_sequence + 1
    /\ segment_count' = 0
    /\ payload_len' = 0
    /\ payload' = << >>
    /\ pages_since_sync' = IF SyncDue THEN 0 ELSE pages_since_sync + 1
    /\ pc' = "close"
    /\ UNCHANGED <<name, granule_pos, accepted, ogg, result>>

(* The last page, the sync and the close.                                  *)
FinishPages ==
    /\ pc = "open" /\ result = "OK"
    /\ accepted # << >>
    /\ part' = [part EXCEPT ![name] = SyncFile(FlushedFile("eos"))]
    /\ page_sequence' = page_sequence + 1
    /\ segment_count' = 0
    /\ payload_len' = 0
    /\ payload' = << >>
    /\ pages_since_sync' = IF SyncDue THEN 0 ELSE pages_since_sync + 1
    /\ pc' = "close"
    /\ UNCHANGED <<name, granule_pos, accepted, ogg, result>>

(* One of them failed: the .part file stays, holding at least what had     *)
(* been synced.                                                            *)
FinishFails ==
    /\ pc = "open" /\ result = "OK"
    /\ accepted # << >>
    /\ \E f \in {TearPage(part[name]), FlushedFile("eos")} :
          \E left \in Truncations(f) : part' = [part EXCEPT ![name] = left]
    /\ Deactivate
    /\ result' = "FAIL"
    /\ UNCHANGED ogg

(* access, then rename.                                                    *)
Rename ==
    /\ pc = "close"
    /\ ~Exists(ogg[name])
    /\ ogg' = [ogg EXCEPT ![name] = part[name]]
    /\ part' = [part EXCEPT ![name] = NoFile]
    /\ Deactivate
    /\ UNCHANGED result

RenameFails ==
    /\ pc = "close"
    /\ Deactivate
    /\ result' = "FAIL"
    /\ UNCHANGED <<part, ogg>>

(* Mutant: keep_partial is read the wrong way round.                       *)
AbortKeepRemoves ==
    /\ pc = "open"
    /\ RemovePart(part[name])
    /\ Deactivate
    /\ UNCHANGED <<ogg, result>>

(* recording_store_abort(true): sync and close may both fail.              *)
AbortKeep ==
    /\ pc = "open"
    /\ \E left \in {SyncFile(part[name])} \cup Truncations(part[name]) :
          part' = [part EXCEPT ![name] = left]
    /\ Deactivate
    /\ UNCHANGED <<ogg, result>>

(* recording_store_abort(false), which audio_pipeline_start calls before   *)
(* any packet has been written.                                            *)
AbortRemove ==
    /\ pc = "open"
    /\ accepted = << >>
    /\ RemovePart(part[name])
    /\ Deactivate
    /\ UNCHANGED <<ogg, result>>

-----------------------------------------------------------------------------
(* Power is lost.  The call under way may have been writing the headers,   *)
(* the page that is full, or the last page.                                *)
InFlight ==
    CASE pc = "headers" -> {HeaderFile(2, TRUE)}
      [] pc = "open" /\ result = "OK" /\ accepted # << >> ->
            {TearPage(part[name])} \cup {FlushedFile("eos")} \cup
            (IF \E p \in Packet : ValidPacket(p) /\ PageFull(p)
             THEN {FlushedFile("data")} ELSE {})
      [] OTHER -> {part[name]}

Crash ==
    /\ pc # "idle"
    /\ \E f \in InFlight :
          \E left \in Truncations(f) : part' = [part EXCEPT ![name] = left]
    /\ Deactivate
    /\ result' = "OK"
    /\ UNCHANGED ogg

Next ==
    \/ \E n \in Name : Begin(n)
    \/ BeginFails \/ WriteHeaders \/ HeadersFail
    \/ \E p \in Packet : \/ WriteRejected(p) \/ WriteBuffered(p) \/ WriteFlushed(p)
                         \/ WriteFails(p) \/ WriteSyncFails(p)
    \/ FinishEmpty \/ FinishPages \/ FinishFails \/ Rename \/ RenameFails
    \/ AbortKeep \/ AbortRemove
    \/ Crash

Spec == Init /\ [][Next]_vars

-----------------------------------------------------------------------------
(* Types of the writer's state; pages_since_sync never runs past the       *)
(* threshold at which flush_audio_page syncs.                              *)
TypeOK ==
    /\ pc \in {"idle", "headers", "open", "close"}
    /\ name \in Name \cup {NoName}
    /\ page_sequence \in Nat
    /\ granule_pos \in Nat
    /\ segment_count \in Nat
    /\ payload_len \in Nat
    /\ pages_since_sync \in 0 .. SyncEveryPages
    /\ payload \in Seq(Packet)
    /\ accepted \in Seq(Packet)
    /\ part \in [Name -> File \cup {NoFile}]
    /\ ogg \in [Name -> File \cup {NoFile}]
    /\ result \in {"OK", "FAIL"}

(* The page buffers segments[] and payload[] are never filled past their   *)
(* ends, whatever mix of packet sizes arrives (recording_store.c:540-558). *)
BuffersFit ==
    /\ segment_count <= MaxSegments
    /\ payload_len <= MaxPayload
    /\ Len(payload) <= PacketsPerPage

(* A file that carries its final .ogg name is entirely on the medium and   *)
(* is a complete Ogg stream: headers, consecutive page numbers, a last     *)
(* page that is the only one marked end-of-stream, and at least one packet *)
(* (recording_store_finish; whoever uploads an .ogg relies on it).         *)
CompleteFile(f) ==
    /\ ~f.torn
    /\ f.synced = Len(f.pages)
    /\ Len(f.pages) >= 3
    /\ \A i \in 1 .. Len(f.pages) :
          /\ f.pages[i].seq = i - 1
          /\ f.pages[i].type = "bos" <=> i = 1
          /\ f.pages[i].type = "eos" <=> i = Len(f.pages)
    /\ f.packets # << >>
    /\ f.pages[Len(f.pages)].upto = Len(f.packets)

FinalFilesComplete == \A n \in Name : Exists(ogg[n]) => CompleteFile(ogg[n])

(* Every page of every file on the medium, finished or partial, tells the  *)
(* position of its last packet: pre-skip plus the frames up to it.  A      *)
(* player seeks by these numbers (write_page's granule_pos argument).      *)
GranulesExact ==
    \A n \in Name : \A f \in {part[n], ogg[n]} : \A i \in 3 .. Len(f.pages) :
        f.pages[i].granule = PreSkip + f.pages[i].upto * FrameGranule

(* A power loss costs at most the packets of SyncEveryPages pages: that is *)
(* what the periodic fsync in flush_audio_page is for.                     *)
BoundedLoss ==
    pc = "open" => Len(accepted) - Upto(part[name], part[name].synced)
                     <= PacketsPerPage * SyncEveryPages

(* No step makes audio disappear from the medium: a file that holds synced *)
(* packets still holds them, under its .part or its .ogg name, after any   *)
(* abort, finish, failure or crash.                                        *)
SyncedAudio(f) == SubSeq(f.packets, 1, Upto(f, f.synced))
Surviving(n) == IF Exists(ogg[n]) THEN SyncedAudio(ogg[n]) ELSE
                IF Exists(part[n]) THEN SyncedAudio(part[n]) ELSE << >>
AudioIsKept ==
    [][\A n \in Name : /\ Len(Surviving(n)) <= Len(Surviving(n)')
                       /\ SubSeq(Surviving(n)', 1, Len(Surviving(n))) = Surviving(n)]_vars

(* The store implements RecordingLog: nothing but accepted packets in      *)
(* order, a final file only with all of them, a bounded loss otherwise.    *)
Disk == [n \in Name |->
    IF Exists(ogg[n]) THEN [kind |-> "final", packets |-> SyncedAudio(ogg[n])]
    ELSE IF Exists(part[n]) THEN [kind |-> "partial", packets |-> SyncedAudio(part[n])]
    ELSE [kind |-> "absent", packets |-> << >>]]

Log == INSTANCE RecordingLog
         WITH open <- name, disk <- Disk,
              LossBound <- PacketsPerPage * SyncEveryPages
LogSpec == Log!LogSpec
=============================================================================
