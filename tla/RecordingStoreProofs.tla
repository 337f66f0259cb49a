------------------------ MODULE RecordingStoreProofs ------------------------
(***************************************************************************)
(* RecordingStore for every size of page, every packet and any number of   *)
(* recordings: its invariants, then that it implements RecordingLog, so    *)
(* that what is on the medium stays there.                                 *)
(***************************************************************************)
EXTENDS RecordingStore, SequenceTheorems, TLAPS

-----------------------------------------------------------------------------
(* The inductive invariant.                                                *)

(* A file's page headers never point past its packets or its pages.        *)
WellFormed(f) ==
    /\ f \in File
    /\ f.synced <= Len(f.pages)
    /\ \A i \in 1 .. Len(f.pages) : f.pages[i].upto <= Len(f.packets)

(* The i-th page of a file that has no last page yet.                      *)
PageAt(pg, i) ==
    /\ pg.seq = i - 1
    /\ pg.type = "bos" <=> i = 1
    /\ pg.type # "eos"

(* A file that is being written and has not failed: numbered pages, the    *)
(* headers first, no end-of-stream page yet.                               *)
Growing(f) ==
    /\ ~f.torn
    /\ Len(f.pages) = page_sequence
    /\ Len(f.pages) >= 2
    /\ \A i \in 1 .. Len(f.pages) : PageAt(f.pages[i], i)
    /\ f.synced = Len(f.pages) - pages_since_sync
    /\ f.synced >= 2

(* No page after the i-th carries more than PacketsPerPage packets.        *)
Behind(f) ==
    \A i \in 2 .. Len(f.pages) :
        Len(f.packets) - f.pages[i].upto <= PacketsPerPage * (Len(f.pages) - i)

Buffered(f) ==
    /\ segment_count = 0 <=> payload = << >>
    /\ payload = << >> => payload_len = 0
    /\ accepted # << >> => payload # << >>
    /\ Len(accepted) = Len(f.packets) + Len(payload)
    /\ pages_since_sync < SyncEveryPages

Loss(f) == Len(accepted) - Upto(f, f.synced) <= PacketsPerPage * SyncEveryPages

ActiveOK ==
    /\ pc # "idle" => /\ name \in Name
                      /\ ~Exists(ogg[name])
                      /\ WellFormed(part[name])
    /\ pc = "headers" => /\ part[name] = EmptyFile
                         /\ accepted = << >> /\ payload = << >>
                         /\ segment_count = 0 /\ payload_len = 0
                         /\ page_sequence = 0 /\ pages_since_sync = 0
    /\ pc = "open" /\ result = "OK" => /\ Growing(part[name])
                                       /\ Behind(part[name])
                                       /\ Buffered(part[name])
    /\ pc = "open" => Loss(part[name])
    /\ pc = "close" => CompleteFile(part[name])

Inv == TypeOK /\ BuffersFit /\ FinalFilesComplete /\ ActiveOK

-----------------------------------------------------------------------------
(* Arithmetic of the constants.                                            *)

(* Natural division stays in Nat.                                          *)
LEMMA DivNat == ASSUME NEW a \in Nat, NEW b \in Nat \ {0} PROVE a \div b \in Nat
  BY SMT

(* Every packet needs at least one lacing value (lacing_count).            *)
LEMMA LacingPositive == ASSUME NEW p \in Packet
                        PROVE Lacing(p) \in Nat \ {0} /\ Size[p] \in Nat
  BY DivNat, SizeAssumption, LimitAssumption DEF Lacing

(* Adding one to a sum.                                                    *)
LEMMA SumStep == ASSUME NEW a, NEW b \in Nat, NEW c \in Nat, a = b + c
                 PROVE a + 1 = b + (c + 1)
  BY SMT

(* The granule step of a frame is a number.                                *)
LEMMA FrameGranuleNat == FrameGranule \in Nat
  BY DivNat, RateAssumption DEF FrameGranule

(* One more page or packet moves the loss bound by one page's packets.     *)
LEMMA TimesStep == ASSUME NEW a \in Nat, NEW b \in Nat
                   PROVE a * (b + 1) = a * b + a /\ a * b \in Nat
  BY SMT

(* More pages hold at least as many packets.                               *)
LEMMA TimesMonotone == ASSUME NEW a \in Nat, NEW b \in Nat, NEW c \in Nat, b <= c
                       PROVE a * b <= a * c
  BY SMT

-----------------------------------------------------------------------------
(* Files.                                                                  *)

(* The file that a begin creates is a well formed file.                    *)
LEMMA EmptyFileOK == EmptyFile \in File /\ WellFormed(EmptyFile) /\ Exists(EmptyFile)
  BY DEF EmptyFile, File, WellFormed, Exists, NoFile

(* A name without a file is told apart from every file.                    *)
LEMMA NoFileIsNotAFile == NoFile \notin File
  BY DEF NoFile, File

(* The header fields of a page of a file.                                  *)
LEMMA PageOfFile ==
    ASSUME NEW f \in File, NEW i \in 1 .. Len(f.pages)
    PROVE  f.pages[i] \in Page /\ f.pages[i].upto \in Nat
<1>1. f.pages \in Seq(Page)
  BY DEF File
<1>2. f.pages[i] \in Page
  BY <1>1, ElementOfSeq
<1>. QED
  BY <1>2 DEF Page

(* h is f with one more page.                                              *)
Appended(f, h, type, g, ps) ==
    /\ WellFormed(h)
    /\ h.torn = f.torn /\ h.synced = f.synced
    /\ Len(h.pages) = Len(f.pages) + 1
    /\ Len(h.packets) = Len(f.packets) + Len(ps)
    /\ h.packets = f.packets \o ps
    /\ \A i \in 1 .. Len(f.pages) : h.pages[i] = f.pages[i]
    /\ h.pages[Len(h.pages)].type = type
    /\ h.pages[Len(h.pages)].seq = page_sequence
    /\ h.pages[Len(h.pages)].granule = g
    /\ h.pages[Len(h.pages)].upto = Len(h.packets)

(* write_page adds one page with the number page_sequence and the packets  *)
(* buffered for it, and leaves what was there alone.                       *)
LEMMA AppendPageOK ==
    ASSUME NEW f, WellFormed(f), NEW type \in {"bos", "data", "eos"},
           NEW g \in Nat, NEW ps \in Seq(Packet), page_sequence \in Nat,
           NEW h, h = AppendPage(f, type, g, ps)
    PROVE  Appended(f, h, type, g, ps)
<1> DEFINE new == [type |-> type, seq |-> page_sequence, granule |-> g,
                   upto |-> Len(f.packets) + Len(ps)]
<1>1. f \in File /\ f.pages \in Seq(Page) /\ f.packets \in Seq(Packet)
  BY DEF WellFormed, File
<1>2. new \in Page
  BY <1>1 DEF Page
<1>3. /\ h.pages = Append(f.pages, new)
      /\ h.packets = f.packets \o ps
      /\ h.torn = f.torn /\ h.synced = f.synced
  BY <1>1 DEF AppendPage, File
<1>4. h = [pages |-> Append(f.pages, new), packets |-> f.packets \o ps,
           synced |-> f.synced, torn |-> f.torn]
  BY <1>1, <1>3 DEF AppendPage, File
<1>5. Append(f.pages, new) \in Seq(Page) /\ f.packets \o ps \in Seq(Packet)
  BY <1>1, <1>2
<1>6. Len(h.packets) = Len(f.packets) + Len(ps)
  BY <1>1, <1>3, ConcatProperties
<1>7. /\ Len(h.pages) = Len(f.pages) + 1
      /\ \A i \in 1 .. Len(f.pages) : h.pages[i] = f.pages[i]
      /\ h.pages[Len(h.pages)] = new
  BY <1>1, <1>2, <1>3, AppendProperties
<1>8. h \in File
  BY <1>1, <1>4, <1>5 DEF File
<1>9. \A i \in 1 .. Len(h.pages) : h.pages[i].upto <= Len(h.packets)
  <2>2. Len(ps) \in Nat /\ Len(f.packets) \in Nat /\ Len(f.pages) \in Nat
    BY <1>1
  <2>3. new.upto = Len(h.packets)
    BY <1>6
  <2>4. SUFFICES ASSUME NEW i \in 1 .. Len(h.pages) PROVE h.pages[i].upto <= Len(h.packets)
    OBVIOUS
  <2>5. CASE i \in 1 .. Len(f.pages)
    <3>1. f.pages[i] \in Page
      BY <1>1, <2>5, ElementOfSeq
    <3>2. f.pages[i].upto \in Nat /\ f.pages[i].upto <= Len(f.packets)
      BY <2>5, <3>1 DEF WellFormed, Page
    <3>3. h.pages[i].upto = f.pages[i].upto
      BY <1>7, <2>5
    <3>. QED
      BY <1>6, <2>2, <3>2, <3>3
  <2>6. CASE i = Len(h.pages)
    BY <1>6, <1>7, <2>2, <2>3, <2>6, SMTT(20)
  <2>. QED
    BY <1>7, <2>2, <2>5, <2>6
<1>10. new = [type |-> type, seq |-> page_sequence, granule |-> g, upto |-> Len(h.packets)]
  BY <1>6
<1>11. h.synced <= Len(h.pages)
  BY <1>1, <1>3, <1>7 DEF WellFormed, File
<1>12. WellFormed(h)
  BY <1>8, <1>9, <1>11 DEF WellFormed
<1>. QED
  BY <1>3, <1>6, <1>7, <1>10, <1>12 DEF Appended

(* A torn file is as well formed as before.                                *)
LEMMA TearPageOK ==
    ASSUME NEW f, WellFormed(f)
    PROVE  /\ WellFormed(TearPage(f))
           /\ TearPage(f).pages = f.pages /\ TearPage(f).synced = f.synced
           /\ TearPage(f).packets = f.packets
  BY DEF WellFormed, TearPage, File

(* A synced file is as well formed as before, and durable to its end.      *)
LEMMA SyncFileOK ==
    ASSUME NEW f, WellFormed(f)
    PROVE  /\ WellFormed(SyncFile(f))
           /\ SyncFile(f).pages = f.pages /\ SyncFile(f).packets = f.packets
           /\ SyncFile(f).torn = f.torn
           /\ SyncFile(f).synced = Len(f.pages)
  BY DEF WellFormed, SyncFile, File

(* Whatever a power loss leaves of a file is a file.                       *)
LEMMA TruncationOK ==
    ASSUME NEW f, WellFormed(f), NEW g \in Truncations(f)
    PROVE  g \in File
<1>1. f \in File /\ f.pages \in Seq(Page) /\ f.packets \in Seq(Packet) /\ f.synced \in Nat
      /\ f.torn \in BOOLEAN
  BY DEF WellFormed, File
<1>2. PICK k \in f.synced .. Len(f.pages), t \in {FALSE, f.torn} :
        g = [pages |-> SubSeq(f.pages, 1, k), packets |-> SubSeq(f.packets, 1, Upto(f, k)),
             synced |-> k, torn |-> t]
  BY DEF Truncations
<1>3. k \in Nat /\ Upto(f, k) \in Nat /\ Upto(f, k) <= Len(f.packets)
  <2>1. k \in Nat /\ Len(f.packets) \in Nat
    BY <1>1
  <2>2. CASE k = 0
    BY <2>1, <2>2 DEF Upto
  <2>3. CASE k # 0
    <3>1. k \in 1 .. Len(f.pages)
      BY <1>1, <2>1, <2>3
    <3>2. f.pages[k] \in Page
      BY <1>1, <3>1, ElementOfSeq
    <3>. QED
      BY <2>3, <3>1, <3>2 DEF Upto, WellFormed, Page
  <2>. QED
    BY <2>2, <2>3
<1>4. SubSeq(f.pages, 1, k) \in Seq(Page)
  <2>1. \A i \in 1 .. k : f.pages[i] \in Page
    BY <1>1, <1>2, <1>3, ElementOfSeq
  <2>. QED
    BY <1>3, <2>1, SubSeqProperties
<1>5. SubSeq(f.packets, 1, Upto(f, k)) \in Seq(Packet)
  <2>1. \A i \in 1 .. Upto(f, k) : f.packets[i] \in Packet
    BY <1>1, <1>3, ElementOfSeq
  <2>. QED
    BY <1>3, <2>1, SubSeqProperties
<1>. QED
  BY <1>1, <1>2, <1>3, <1>4, <1>5 DEF File

(* The packets a durable prefix of a file covers are a number.             *)
LEMMA UptoNat ==
    ASSUME NEW f \in File, NEW k \in 0 .. Len(f.pages)
    PROVE  Upto(f, k) \in Nat
<1>1. Len(f.pages) \in Nat
  BY DEF File
<1>2. CASE k = 0
  BY <1>2 DEF Upto
<1>3. CASE k # 0
  <2>1. k \in 1 .. Len(f.pages)
    BY <1>1, <1>3
  <2>. QED
    BY <1>3, <2>1, PageOfFile DEF Upto
<1>. QED
  BY <1>2, <1>3

-----------------------------------------------------------------------------
(* Page arithmetic.                                                        *)

(* What is not yet durable is at most the unsynced pages plus the buffer.  *)
LEMMA LossOfUnsynced ==
    ASSUME NEW f, WellFormed(f), Behind(f),
           NEW m \in Nat, NEW s \in Nat,
           f.synced = Len(f.pages) - s, f.synced >= 2
    PROVE  (Len(f.packets) + m) - Upto(f, f.synced) <= PacketsPerPage * s + m
<1>1. /\ f.synced \in 2 .. Len(f.pages) /\ Len(f.pages) \in Nat
      /\ Len(f.packets) \in Nat /\ f.pages \in Seq(Page)
  BY DEF WellFormed, File
<1>2. Len(f.packets) - f.pages[f.synced].upto <= PacketsPerPage * (Len(f.pages) - f.synced)
  BY <1>1 DEF Behind
<1>3. Len(f.pages) - f.synced = s
  BY <1>1
<1>4. f.pages[f.synced].upto \in Nat
  BY <1>1, PageOfFile DEF WellFormed
<1>5. PacketsPerPage * s \in Nat
  BY LimitAssumption, TimesStep
<1>6. Upto(f, f.synced) = f.pages[f.synced].upto
  BY <1>1 DEF Upto
<1>. QED
  BY <1>1, <1>2, <1>3, <1>4, <1>5, <1>6, SMTT(20)

(* With fewer than SyncEveryPages unsynced pages and a page's worth of     *)
(* buffered packets, no more than SyncEveryPages pages are at risk.        *)
LEMMA LossWithinBound ==
    ASSUME NEW m \in Nat, NEW s \in Nat, m <= PacketsPerPage, s < SyncEveryPages
    PROVE  PacketsPerPage * s + m <= PacketsPerPage * SyncEveryPages
<1>1. PacketsPerPage * (s + 1) <= PacketsPerPage * SyncEveryPages
  BY LimitAssumption, TimesMonotone
<1>2. PacketsPerPage * (s + 1) = PacketsPerPage * s + PacketsPerPage /\ PacketsPerPage * s \in Nat
  BY LimitAssumption, TimesStep
<1>3. PacketsPerPage * SyncEveryPages \in Nat
  BY LimitAssumption, TimesStep
<1>. QED
  BY <1>1, <1>2, <1>3, LimitAssumption

(* The two together: m packets buffered, s pages unsynced.                 *)
LEMMA LossBounded ==
    ASSUME NEW f, WellFormed(f), Behind(f), NEW m \in Nat, NEW s \in Nat,
           f.synced = Len(f.pages) - s, f.synced >= 2,
           (m <= PacketsPerPage /\ s < SyncEveryPages) \/ (m = 0 /\ s = SyncEveryPages)
    PROVE  (Len(f.packets) + m) - Upto(f, f.synced) <= PacketsPerPage * SyncEveryPages
<1>1. (Len(f.packets) + m) - Upto(f, f.synced) <= PacketsPerPage * s + m
  BY LossOfUnsynced
<1>2. PacketsPerPage * s + m <= PacketsPerPage * SyncEveryPages
  <2>1. CASE m <= PacketsPerPage /\ s < SyncEveryPages
    BY <2>1, LossWithinBound
  <2>2. CASE m = 0 /\ s = SyncEveryPages
    <3>1. PacketsPerPage * s \in Nat
      BY LimitAssumption, TimesStep
    <3>. QED
      BY <2>2, <3>1
  <2>. QED
    BY <2>1, <2>2
<1>3. PacketsPerPage * s \in Nat /\ PacketsPerPage * SyncEveryPages \in Nat
  BY LimitAssumption, TimesStep
<1>4. Upto(f, f.synced) \in Nat /\ Len(f.packets) \in Nat
  BY UptoNat DEF WellFormed, File
<1>. QED
  BY <1>1, <1>2, <1>3, <1>4

(* A page of at most PacketsPerPage packets keeps every page that close to *)
(* the end of the file.                                                    *)
LEMMA BehindAfterAppend ==
    ASSUME NEW f, WellFormed(f), Behind(f), NEW ps \in Seq(Packet), Len(ps) <= PacketsPerPage,
           NEW type, NEW g, NEW h, Appended(f, h, type, g, ps)
    PROVE  Behind(h)
<1>1. /\ Len(h.pages) = Len(f.pages) + 1
      /\ Len(h.packets) = Len(f.packets) + Len(ps)
      /\ \A i \in 1 .. Len(f.pages) : h.pages[i] = f.pages[i]
      /\ h.pages[Len(h.pages)].upto = Len(h.packets)
  BY DEF Appended
<1>2. /\ Len(f.pages) \in Nat /\ Len(f.packets) \in Nat /\ Len(ps) \in Nat
      /\ f.pages \in Seq(Page)
  BY DEF WellFormed, File
<1>3. SUFFICES ASSUME NEW i \in 2 .. Len(h.pages)
               PROVE  Len(h.packets) - h.pages[i].upto <= PacketsPerPage * (Len(h.pages) - i)
  BY DEF Behind
<1>4. CASE i = Len(h.pages)
  <2>1. Len(h.pages) - i = 0 /\ Len(h.packets) - h.pages[i].upto = 0
    BY <1>1, <1>2, <1>4
  <2>2. PacketsPerPage * 0 = 0
    BY LimitAssumption
  <2>. QED
    BY <2>1, <2>2
<1>5. CASE i \in 2 .. Len(f.pages)
  <2>1. Len(f.packets) - f.pages[i].upto <= PacketsPerPage * (Len(f.pages) - i)
    BY <1>5 DEF Behind
  <2>2. f.pages[i].upto \in Nat
    BY <1>2, <1>5, PageOfFile DEF WellFormed
  <2>3. PacketsPerPage * ((Len(f.pages) - i) + 1)
          = PacketsPerPage * (Len(f.pages) - i) + PacketsPerPage
    BY <1>2, <1>5, LimitAssumption, TimesStep
  <2>4. Len(h.pages) - i = (Len(f.pages) - i) + 1
    BY <1>1, <1>2, <1>5
  <2>5. h.pages[i].upto = f.pages[i].upto
    BY <1>1, <1>2, <1>5
  <2>6. PacketsPerPage * (Len(f.pages) - i) \in Nat
    BY <1>2, <1>5, LimitAssumption, TimesStep
  <2>7. PacketsPerPage * (Len(h.pages) - i)
          = PacketsPerPage * (Len(f.pages) - i) + PacketsPerPage
    BY <2>3, <2>4
  <2>8. (Len(f.packets) + Len(ps)) - f.pages[i].upto
          <= PacketsPerPage * (Len(f.pages) - i) + PacketsPerPage
    BY <1>2, <2>1, <2>2, <2>6, LimitAssumption, SMTT(20)
  <2>. QED
    BY <1>1, <2>5, <2>7, <2>8
<1>. QED
  BY <1>1, <1>2, <1>4, <1>5

(* A full page holds at least one lacing value, so flush_audio_page writes *)
(* a page and not nothing.                                                 *)
LEMMA FullPageIsNotEmpty ==
    ASSUME TypeOK, NEW f, Buffered(f), NEW p \in Packet, ValidPacket(p), PageFull(p)
    PROVE  segment_count # 0
<1>1. Len(payload) >= PacketsPerPage => payload # << >>
  BY LimitAssumption DEF TypeOK
<1>2. segment_count + Lacing(p) > MaxSegments => segment_count # 0
  BY LacingPositive, LimitAssumption DEF ValidPacket, TypeOK
<1>3. payload_len + Size[p] > MaxPayload => payload_len # 0
  BY LacingPositive, LimitAssumption DEF ValidPacket, TypeOK
<1>. QED
  BY <1>1, <1>2, <1>3 DEF PageFull, Buffered

-----------------------------------------------------------------------------
(* Steps.  Most of them give the writer up; what is then left to show is   *)
(* that the .part file is still a file.                                    *)

(* A step that closes the writer and leaves the files keeps the invariant. *)
LEMMA DeactivateKeepsInv ==
    ASSUME Inv, Deactivate, NEW x \in File \cup {NoFile},
           part' = [part EXCEPT ![name] = x], ogg' = ogg, result' \in {"OK", "FAIL"}
    PROVE  Inv'
<1>1. part' \in [Name -> File \cup {NoFile}]
  BY DEF Inv, TypeOK
<1>2. TypeOK'
  <2>1. /\ page_sequence' = page_sequence /\ granule_pos' = granule_pos
        /\ segment_count' = segment_count /\ payload_len' = payload_len
        /\ pages_since_sync' = pages_since_sync /\ payload' = payload
        /\ pc' = "idle" /\ name' = NoName /\ accepted' = << >>
    BY DEF Deactivate, page
  <2>2. << >> \in Seq(Packet)
    OBVIOUS
  <2>. QED
    BY <1>1, <2>1, <2>2 DEF Inv, TypeOK
<1>3. BuffersFit'
  BY DEF Inv, BuffersFit, Deactivate, page
<1>4. FinalFilesComplete'
  BY DEF Inv, FinalFilesComplete
<1>5. ActiveOK'
  BY DEF ActiveOK, Deactivate
<1>. QED
  BY <1>2, <1>3, <1>4, <1>5 DEF Inv

(* So does one that also removes the .part file.                           *)
LEMMA RemovePartKeepsInv ==
    ASSUME Inv, NEW f, WellFormed(f), RemovePart(f), Deactivate, ogg' = ogg,
           result' \in {"OK", "FAIL"}
    PROVE  Inv'
<1>1. PICK left \in {NoFile} \cup Truncations(f) : part' = [part EXCEPT ![name] = left]
  BY DEF RemovePart
<1>2. left \in File \cup {NoFile}
  BY <1>1, TruncationOK
<1>. QED
  BY <1>1, <1>2, DeactivateKeepsInv

(* So does one that leaves a truncated .part file behind.                  *)
LEMMA TruncatePartKeepsInv ==
    ASSUME Inv, NEW f, WellFormed(f), Deactivate, ogg' = ogg, result' \in {"OK", "FAIL"},
           \E left \in Truncations(f) : part' = [part EXCEPT ![name] = left]
    PROVE  Inv'
<1>1. PICK left \in Truncations(f) : part' = [part EXCEPT ![name] = left]
  OBVIOUS
<1>2. left \in File \cup {NoFile}
  BY <1>1, TruncationOK
<1>. QED
  BY <1>1, <1>2, DeactivateKeepsInv

(* flush_audio_page leaves a well formed file.                             *)
LEMMA FlushedFileOK ==
    ASSUME Inv, pc = "open", NEW type \in {"bos", "data", "eos"}
    PROVE  /\ WellFormed(FlushedFile(type))
           /\ segment_count # 0 =>
                 Appended(part[name], FlushedFile(type), type, granule_pos, payload)
<1>1. WellFormed(part[name])
  BY DEF Inv, ActiveOK
<1>2. granule_pos \in Nat /\ payload \in Seq(Packet) /\ page_sequence \in Nat
  BY DEF Inv, TypeOK
<1>3. Appended(part[name], AppendPage(part[name], type, granule_pos, payload),
               type, granule_pos, payload)
  BY <1>1, <1>2, AppendPageOK
<1>. QED
  BY <1>1, <1>3 DEF FlushedFile, Appended

(* The headers a begin was writing when it failed or lost power.           *)
LEMMA HeaderFileOK ==
    ASSUME Inv, pc = "headers", NEW k \in 0 .. 2, NEW torn \in BOOLEAN
    PROVE  /\ WellFormed(HeaderFile(k, torn))
           /\ HeaderFile(k, torn).torn = torn
           /\ HeaderFile(k, torn).packets = << >>
           /\ Len(HeaderFile(k, torn).pages) = k
           /\ \A i \in 1 .. k : HeaderFile(k, torn).pages[i] = HeaderPages[i]
<1>1. page_sequence = 0
  BY DEF Inv, ActiveOK
<1>2. \A i \in 1 .. 2 : HeaderPages[i] \in Page /\ HeaderPages[i].upto = 0
  BY <1>1 DEF HeaderPages, Page
<1>3. /\ SubSeq(HeaderPages, 1, k) \in Seq(Page)
      /\ Len(SubSeq(HeaderPages, 1, k)) = k
      /\ \A i \in 1 .. k : SubSeq(HeaderPages, 1, k)[i] = HeaderPages[i]
  <2>1. \A i \in 1 .. k : HeaderPages[i] \in Page
    BY <1>2
  <2>. QED
    BY <2>1, SubSeqProperties
<1>4. HeaderFile(k, torn) \in File
  BY <1>3 DEF HeaderFile, File
<1>. QED
  BY <1>2, <1>3, <1>4 DEF WellFormed, HeaderFile

-----------------------------------------------------------------------------
(* recording_store_begin.                                                  *)
LEMMA BeginKeepsInv ==
    ASSUME Inv, NEW n \in Name, Begin(n)
    PROVE  Inv'
<1>1. /\ pc' = "headers" /\ name' = n /\ name' \in Name
      /\ page_sequence' = 0 /\ granule_pos' = PreSkip /\ segment_count' = 0
      /\ payload_len' = 0 /\ pages_since_sync' = 0 /\ payload' = << >>
      /\ accepted' = << >> /\ ogg' = ogg /\ result' = result
      /\ ~Exists(ogg[n])
      /\ part' = [part EXCEPT ![n] = EmptyFile]
  BY DEF Begin
<1>2. part' \in [Name -> File \cup {NoFile}] /\ part'[name'] = EmptyFile
  BY <1>1, EmptyFileOK DEF Inv, TypeOK
<1>3. TypeOK'
  BY <1>1, <1>2, RateAssumption, LimitAssumption DEF Inv, TypeOK
<1>4. BuffersFit'
  BY <1>1, LimitAssumption DEF BuffersFit
<1>5. FinalFilesComplete'
  BY <1>1 DEF Inv, FinalFilesComplete
<1>6. ActiveOK'
  BY <1>1, <1>2, EmptyFileOK DEF ActiveOK
<1>. QED
  BY <1>3, <1>4, <1>5, <1>6 DEF Inv

(* write_opus_headers puts the two header pages on the medium.             *)
LEMMA WriteHeadersKeepsInv ==
    ASSUME Inv, WriteHeaders
    PROVE  Inv'
<1>0. PICK f : f = SyncFile(HeaderFile(2, FALSE))
  OBVIOUS
<1>1. /\ pc = "headers" /\ pc' = "open" /\ result' = "OK" /\ name' = name
      /\ granule_pos' = granule_pos /\ segment_count' = segment_count
      /\ payload_len' = payload_len /\ pages_since_sync' = pages_since_sync
      /\ payload' = payload /\ accepted' = accepted /\ ogg' = ogg
      /\ page_sequence' = page_sequence + 2
      /\ part' = [part EXCEPT ![name] = f]
  BY <1>0 DEF WriteHeaders
<1>2. /\ name \in Name /\ ~Exists(ogg[name])
      /\ accepted = << >> /\ payload = << >> /\ segment_count = 0
      /\ payload_len = 0 /\ page_sequence = 0 /\ pages_since_sync = 0
  BY <1>1 DEF Inv, ActiveOK
<1>3. /\ WellFormed(f) /\ ~f.torn /\ f.packets = << >>
      /\ Len(f.pages) = 2 /\ f.synced = 2
      /\ f.pages[1] = HeaderPages[1] /\ f.pages[2] = HeaderPages[2]
  <2>1. PICK g : g = HeaderFile(2, FALSE)
    OBVIOUS
  <2>2. 2 \in 0 .. 2 /\ FALSE \in BOOLEAN
    OBVIOUS
  <2>3. /\ WellFormed(g) /\ g.torn = FALSE /\ g.packets = << >> /\ Len(g.pages) = 2
        /\ \A i \in 1 .. 2 : g.pages[i] = HeaderPages[i]
    BY <1>1, <2>1, <2>2, HeaderFileOK, Zenon
  <2>4. /\ WellFormed(f)
        /\ f.pages = g.pages /\ f.packets = g.packets
        /\ f.torn = g.torn
        /\ f.synced = Len(g.pages)
    BY <1>0, <2>1, <2>3, SyncFileOK, Zenon
  <2>. QED
    BY <2>3, <2>4
<1>4. part' \in [Name -> File \cup {NoFile}] /\ part'[name'] = f
  BY <1>1, <1>2, <1>3 DEF Inv, TypeOK, WellFormed
<1>5. TypeOK'
  BY <1>1, <1>4 DEF Inv, TypeOK
<1>6. BuffersFit'
  BY <1>1 DEF Inv, BuffersFit
<1>7. FinalFilesComplete'
  BY <1>1 DEF Inv, FinalFilesComplete
<1>8. HeaderPages[1] = [type |-> "bos",  seq |-> 0, granule |-> 0, upto |-> 0]
      /\ HeaderPages[2] = [type |-> "data", seq |-> 1, granule |-> 0, upto |-> 0]
  BY <1>2 DEF HeaderPages
<1>9. Growing(f)'
  <2>1. PageAt(f.pages[1], 1) /\ PageAt(f.pages[2], 2)
    BY <1>3, <1>8 DEF PageAt
  <2>2. \A i \in 1 .. Len(f.pages) : i = 1 \/ i = 2
    BY <1>3
  <2>. QED
    BY <1>1, <1>2, <1>3, <2>1, <2>2 DEF Growing
<1>10. Behind(f)
  <2>1. SUFFICES ASSUME NEW i \in 2 .. Len(f.pages)
                 PROVE  Len(f.packets) - f.pages[i].upto <= PacketsPerPage * (Len(f.pages) - i)
    BY DEF Behind
  <2>2. i = 2 /\ Len(f.pages) - i = 0
    BY <1>3
  <2>3. f.pages[i].upto = 0 /\ Len(f.packets) = 0
    BY <1>3, <1>8, <2>2
  <2>. QED
    BY <2>2, <2>3, LimitAssumption
<1>11. Buffered(f)'
  BY <1>1, <1>2, <1>3, <1>4, LimitAssumption DEF Buffered
<1>12. Loss(f)'
  <2>1. Upto(f, f.synced) = 0
    BY <1>3, <1>8 DEF Upto
  <2>2. PacketsPerPage * SyncEveryPages \in Nat
    BY LimitAssumption, TimesStep
  <2>. QED
    BY <1>1, <1>2, <2>1, <2>2 DEF Loss
<1>13. ActiveOK'
  BY <1>1, <1>2, <1>3, <1>4, <1>9, <1>10, <1>11, <1>12 DEF ActiveOK, Growing, Behind, Loss
<1>. QED
  BY <1>5, <1>6, <1>7, <1>13 DEF Inv

-----------------------------------------------------------------------------
(* recording_store_write_opus.                                             *)

(* What an open writer that has not failed knows about its file.           *)
OpenState(f) ==
    /\ f = part[name]
    /\ name \in Name /\ ~Exists(ogg[name])
    /\ WellFormed(f) /\ Growing(f) /\ Behind(f) /\ Buffered(f) /\ Loss(f)
    /\ page_sequence \in Nat /\ granule_pos \in Nat /\ segment_count \in Nat
    /\ payload_len \in Nat /\ pages_since_sync \in Nat
    /\ payload \in Seq(Packet) /\ accepted \in Seq(Packet)
    /\ Len(payload) <= PacketsPerPage /\ Len(payload) \in Nat
    /\ Len(f.packets) \in Nat /\ Len(f.pages) \in Nat
    /\ part \in [Name -> File \cup {NoFile}]

(* What the invariant says of an open recording, in one place.             *)
LEMMA OpenFacts ==
    ASSUME Inv, pc = "open", result = "OK", NEW f, f = part[name]
    PROVE  OpenState(f)
<1>1. /\ name \in Name /\ ~Exists(ogg[name])
      /\ WellFormed(f) /\ Growing(f) /\ Behind(f) /\ Buffered(f) /\ Loss(f)
  BY DEF Inv, ActiveOK
<1>2. /\ page_sequence \in Nat /\ granule_pos \in Nat /\ segment_count \in Nat
      /\ payload_len \in Nat /\ pages_since_sync \in Nat
      /\ payload \in Seq(Packet) /\ accepted \in Seq(Packet)
      /\ Len(payload) <= PacketsPerPage /\ Len(payload) \in Nat
      /\ part \in [Name -> File \cup {NoFile}]
  BY LimitAssumption DEF Inv, TypeOK, BuffersFit
<1>3. Len(f.packets) \in Nat /\ Len(f.pages) \in Nat
  BY <1>1 DEF WellFormed, File
<1>. QED
  BY <1>1, <1>2, <1>3 DEF OpenState

(* A packet that fits the page is only buffered.                           *)
LEMMA WriteBufferedKeepsInv ==
    ASSUME Inv, NEW p \in Packet, WriteBuffered(p)
    PROVE  Inv'
<1>1. /\ pc = "open" /\ result = "OK" /\ ~PageFull(p)
      /\ pc' = pc /\ name' = name /\ page_sequence' = page_sequence
      /\ pages_since_sync' = pages_since_sync /\ part' = part /\ ogg' = ogg /\ result' = result
      /\ segment_count' = segment_count + Lacing(p) /\ payload_len' = payload_len + Size[p]
      /\ payload' = Append(payload, p) /\ accepted' = Append(accepted, p)
      /\ granule_pos' = granule_pos + FrameGranule
  BY DEF WriteBuffered, Buffer
<1>0. PICK f : f = part[name]
  OBVIOUS
<1>15. OpenState(f) /\ f = part[name] /\ f = part[name]'
  BY <1>0, <1>1, OpenFacts
<1>2. /\ Lacing(p) \in Nat \ {0} /\ Size[p] \in Nat /\ FrameGranule \in Nat
  BY LacingPositive, FrameGranuleNat
<1>3. /\ payload' \in Seq(Packet) /\ accepted' \in Seq(Packet)
      /\ Len(payload') = Len(payload) + 1 /\ Len(accepted') = Len(accepted) + 1
      /\ payload' # << >> /\ Len(accepted) \in Nat
  <2>1. payload \in Seq(Packet) /\ accepted \in Seq(Packet)
    BY <1>15 DEF OpenState
  <2>2. payload' \in Seq(Packet) /\ Len(payload') = Len(payload) + 1 /\ payload' # << >>
    BY <1>1, <2>1, AppendProperties
  <2>3. accepted' \in Seq(Packet) /\ Len(accepted') = Len(accepted) + 1
    BY <1>1, <2>1, AppendProperties
  <2>. QED
    BY <2>1, <2>2, <2>3
<1>4. /\ segment_count' \in Nat \ {0} /\ payload_len' \in Nat /\ granule_pos' \in Nat
  BY <1>15, <1>1, <1>2 DEF OpenState
<1>5. TypeOK'
  BY <1>1, <1>3, <1>4 DEF Inv, TypeOK
<1>6. BuffersFit'
  <2>1. /\ Len(payload) \in Nat /\ segment_count \in Nat /\ payload_len \in Nat
        /\ ~(Len(payload) >= PacketsPerPage)
        /\ ~(segment_count + Lacing(p) > MaxSegments)
        /\ ~(payload_len + Size[p] > MaxPayload)
    BY <1>15, <1>1 DEF PageFull, OpenState
  <2>2. Len(payload') <= PacketsPerPage
    BY <1>3, <2>1, LimitAssumption
  <2>3. segment_count' <= MaxSegments /\ payload_len' <= MaxPayload
    BY <1>1, <1>2, <2>1, LimitAssumption
  <2>. QED
    BY <2>2, <2>3 DEF BuffersFit
<1>7. FinalFilesComplete'
  BY <1>1 DEF Inv, FinalFilesComplete
<1>8. Growing(f)' /\ Behind(f)'
  BY <1>15, <1>1 DEF Growing, Behind, OpenState
<1>9. Buffered(f)'
  <2>1. /\ Len(accepted) = Len(f.packets) + Len(payload)
        /\ pages_since_sync < SyncEveryPages
        /\ Len(f.packets) \in Nat /\ Len(payload) \in Nat
    BY <1>15 DEF Buffered, OpenState
  <2>2. Len(accepted) + 1 = Len(f.packets) + (Len(payload) + 1)
    BY <2>1, SumStep, Zenon
  <2>3. Len(accepted') = Len(f.packets) + Len(payload')
    BY <1>3, <2>2, Zenon
  <2>. QED
    BY <1>1, <1>3, <1>4, <2>1, <2>3 DEF Buffered
<1>10. Loss(f)'
  <2>1. Len(payload') <= PacketsPerPage /\ Len(payload') \in Nat
    BY <1>15, <1>3, <1>6 DEF BuffersFit, OpenState
  <2>2. f.synced = Len(f.pages) - pages_since_sync /\ f.synced >= 2
    BY <1>15 DEF Growing, OpenState
  <2>3. (Len(f.packets) + Len(payload')) - Upto(f, f.synced)
          <= PacketsPerPage * SyncEveryPages
    BY <1>15, <2>1, <2>2, LossBounded DEF OpenState, Buffered
  <2>4. Len(accepted') = Len(f.packets) + Len(payload')
    BY <1>1, <1>9 DEF Buffered
  <2>. QED
    BY <1>1, <2>3, <2>4 DEF Loss
<1>11. ActiveOK'
  BY <1>15, <1>1, <1>8, <1>9, <1>10 DEF ActiveOK, WellFormed, OpenState
<1>. QED
  BY <1>5, <1>6, <1>7, <1>11 DEF Inv

(* A data page makes a growing file grow, whether it is synced or not.     *)
LEMMA GrowingAfterAppend ==
    ASSUME NEW f, WellFormed(f), Growing(f), Behind(f), page_sequence \in Nat,
           NEW g, NEW gr, NEW ps \in Seq(Packet), Len(ps) <= PacketsPerPage,
           Appended(f, g, "data", gr, ps),
           NEW h, WellFormed(h), h.pages = g.pages, h.packets = g.packets, h.torn = g.torn
    PROVE  /\ ~h.torn
           /\ Len(h.pages) = page_sequence + 1
           /\ \A i \in 1 .. Len(h.pages) : PageAt(h.pages[i], i)
           /\ Behind(h)
<1>1. /\ Len(f.pages) = page_sequence /\ Len(f.pages) >= 2 /\ ~f.torn /\ Len(f.pages) \in Nat
      /\ \A i \in 1 .. Len(f.pages) : PageAt(f.pages[i], i)
  BY DEF Growing
<1>2. /\ Len(h.pages) = Len(f.pages) + 1
      /\ \A i \in 1 .. Len(f.pages) : h.pages[i] = f.pages[i]
      /\ h.pages[Len(h.pages)].type = "data"
      /\ h.pages[Len(h.pages)].seq = page_sequence
      /\ h.torn = f.torn
  BY DEF Appended
<1>3. ASSUME NEW i \in 1 .. Len(h.pages)
      PROVE  PageAt(h.pages[i], i)
  <2>1. CASE i \in 1 .. Len(f.pages)
    BY <1>1, <1>2, <2>1
  <2>2. CASE i = Len(h.pages)
    <3>1. i # 1 /\ i - 1 = page_sequence
      BY <1>1, <1>2, <2>2
    <3>. QED
      BY <1>2, <2>2, <3>1 DEF PageAt
  <2>. QED
    BY <1>1, <1>2, <2>1, <2>2
<1>4. Behind(h)
  <2>1. Behind(g)
    BY BehindAfterAppend, Zenon
  <2>. QED
    BY <2>1 DEF Behind
<1>. QED
  BY <1>1, <1>2, <1>3, <1>4

(* A packet that does not fit flushes the page and starts the next.        *)
LEMMA WriteFlushedKeepsInv ==
    ASSUME Inv, NEW p \in Packet, WriteFlushed(p)
    PROVE  Inv'
<1>0. PICK f, g, h : /\ f = part[name] /\ g = FlushedFile("data")
                     /\ h = IF SyncDue THEN SyncFile(g) ELSE g
  OBVIOUS
<1>1. /\ pc = "open" /\ result = "OK" /\ ValidPacket(p) /\ PageFull(p)
      /\ pc' = pc /\ name' = name /\ ogg' = ogg /\ result' = result
      /\ page_sequence' = page_sequence + 1
      /\ pages_since_sync' = (IF SyncDue THEN 0 ELSE pages_since_sync + 1)
      /\ segment_count' = Lacing(p) /\ payload_len' = Size[p]
      /\ payload' = Append(<< >>, p) /\ accepted' = Append(accepted, p)
      /\ granule_pos' = granule_pos + FrameGranule
      /\ part' = [part EXCEPT ![name] = h]
  <2>1. Lacing(p) \in Nat /\ Size[p] \in Nat
    BY LacingPositive
  <2>. QED
    BY <1>0, <2>1 DEF WriteFlushed, Buffer
<1>2. OpenState(f)
  BY <1>0, <1>1, OpenFacts
<1>3. segment_count # 0
  BY <1>1, <1>2, FullPageIsNotEmpty DEF OpenState, Inv
<1>4. WellFormed(g) /\ Appended(f, g, "data", granule_pos, payload)
  BY <1>0, <1>1, <1>3, FlushedFileOK
<1>5. /\ WellFormed(h)
      /\ h.pages = g.pages /\ h.packets = g.packets /\ h.torn = g.torn
      /\ h.synced = IF SyncDue THEN Len(g.pages) ELSE g.synced
  BY <1>0, <1>4, SyncFileOK
<1>6. /\ Lacing(p) \in Nat \ {0} /\ Size[p] \in Nat /\ FrameGranule \in Nat
  BY LacingPositive, FrameGranuleNat
<1>7. payload' \in Seq(Packet) /\ Len(payload') = 1 /\ payload' # << >>
  BY <1>1
<1>8. accepted \in Seq(Packet) /\ accepted' \in Seq(Packet) /\ Len(accepted') = Len(accepted) + 1
  <2>1. accepted \in Seq(Packet)
    BY <1>2 DEF OpenState
  <2>. QED
    BY <1>1, <2>1, AppendProperties
<1>9. part' \in [Name -> File \cup {NoFile}] /\ part'[name'] = h
  BY <1>1, <1>2, <1>5 DEF OpenState, WellFormed
<1>10. /\ pages_since_sync' \in Nat /\ pages_since_sync' < SyncEveryPages
       /\ pages_since_sync \in Nat
  <2>1. pages_since_sync \in Nat
    BY <1>2 DEF OpenState
  <2>. QED
    BY <1>1, <2>1, LimitAssumption DEF SyncDue
<1>11. TypeOK'
  <2>1. granule_pos' \in Nat /\ page_sequence' \in Nat
    BY <1>1, <1>2, <1>6 DEF OpenState
  <2>2. pages_since_sync' \in 0 .. SyncEveryPages
    BY <1>10, LimitAssumption
  <2>. QED
    BY <1>1, <1>6, <1>7, <1>8, <1>9, <2>1, <2>2 DEF Inv, TypeOK
<1>12. BuffersFit'
  BY <1>1, <1>7, LimitAssumption DEF BuffersFit, ValidPacket
<1>13. FinalFilesComplete'
  BY <1>1 DEF Inv, FinalFilesComplete
<1>14. /\ ~h.torn /\ Len(h.pages) = page_sequence + 1
       /\ \A i \in 1 .. Len(h.pages) : PageAt(h.pages[i], i)
       /\ Behind(h)
  <2>1. /\ WellFormed(f) /\ Growing(f) /\ Behind(f) /\ page_sequence \in Nat
        /\ payload \in Seq(Packet) /\ Len(payload) <= PacketsPerPage
    BY <1>2 DEF OpenState
  <2>. QED
    BY <1>4, <1>5, <2>1, GrowingAfterAppend
<1>15. h.synced = Len(h.pages) - pages_since_sync' /\ h.synced >= 2
  <2>1. /\ f.synced = Len(f.pages) - pages_since_sync /\ f.synced >= 2
        /\ Len(f.pages) \in Nat
    BY <1>2 DEF OpenState, Growing
  <2>2. g.synced = f.synced /\ Len(g.pages) = Len(f.pages) + 1
    BY <1>4 DEF Appended
  <2>3. CASE SyncDue
    <3>1. h.synced = Len(h.pages) /\ pages_since_sync' = 0 /\ Len(h.pages) = Len(f.pages) + 1
      BY <1>1, <1>5, <2>2, <2>3
    <3>2. Len(f.pages) >= 2
      BY <1>2 DEF OpenState, Growing
    <3>. QED
      BY <2>1, <3>1, <3>2
  <2>4. CASE ~SyncDue
    <3>1. /\ h.synced = f.synced /\ pages_since_sync' = pages_since_sync + 1
          /\ Len(h.pages) = Len(f.pages) + 1
      BY <1>1, <1>5, <2>2, <2>4
    <3>. QED
      BY <1>10, <2>1, <3>1
  <2>. QED
    BY <2>3, <2>4
<1>16. Growing(h)'
  <2>1. page_sequence \in Nat /\ page_sequence >= 2
    BY <1>2 DEF OpenState, Growing
  <2>2. Len(h.pages) = page_sequence' /\ Len(h.pages) >= 2
    BY <1>1, <1>14, <2>1
  <2>. QED
    BY <1>14, <1>15, <2>2 DEF Growing
<1>17. Len(accepted') = Len(h.packets) + Len(payload')
  <2>1. Len(accepted) = Len(f.packets) + Len(payload)
    BY <1>2 DEF OpenState, Buffered
  <2>2. Len(h.packets) = Len(f.packets) + Len(payload)
    BY <1>4, <1>5 DEF Appended
  <2>. QED
    BY <1>7, <1>8, <2>1, <2>2
<1>18. Buffered(h)'
  BY <1>1, <1>6, <1>7, <1>10, <1>17 DEF Buffered
<1>19. Loss(h)'
  <2>1. 1 <= PacketsPerPage /\ 1 \in Nat
    BY LimitAssumption
  <2>2. (Len(h.packets) + 1) - Upto(h, h.synced) <= PacketsPerPage * SyncEveryPages
    BY <1>5, <1>10, <1>14, <1>15, <2>1, LossBounded
  <2>. QED
    BY <1>7, <1>17, <2>2 DEF Loss
<1>20. ActiveOK'
  BY <1>1, <1>2, <1>5, <1>9, <1>14, <1>16, <1>18, <1>19
     DEF ActiveOK, OpenState, WellFormed, Behind
<1>. QED
  BY <1>11, <1>12, <1>13, <1>20 DEF Inv

(* A page that cannot be written leaves a torn file that is never final.   *)
LEMMA WriteFailsKeepsInv ==
    ASSUME Inv, NEW p \in Packet, WriteFails(p)
    PROVE  Inv'
<1>0. PICK f, h : f = part[name] /\ h = TearPage(f)
  OBVIOUS
<1>1. /\ pc = "open" /\ result = "OK"
      /\ pc' = pc /\ name' = name /\ ogg' = ogg /\ result' = "FAIL"
      /\ page_sequence' = page_sequence + 1 /\ pages_since_sync' = pages_since_sync
      /\ segment_count' = segment_count /\ payload_len' = payload_len
      /\ payload' = payload /\ accepted' = accepted /\ granule_pos' = granule_pos
      /\ part' = [part EXCEPT ![name] = h]
  BY <1>0 DEF WriteFails
<1>2. OpenState(f)
  BY <1>0, <1>1, OpenFacts
<1>3. /\ WellFormed(h) /\ h.pages = f.pages /\ h.synced = f.synced /\ h.packets = f.packets
  BY <1>0, <1>2, TearPageOK DEF OpenState
<1>4. part' \in [Name -> File \cup {NoFile}] /\ part'[name'] = h
  BY <1>1, <1>2, <1>3 DEF OpenState, WellFormed
<1>5. TypeOK'
  BY <1>1, <1>4 DEF Inv, TypeOK
<1>6. BuffersFit' /\ FinalFilesComplete'
  BY <1>1 DEF Inv, BuffersFit, FinalFilesComplete
<1>7. Loss(h)'
  BY <1>1, <1>2, <1>3 DEF Loss, Upto, OpenState
<1>8. ActiveOK'
  BY <1>1, <1>2, <1>3, <1>4, <1>7 DEF ActiveOK, OpenState
<1>. QED
  BY <1>5, <1>6, <1>8 DEF Inv

(* A page written whose fsync fails is no durable one.                     *)
LEMMA WriteSyncFailsKeepsInv ==
    ASSUME Inv, NEW p \in Packet, WriteSyncFails(p)
    PROVE  Inv'
<1>0. PICK f, g : f = part[name] /\ g = FlushedFile("data")
  OBVIOUS
<1>1. /\ pc = "open" /\ result = "OK" /\ ValidPacket(p) /\ PageFull(p)
      /\ pc' = pc /\ name' = name /\ ogg' = ogg /\ result' = "FAIL"
      /\ page_sequence' = page_sequence + 1 /\ pages_since_sync' = pages_since_sync + 1
      /\ segment_count' = 0 /\ payload_len' = 0
      /\ payload' = << >> /\ accepted' = accepted /\ granule_pos' = granule_pos
      /\ part' = [part EXCEPT ![name] = g]
  BY <1>0 DEF WriteSyncFails
<1>2. OpenState(f)
  BY <1>0, <1>1, OpenFacts
<1>3. segment_count # 0
  BY <1>1, <1>2, FullPageIsNotEmpty DEF OpenState, Inv
<1>4. WellFormed(g) /\ Appended(f, g, "data", granule_pos, payload)
  BY <1>0, <1>1, <1>3, FlushedFileOK
<1>5. part' \in [Name -> File \cup {NoFile}] /\ part'[name'] = g
  BY <1>1, <1>2, <1>4 DEF OpenState, WellFormed
<1>6. pages_since_sync' \in 0 .. SyncEveryPages
  BY <1>1, <1>2, LimitAssumption DEF OpenState, Buffered
<1>7. TypeOK'
  BY <1>1, <1>5, <1>6 DEF Inv, TypeOK
<1>8. BuffersFit' /\ FinalFilesComplete'
  BY <1>1, LimitAssumption DEF Inv, BuffersFit, FinalFilesComplete
<1>9. Behind(g)
  BY <1>2, <1>4, BehindAfterAppend DEF OpenState
<1>10. g.synced = Len(g.pages) - (pages_since_sync + 1) /\ g.synced >= 2
  <2>1. /\ f.synced = Len(f.pages) - pages_since_sync /\ f.synced >= 2
        /\ Len(f.pages) \in Nat /\ pages_since_sync \in Nat
    BY <1>2 DEF OpenState, Growing
  <2>2. g.synced = f.synced /\ Len(g.pages) = Len(f.pages) + 1
    BY <1>4 DEF Appended
  <2>. QED
    BY <2>1, <2>2
<1>11. Len(accepted) = Len(g.packets) + 0
  BY <1>2, <1>4 DEF OpenState, Buffered, Appended
<1>12. Loss(g)'
  <2>1. pages_since_sync + 1 \in Nat /\ pages_since_sync + 1 <= SyncEveryPages
    BY <1>1, <1>6, LimitAssumption
  <2>2. (pages_since_sync + 1 < SyncEveryPages) \/ (pages_since_sync + 1 = SyncEveryPages)
    BY <2>1, LimitAssumption
  <2>3. (Len(g.packets) + 0) - Upto(g, g.synced) <= PacketsPerPage * SyncEveryPages
    <3>1. 0 \in Nat /\ 0 <= PacketsPerPage
      BY LimitAssumption
    <3>2. PICK s \in Nat : s = pages_since_sync + 1
      BY <2>1
    <3>3. (0 <= PacketsPerPage /\ s < SyncEveryPages) \/ (0 = 0 /\ s = SyncEveryPages)
      BY <2>2, <3>1, <3>2
    <3>4. g.synced = Len(g.pages) - s
      BY <1>10, <3>2
    <3>. QED
      BY <1>4, <1>9, <1>10, <3>1, <3>3, <3>4, LossBounded, Zenon
  <2>. QED
    BY <1>1, <1>11, <2>3 DEF Loss
<1>13. ActiveOK'
  BY <1>1, <1>2, <1>4, <1>5, <1>12 DEF ActiveOK, OpenState
<1>. QED
  BY <1>7, <1>8, <1>13 DEF Inv

-----------------------------------------------------------------------------
(* recording_store_finish.                                                 *)
LEMMA FinishPagesKeepsInv ==
    ASSUME Inv, FinishPages
    PROVE  Inv'
<1>0. PICK f, g, h : f = part[name] /\ g = FlushedFile("eos") /\ h = SyncFile(g)
  OBVIOUS
<1>1. /\ pc = "open" /\ result = "OK" /\ accepted # << >>
      /\ pc' = "close" /\ name' = name /\ ogg' = ogg /\ result' = result
      /\ page_sequence' = page_sequence + 1
      /\ pages_since_sync' = (IF SyncDue THEN 0 ELSE pages_since_sync + 1)
      /\ segment_count' = 0 /\ payload_len' = 0
      /\ payload' = << >> /\ accepted' = accepted /\ granule_pos' = granule_pos
      /\ part' = [part EXCEPT ![name] = h]
  BY <1>0 DEF FinishPages
<1>2. OpenState(f)
  BY <1>0, <1>1, OpenFacts
<1>3. segment_count # 0
  BY <1>1, <1>2 DEF OpenState, Buffered
<1>4. WellFormed(g) /\ Appended(f, g, "eos", granule_pos, payload)
  BY <1>0, <1>1, <1>3, FlushedFileOK
<1>5. /\ WellFormed(h) /\ h.pages = g.pages /\ h.packets = g.packets /\ h.torn = g.torn
      /\ h.synced = Len(g.pages)
  BY <1>0, <1>4, SyncFileOK
<1>6. part' \in [Name -> File \cup {NoFile}] /\ part'[name'] = h
  BY <1>1, <1>2, <1>5 DEF OpenState, WellFormed
<1>7. pages_since_sync' \in 0 .. SyncEveryPages
  BY <1>1, <1>2, LimitAssumption DEF OpenState, SyncDue
<1>8. TypeOK'
  <2>1. page_sequence' \in Nat
    BY <1>1, <1>2 DEF OpenState
  <2>. QED
    BY <1>1, <1>6, <1>7, <2>1 DEF Inv, TypeOK
<1>9. BuffersFit' /\ FinalFilesComplete'
  BY <1>1, LimitAssumption DEF Inv, BuffersFit, FinalFilesComplete
<1>10. CompleteFile(h)
  <2>1. /\ Len(f.pages) = page_sequence /\ Len(f.pages) >= 2 /\ ~f.torn /\ Len(f.pages) \in Nat
        /\ \A i \in 1 .. Len(f.pages) : PageAt(f.pages[i], i)
    BY <1>2 DEF OpenState, Growing
  <2>2. /\ Len(h.pages) = Len(f.pages) + 1
        /\ \A i \in 1 .. Len(f.pages) : h.pages[i] = f.pages[i]
        /\ h.pages[Len(h.pages)].type = "eos"
        /\ h.pages[Len(h.pages)].seq = page_sequence
        /\ h.pages[Len(h.pages)].upto = Len(h.packets)
        /\ h.torn = f.torn
    BY <1>4, <1>5 DEF Appended
  <2>3. ASSUME NEW i \in 1 .. Len(h.pages)
        PROVE  /\ h.pages[i].seq = i - 1
               /\ h.pages[i].type = "bos" <=> i = 1
               /\ h.pages[i].type = "eos" <=> i = Len(h.pages)
    <3>1. CASE i \in 1 .. Len(f.pages)
      <4>1. PageAt(h.pages[i], i)
        BY <2>1, <2>2, <3>1
      <4>2. i # Len(h.pages)
        BY <2>1, <2>2, <3>1
      <4>. QED
        BY <4>1, <4>2 DEF PageAt
    <3>2. CASE i = Len(h.pages)
      <4>1. i # 1 /\ i - 1 = page_sequence
        BY <2>1, <2>2, <3>2
      <4>. QED
        BY <2>2, <3>2, <4>1
    <3>. QED
      BY <2>1, <2>2, <3>1, <3>2
  <2>4. Len(h.pages) >= 3 /\ ~h.torn /\ h.synced = Len(h.pages)
    BY <1>5, <2>1, <2>2
  <2>5. h.packets # << >>
    <3>1. /\ Len(h.packets) = Len(f.packets) + Len(payload) /\ Len(f.packets) \in Nat
          /\ payload \in Seq(Packet) /\ payload # << >>
      BY <1>1, <1>2, <1>4, <1>5 DEF Appended, OpenState, Buffered
    <3>2. Len(payload) \in Nat \ {0}
      BY <3>1, EmptySeq
    <3>3. Len(h.packets) # 0
      BY <3>1, <3>2
    <3>. QED
      BY <3>3
  <2>. QED
    BY <2>2, <2>3, <2>4, <2>5 DEF CompleteFile
<1>11. ActiveOK'
  BY <1>1, <1>2, <1>5, <1>6, <1>10 DEF ActiveOK, OpenState, CompleteFile
<1>. QED
  BY <1>8, <1>9, <1>11 DEF Inv

(* A finish that fails leaves the .part file and no .ogg.                  *)
LEMMA FinishFailsKeepsInv ==
    ASSUME Inv, FinishFails
    PROVE  Inv'
<1>1. /\ pc = "open" /\ Deactivate /\ ogg' = ogg /\ result' \in {"OK", "FAIL"}
      /\ \E f \in {TearPage(part[name]), FlushedFile("eos")} :
            \E left \in Truncations(f) : part' = [part EXCEPT ![name] = left]
  BY DEF FinishFails
<1>2. WellFormed(part[name])
  BY <1>1 DEF Inv, ActiveOK
<1>3. WellFormed(TearPage(part[name])) /\ WellFormed(FlushedFile("eos"))
  BY <1>1, <1>2, TearPageOK, FlushedFileOK
<1>. QED
  BY <1>1, <1>3, TruncatePartKeepsInv

(* The rename makes a complete and durable file the .ogg.                  *)
LEMMA RenameKeepsInv ==
    ASSUME Inv, Rename
    PROVE  Inv'
<1>1. /\ pc = "close" /\ Deactivate /\ result' = result
      /\ ogg' = [ogg EXCEPT ![name] = part[name]]
      /\ part' = [part EXCEPT ![name] = NoFile]
  BY DEF Rename
<1>2. name \in Name /\ CompleteFile(part[name]) /\ part[name] \in File
  BY <1>1 DEF Inv, ActiveOK, WellFormed
<1>3. TypeOK'
  <2>1. /\ page_sequence' = page_sequence /\ granule_pos' = granule_pos
        /\ segment_count' = segment_count /\ payload_len' = payload_len
        /\ pages_since_sync' = pages_since_sync /\ payload' = payload
        /\ pc' = "idle" /\ name' = NoName /\ accepted' = << >>
    BY <1>1 DEF Deactivate, page
  <2>2. /\ part' \in [Name -> File \cup {NoFile}] /\ ogg' \in [Name -> File \cup {NoFile}]
        /\ << >> \in Seq(Packet)
    BY <1>1, <1>2 DEF Inv, TypeOK
  <2>. QED
    BY <1>1, <2>1, <2>2 DEF Inv, TypeOK
<1>4. BuffersFit'
  BY <1>1 DEF Inv, BuffersFit, Deactivate, page
<1>5. FinalFilesComplete'
  BY <1>1, <1>2 DEF Inv, FinalFilesComplete, TypeOK
<1>6. ActiveOK'
  BY <1>1 DEF ActiveOK, Deactivate
<1>. QED
  BY <1>3, <1>4, <1>5, <1>6 DEF Inv

-----------------------------------------------------------------------------
(* Power loss, in whatever the writer was doing.                           *)
LEMMA CrashKeepsInv ==
    ASSUME Inv, Crash
    PROVE  Inv'
<1>1. /\ pc # "idle" /\ Deactivate /\ ogg' = ogg /\ result' \in {"OK", "FAIL"}
      /\ \E f \in InFlight : \E left \in Truncations(f) : part' = [part EXCEPT ![name] = left]
  BY DEF Crash
<1>2. WellFormed(part[name])
  BY <1>1 DEF Inv, ActiveOK
<1>3. \A f \in InFlight : WellFormed(f)
  <2>1. CASE pc = "headers"
    <3>1. InFlight = {HeaderFile(2, TRUE)}
      BY <2>1 DEF InFlight
    <3>2. 2 \in 0 .. 2 /\ TRUE \in BOOLEAN
      OBVIOUS
    <3>3. WellFormed(HeaderFile(2, TRUE))
      BY <2>1, <3>2, HeaderFileOK, Zenon
    <3>. QED
      BY <3>1, <3>3
  <2>2. CASE pc = "open" /\ result = "OK" /\ accepted # << >>
    <3>1. \A f \in InFlight : f \in {TearPage(part[name]), FlushedFile("eos"),
                                    FlushedFile("data")}
      BY <2>2 DEF InFlight
    <3>2. /\ WellFormed(TearPage(part[name])) /\ WellFormed(FlushedFile("eos"))
          /\ WellFormed(FlushedFile("data"))
      BY <1>2, <2>2, TearPageOK, FlushedFileOK
    <3>. QED
      BY <3>1, <3>2
  <2>3. CASE pc # "headers" /\ ~(pc = "open" /\ result = "OK" /\ accepted # << >>)
    <3>1. InFlight = {part[name]}
      BY <2>3, Zenon DEF InFlight
    <3>. QED
      BY <1>2, <3>1
  <2>. QED
    BY <2>1, <2>2, <2>3
<1>. QED
  BY <1>1, <1>3, TruncatePartKeepsInv

-----------------------------------------------------------------------------
(* The invariant holds initially and every step keeps it.                  *)
LEMMA InitInv == Init => Inv
<1> SUFFICES ASSUME Init PROVE Inv
  OBVIOUS
<1>1. TypeOK
  BY LimitAssumption DEF Init, TypeOK
<1>2. BuffersFit
  BY LimitAssumption DEF Init, BuffersFit
<1>3. FinalFilesComplete
  BY DEF Init, FinalFilesComplete, Exists
<1>4. ActiveOK
  BY DEF Init, ActiveOK
<1>. QED
  BY <1>1, <1>2, <1>3, <1>4 DEF Inv

(* Every step of the writer, of power loss and of a stutter keeps it.      *)
LEMMA NextInv == Inv /\ [Next]_vars => Inv'
<1> SUFFICES ASSUME Inv, [Next]_vars PROVE Inv'
  OBVIOUS
<1>1. ASSUME NEW n \in Name, Begin(n) PROVE Inv'
  BY <1>1, BeginKeepsInv
<1>2. CASE BeginFails
  BY <1>2 DEF BeginFails, page, Inv, TypeOK, BuffersFit, FinalFilesComplete, ActiveOK
<1>3. CASE WriteHeaders
  BY <1>3, WriteHeadersKeepsInv
<1>4. CASE HeadersFail
  <2>1. pc = "headers" /\ Deactivate /\ ogg' = ogg /\ result' \in {"OK", "FAIL"}
    BY <1>4 DEF HeadersFail
  <2>2. PICK k \in 0 .. 2, torn \in BOOLEAN : RemovePart(HeaderFile(k, torn))
    BY <1>4 DEF HeadersFail
  <2>3. WellFormed(HeaderFile(k, torn))
    BY <2>1, HeaderFileOK
  <2>. QED
    BY <2>1, <2>2, <2>3, RemovePartKeepsInv
<1>5. ASSUME NEW p \in Packet, WriteRejected(p) PROVE Inv'
  <2>1. /\ pc = "open" /\ result = "OK" /\ result' = "FAIL" /\ pc' = pc /\ name' = name
        /\ accepted' = accepted /\ part' = part /\ ogg' = ogg /\ page' = page
    BY <1>5 DEF WriteRejected, page
  <2>. QED
    BY <2>1 DEF page, Inv, TypeOK, BuffersFit, FinalFilesComplete, ActiveOK, Loss
<1>6. ASSUME NEW p \in Packet, WriteBuffered(p) PROVE Inv'
  BY <1>6, WriteBufferedKeepsInv
<1>7. ASSUME NEW p \in Packet, WriteFlushed(p) PROVE Inv'
  BY <1>7, WriteFlushedKeepsInv
<1>8. ASSUME NEW p \in Packet, WriteFails(p) PROVE Inv'
  BY <1>8, WriteFailsKeepsInv
<1>9. ASSUME NEW p \in Packet, WriteSyncFails(p) PROVE Inv'
  BY <1>9, WriteSyncFailsKeepsInv
<1>10. CASE FinishEmpty \/ AbortRemove
  <2>1. /\ pc = "open" /\ Deactivate /\ ogg' = ogg /\ result' = result /\ RemovePart(part[name])
    BY <1>10 DEF FinishEmpty, AbortRemove
  <2>2. WellFormed(part[name]) /\ result' \in {"OK", "FAIL"}
    BY <2>1 DEF Inv, ActiveOK, TypeOK
  <2>. QED
    BY <2>1, <2>2, RemovePartKeepsInv
<1>11. CASE FinishPages
  BY <1>11, FinishPagesKeepsInv
<1>12. CASE FinishFails
  BY <1>12, FinishFailsKeepsInv
<1>13. CASE Rename
  BY <1>13, RenameKeepsInv
<1>14. CASE RenameFails
  <2>1. pc = "close" /\ Deactivate /\ ogg' = ogg /\ part' = part /\ result' = "FAIL"
    BY <1>14 DEF RenameFails
  <2>2. part[name] \in File \cup {NoFile} /\ part' = [part EXCEPT ![name] = part[name]]
    BY <2>1 DEF Inv, ActiveOK, WellFormed, TypeOK
  <2>. QED
    BY <2>1, <2>2, DeactivateKeepsInv
<1>15. CASE AbortKeep
  <2>1. pc = "open" /\ Deactivate /\ ogg' = ogg /\ result' = result
    BY <1>15 DEF AbortKeep
  <2>2. PICK left \in {SyncFile(part[name])} \cup Truncations(part[name]) :
          part' = [part EXCEPT ![name] = left]
    BY <1>15 DEF AbortKeep
  <2>3. WellFormed(part[name]) /\ result' \in {"OK", "FAIL"}
    BY <2>1 DEF Inv, ActiveOK, TypeOK
  <2>4. left \in File \cup {NoFile}
    BY <2>2, <2>3, SyncFileOK, TruncationOK DEF WellFormed
  <2>. QED
    BY <2>1, <2>2, <2>3, <2>4, DeactivateKeepsInv
<1>16. CASE Crash
  BY <1>16, CrashKeepsInv
<1>17. CASE UNCHANGED vars
  BY <1>17 DEF vars, Inv, TypeOK, BuffersFit, FinalFilesComplete, ActiveOK, CompleteFile,
     WellFormed, Growing, Behind, Buffered, Loss
<1>. QED
  BY <1>1, <1>2, <1>3, <1>4, <1>5, <1>6, <1>7, <1>8, <1>9, <1>10, <1>11, <1>12, <1>13, <1>14,
     <1>15, <1>16, <1>17 DEF Next

(* The inductive invariant holds in every behaviour of the writer.         *)
THEOREM Invariance == Spec => []Inv
  BY InitInv, NextInv, PTL DEF Spec

(* The types of the writer's state and of every file, for all page sizes.  *)
THEOREM TypeCorrect == Spec => []TypeOK
<1>1. Inv => TypeOK
  BY DEF Inv
<1>. QED
  BY <1>1, Invariance, PTL

(* segments[], payload[] and the packets of a page stay within their       *)
(* limits for every mix of packet sizes.                                   *)
THEOREM BuffersNeverOverflow == Spec => []BuffersFit
<1>1. Inv => BuffersFit
  BY DEF Inv
<1>. QED
  BY <1>1, Invariance, PTL

(* Every .ogg file is a complete, durable Ogg stream.                      *)
THEOREM OggFilesAreComplete == Spec => []FinalFilesComplete
<1>1. Inv => FinalFilesComplete
  BY DEF Inv
<1>. QED
  BY <1>1, Invariance, PTL

(* At most PacketsPerPage * SyncEveryPages accepted packets are at risk.   *)
THEOREM CrashLossIsBounded == Spec => []BoundedLoss
<1>1. Inv => BoundedLoss
  BY DEF Inv, ActiveOK, Loss, BoundedLoss
<1>. QED
  BY <1>1, Invariance, PTL

-----------------------------------------------------------------------------
(* What the files hold.                                                    *)

(* The pages of a file cover its packets in order.                         *)
Chain(f) == \A i, j \in 1 .. Len(f.pages) : i <= j => f.pages[i].upto <= f.pages[j].upto

(* They tell the position of their last packet.                            *)
Exact(f) ==
    \A i \in 3 .. Len(f.pages) : f.pages[i].granule = PreSkip + f.pages[i].upto * FrameGranule

Sound(f) == WellFormed(f) /\ Chain(f) /\ Exact(f)

IsPrefix(s, t) == Len(s) <= Len(t) /\ s = SubSeq(t, 1, Len(s))

(* The file and the page buffer together are what was accepted, in order.  *)
FileInv ==
    /\ pc = "idle" => name = NoName /\ accepted = << >>
    /\ pc # "idle" => Chain(part[name])
    /\ pc = "headers" => granule_pos = PreSkip
    /\ pc = "open" => /\ part[name].packets \o payload = accepted
                      /\ granule_pos = PreSkip + Len(accepted) * FrameGranule
    /\ pc = "close" => part[name].packets = accepted
    /\ GranulesExact

Durable(f) == Upto(f, f.synced)

(* What a step may leave of a file: no less than was durable.              *)
Left(f, left) ==
    /\ Sound(left)
    /\ \E m \in Durable(f) .. Len(f.packets) : SyncedAudio(left) = SubSeq(f.packets, 1, m)

-----------------------------------------------------------------------------
(* Sequences.                                                              *)

(* A prefix of a prefix is a prefix.                                       *)
LEMMA PrefixOfPrefix ==
    ASSUME NEW S, NEW s \in Seq(S), NEW n \in 0 .. Len(s), NEW m \in 0 .. n
    PROVE  SubSeq(SubSeq(s, 1, n), 1, m) = SubSeq(s, 1, m)
<1>1. Len(s) \in Nat /\ n \in Nat /\ m \in Nat
  OBVIOUS
<1>2. CASE m = 0
  BY <1>2, SubSeqEmpty
<1>3. CASE m # 0
  <2>1. 1 \in 1 .. Len(s) /\ n \in 1 .. Len(s) /\ 1 \in 1 .. n - 1 + 1 /\ m \in 1 .. n - 1 + 1
    BY <1>1, <1>3
  <2>2. SubSeq(SubSeq(s, 1, n), 1, m) = SubSeq(s, 1 + 1 - 1, 1 + m - 1)
    BY <2>1, SubSeqOfSubSeq
  <2>3. 1 + 1 - 1 = 1 /\ 1 + m - 1 = m
    BY <1>1
  <2>. QED
    BY <2>2, <2>3
<1>. QED
  BY <1>2, <1>3

(* The first part of a concatenation is a prefix of it.                    *)
LEMMA PrefixOfConcat ==
    ASSUME NEW S, NEW s \in Seq(S), NEW t \in Seq(S)
    PROVE  IsPrefix(s, s \o t)
<1>1. Len(s) \in Nat /\ Len(t) \in Nat /\ Len(s \o t) = Len(s) + Len(t)
  BY ConcatProperties
<1>2. CASE Len(s) = 0
  <2>1. s = << >>
    BY <1>2, EmptySeq
  <2>2. SubSeq(s \o t, 1, Len(s)) = << >>
    BY <1>2, SubSeqEmpty
  <2>. QED
    BY <1>1, <2>1, <2>2 DEF IsPrefix
<1>3. CASE Len(s) # 0
  <2>1. 1 \in 1 .. Len(s) /\ Len(s) \in 1 .. Len(s)
    BY <1>1, <1>3
  <2>2. SubSeq(s \o t, 1, Len(s)) = SubSeq(s, 1, Len(s))
    BY <2>1, SubSeqOfConcat1
  <2>3. SubSeq(s, 1, Len(s)) = s
    BY SubSeqFull
  <2>. QED
    BY <1>1, <2>2, <2>3 DEF IsPrefix
<1>. QED
  BY <1>2, <1>3

(* Every sequence is a prefix of itself.                                   *)
LEMMA PrefixOfItself == ASSUME NEW S, NEW s \in Seq(S) PROVE IsPrefix(s, s)
<1>1. Len(s) \in Nat /\ SubSeq(s, 1, Len(s)) = s
  BY SubSeqFull
<1>. QED
  BY <1>1 DEF IsPrefix

(* What is appended to the second part is appended to the whole.           *)
LEMMA AppendOfConcat ==
    ASSUME NEW S, NEW s \in Seq(S), NEW t \in Seq(S), NEW e \in S
    PROVE  s \o Append(t, e) = Append(s \o t, e)
<1>1. << e >> \in Seq(S) /\ s \o t \in Seq(S)
  BY ConcatProperties
<1>2. Append(t, e) = t \o << e >> /\ Append(s \o t, e) = (s \o t) \o << e >>
  BY <1>1, AppendIsConcat
<1>3. (s \o t) \o << e >> = s \o (t \o << e >>)
  BY <1>1, ConcatAssociative
<1>. QED
  BY <1>2, <1>3

(* The length of a prefix cut at m.                                        *)
LEMMA PrefixLength ==
    ASSUME NEW S, NEW s \in Seq(S), NEW m \in 0 .. Len(s)
    PROVE  SubSeq(s, 1, m) \in Seq(S) /\ Len(SubSeq(s, 1, m)) = m
<1>1. Len(s) \in Nat /\ m \in Nat /\ 1 \in Int /\ m \in Int
  OBVIOUS
<1>2. \A i \in 1 .. m : s[i] \in S
  BY <1>1, ElementOfSeq
<1>3. SubSeq(s, 1, m) \in Seq(S) /\ Len(SubSeq(s, 1, m)) = IF 1 <= m THEN m - 1 + 1 ELSE 0
  BY <1>1, <1>2, SubSeqProperties
<1>. QED
  BY <1>1, <1>3

-----------------------------------------------------------------------------
(* Files.                                                                  *)

(* What is durable covers no more than what a longer part of the file      *)
(* covers, and no more than its packets.                                   *)
LEMMA UptoMonotone ==
    ASSUME NEW f, WellFormed(f), Chain(f), NEW k \in f.synced .. Len(f.pages)
    PROVE  /\ k \in Nat /\ Upto(f, k) \in Nat /\ Durable(f) \in Nat
           /\ Durable(f) <= Upto(f, k)
           /\ Upto(f, k) <= Len(f.packets) /\ Len(f.packets) \in Nat
<1>1. f \in File /\ f.synced \in Nat /\ Len(f.pages) \in Nat /\ Len(f.packets) \in Nat
      /\ f.synced <= Len(f.pages)
  BY DEF WellFormed, File
<1>2. k \in Nat /\ k \in 0 .. Len(f.pages) /\ f.synced \in 0 .. Len(f.pages) /\ f.synced <= k
  BY <1>1
<1>3. Upto(f, k) \in Nat /\ Durable(f) \in Nat
  BY <1>1, <1>2, UptoNat DEF Durable
<1>4. Upto(f, k) <= Len(f.packets)
  <2>1. CASE k = 0
    BY <1>1, <2>1 DEF Upto
  <2>2. CASE k # 0
    <3>1. k \in 1 .. Len(f.pages)
      BY <1>2, <2>2
    <3>. QED
      BY <2>2, <3>1 DEF Upto, WellFormed
  <2>. QED
    BY <2>1, <2>2
<1>5. Durable(f) <= Upto(f, k)
  <2>1. CASE f.synced = 0
    BY <1>3, <2>1 DEF Durable, Upto
  <2>2. CASE f.synced # 0
    <3>1. k \in 1 .. Len(f.pages) /\ f.synced \in 1 .. Len(f.pages) /\ k # 0
      BY <1>1, <1>2, <2>2
    <3>2. f.pages[f.synced].upto <= f.pages[k].upto
      BY <1>2, <3>1 DEF Chain
    <3>. QED
      BY <2>2, <3>1, <3>2 DEF Durable, Upto
  <2>. QED
    BY <2>1, <2>2
<1>. QED
  BY <1>1, <1>2, <1>3, <1>4, <1>5

(* The audio of a file whose packets are a prefix of s is that prefix of   *)
(* s, cut at what is durable.                                              *)
LEMMA SyncedAudioIs ==
    ASSUME NEW f, WellFormed(f), Chain(f), NEW s \in Seq(Packet), IsPrefix(f.packets, s)
    PROVE  /\ SyncedAudio(f) = SubSeq(s, 1, Durable(f))
           /\ Durable(f) \in 0 .. Len(s)
           /\ Len(SyncedAudio(f)) = Durable(f)
           /\ SyncedAudio(f) \in Seq(Packet)
<1>1. f.synced \in f.synced .. Len(f.pages)
  BY DEF WellFormed, File
<1>2. /\ Durable(f) \in Nat /\ Durable(f) <= Len(f.packets)
      /\ Len(f.packets) \in Nat
  BY <1>1, UptoMonotone DEF Durable
<1>3. Len(s) \in Nat /\ Len(f.packets) <= Len(s) /\ f.packets = SubSeq(s, 1, Len(f.packets))
  BY DEF IsPrefix
<1>4. Len(f.packets) \in 0 .. Len(s) /\ Durable(f) \in 0 .. Len(f.packets)
      /\ Durable(f) \in 0 .. Len(s)
  BY <1>2, <1>3
<1>5. SubSeq(SubSeq(s, 1, Len(f.packets)), 1, Durable(f)) = SubSeq(s, 1, Durable(f))
  BY <1>4, PrefixOfPrefix
<1>6. SyncedAudio(f) = SubSeq(s, 1, Durable(f))
  BY <1>3, <1>5 DEF SyncedAudio, Durable
<1>. QED
  BY <1>4, <1>6, PrefixLength

(* A truncation of a file is what a power loss may leave of it.            *)
LEMMA TruncationLeft ==
    ASSUME NEW f, Sound(f), NEW g \in Truncations(f)
    PROVE  Left(f, g)
<1>1. f \in File /\ f.pages \in Seq(Page) /\ f.packets \in Seq(Packet) /\ WellFormed(f) /\ Chain(f)
  BY DEF Sound, WellFormed, File
<1>2. PICK k \in f.synced .. Len(f.pages), t \in {FALSE, f.torn} :
        g = [pages |-> SubSeq(f.pages, 1, k), packets |-> SubSeq(f.packets, 1, Upto(f, k)),
             synced |-> k, torn |-> t]
  BY DEF Truncations
<1>3. /\ k \in Nat /\ Upto(f, k) \in Nat /\ Durable(f) \in Nat
      /\ Durable(f) <= Upto(f, k) /\ Upto(f, k) <= Len(f.packets) /\ Len(f.packets) \in Nat
  BY <1>1, UptoMonotone
<1>4. k \in 0 .. Len(f.pages) /\ Upto(f, k) \in 0 .. Len(f.packets)
  BY <1>1, <1>2, <1>3
<1>5. Len(g.pages) = k /\ g.synced = k /\ \A i \in 1 .. k : g.pages[i] = f.pages[i]
  <2>1. g.pages = SubSeq(f.pages, 1, k) /\ g.synced = k
    BY <1>2
  <2>2. \A i \in 1 .. k : f.pages[i] \in Page
    BY <1>1, <1>4, ElementOfSeq
  <2>3. /\ Len(SubSeq(f.pages, 1, k)) = IF 1 <= k THEN k - 1 + 1 ELSE 0
        /\ \A i \in 1 .. k - 1 + 1 : SubSeq(f.pages, 1, k)[i] = f.pages[1 + i - 1]
    BY <1>3, <2>2, SubSeqProperties
  <2>4. \A i \in 1 .. k : i \in 1 .. k - 1 + 1 /\ 1 + i - 1 = i
    BY <1>3
  <2>. QED
    BY <1>3, <2>1, <2>3, <2>4
<1>6. g.packets = SubSeq(f.packets, 1, Upto(f, k)) /\ Len(g.packets) = Upto(f, k)
  BY <1>1, <1>2, <1>4, PrefixLength
<1>7. g \in File
  BY <1>1, TruncationOK
<1>8. Upto(g, k) = Upto(f, k)
  BY <1>3, <1>5 DEF Upto
<1>9. \A i \in 1 .. k : i \in 1 .. Len(f.pages) /\ k \in 1 .. Len(f.pages)
  BY <1>1, <1>3, <1>4
<1>10. WellFormed(g)
  <2>1. \A i \in 1 .. k : g.pages[i].upto <= Upto(f, k)
    BY <1>3, <1>5, <1>9 DEF Sound, Chain, Upto
  <2>. QED
    BY <1>3, <1>5, <1>6, <1>7, <2>1 DEF WellFormed
<1>11. Chain(g)
  BY <1>5, <1>9 DEF Sound, Chain
<1>12. Exact(g)
  <2>1. \A i \in 3 .. k : i \in 1 .. k /\ i \in 3 .. Len(f.pages)
    BY <1>1, <1>3, <1>4
  <2>. QED
    BY <1>5, <2>1 DEF Sound, Exact
<1>13. SyncedAudio(g) = SubSeq(f.packets, 1, Upto(f, k))
  <2>1. SubSeq(SubSeq(f.packets, 1, Upto(f, k)), 1, Upto(f, k)) = SubSeq(f.packets, 1, Upto(f, k))
    <3>1. Upto(f, k) \in 0 .. Upto(f, k)
      BY <1>3
    <3>. QED
      BY <1>1, <1>4, <3>1, PrefixOfPrefix
  <2>. QED
    BY <1>5, <1>6, <1>8, <2>1 DEF SyncedAudio
<1>14. Upto(f, k) \in Durable(f) .. Len(f.packets)
  BY <1>3
<1>. QED
  BY <1>10, <1>11, <1>12, <1>13, <1>14 DEF Left, Sound

(* A file that is synced, torn or left alone keeps what it has.            *)
LEMMA KeptLeft ==
    ASSUME NEW f, Sound(f)
    PROVE  /\ Left(f, f) /\ Left(f, SyncFile(f))
           /\ Sound(TearPage(f)) /\ Durable(TearPage(f)) = Durable(f)
           /\ TearPage(f).packets = f.packets
<1>1. /\ WellFormed(f) /\ Chain(f) /\ f \in File
      /\ f.synced \in f.synced .. Len(f.pages) /\ Len(f.pages) \in f.synced .. Len(f.pages)
  BY DEF Sound, WellFormed, File
<1>2. /\ Durable(f) \in Durable(f) .. Len(f.packets)
      /\ Upto(f, Len(f.pages)) \in Durable(f) .. Len(f.packets)
  <2>1. /\ Durable(f) \in Nat /\ Len(f.packets) \in Nat /\ Durable(f) <= Len(f.packets)
        /\ Upto(f, Len(f.pages)) \in Nat /\ Durable(f) <= Upto(f, Len(f.pages))
        /\ Upto(f, Len(f.pages)) <= Len(f.packets)
    BY <1>1, UptoMonotone DEF Durable
  <2>. QED
    BY <2>1
<1>3. Left(f, f)
  BY <1>2 DEF Left, SyncedAudio, Durable
<1>4. /\ WellFormed(SyncFile(f)) /\ SyncFile(f).pages = f.pages
      /\ SyncFile(f).packets = f.packets /\ SyncFile(f).synced = Len(f.pages)
  BY <1>1, SyncFileOK
<1>5. Sound(SyncFile(f))
  BY <1>4 DEF Sound, Chain, Exact
<1>6. SyncedAudio(SyncFile(f)) = SubSeq(f.packets, 1, Upto(f, Len(f.pages)))
  BY <1>4 DEF SyncedAudio, Upto
<1>7. Left(f, SyncFile(f))
  BY <1>2, <1>5, <1>6 DEF Left
<1>8. /\ WellFormed(TearPage(f)) /\ TearPage(f).pages = f.pages
      /\ TearPage(f).synced = f.synced /\ TearPage(f).packets = f.packets
  BY <1>1, TearPageOK
<1>9. Sound(TearPage(f)) /\ Durable(TearPage(f)) = Durable(f)
  BY <1>8 DEF Sound, Chain, Exact, Durable, Upto
<1>. QED
  BY <1>3, <1>7, <1>8, <1>9

(* write_page: one page more, with the position of its last packet.        *)
LEMMA AppendedSound ==
    ASSUME NEW f, Sound(f), NEW h, NEW type, NEW g, NEW ps \in Seq(Packet),
           Appended(f, h, type, g, ps),
           g = PreSkip + Len(h.packets) * FrameGranule
    PROVE  Sound(h) /\ Durable(h) = Durable(f)
<1>1. /\ WellFormed(h) /\ h.synced = f.synced
      /\ Len(h.pages) = Len(f.pages) + 1
      /\ Len(h.packets) = Len(f.packets) + Len(ps)
      /\ \A i \in 1 .. Len(f.pages) : h.pages[i] = f.pages[i]
      /\ h.pages[Len(h.pages)].granule = g
      /\ h.pages[Len(h.pages)].upto = Len(h.packets)
  BY DEF Appended
<1>2. /\ Len(f.pages) \in Nat /\ Len(f.packets) \in Nat /\ Len(ps) \in Nat
      /\ f.synced \in Nat /\ f.synced <= Len(f.pages)
  BY DEF Sound, WellFormed, File
<1>3. Chain(h)
  <2>1. SUFFICES ASSUME NEW i \in 1 .. Len(h.pages), NEW j \in 1 .. Len(h.pages), i <= j
                 PROVE  h.pages[i].upto <= h.pages[j].upto
    BY DEF Chain
  <2>2. CASE j \in 1 .. Len(f.pages)
    <3>1. i \in 1 .. Len(f.pages)
      BY <1>2, <2>1, <2>2
    <3>2. f.pages[i].upto <= f.pages[j].upto
      BY <2>1, <2>2, <3>1 DEF Sound, Chain
    <3>. QED
      BY <1>1, <2>2, <3>1, <3>2
  <2>3. CASE j = Len(h.pages)
    <3>1. h.pages[i].upto <= Len(h.packets)
      BY <1>1 DEF WellFormed
    <3>. QED
      BY <1>1, <2>3, <3>1
  <2>. QED
    BY <1>1, <1>2, <2>2, <2>3
<1>4. Exact(h)
  <2>1. SUFFICES ASSUME NEW i \in 3 .. Len(h.pages)
                 PROVE  h.pages[i].granule = PreSkip + h.pages[i].upto * FrameGranule
    BY DEF Exact
  <2>2. CASE i \in 3 .. Len(f.pages)
    <3>1. i \in 1 .. Len(f.pages)
      BY <1>2, <2>2
    <3>2. f.pages[i].granule = PreSkip + f.pages[i].upto * FrameGranule
      BY <2>2 DEF Sound, Exact
    <3>. QED
      BY <1>1, <3>1, <3>2
  <2>3. CASE i = Len(h.pages)
    BY <1>1, <2>3
  <2>. QED
    BY <1>1, <1>2, <2>2, <2>3
<1>5. Durable(h) = Durable(f)
  <2>1. CASE f.synced = 0
    BY <1>1, <2>1 DEF Durable, Upto
  <2>2. CASE f.synced # 0
    <3>1. f.synced \in 1 .. Len(f.pages)
      BY <1>2, <2>2
    <3>. QED
      BY <1>1, <2>2, <3>1 DEF Durable, Upto
  <2>. QED
    BY <2>1, <2>2
<1>. QED
  BY <1>1, <1>3, <1>4, <1>5 DEF Sound

-----------------------------------------------------------------------------
(* The file of the recording under way.                                    *)

(* It holds a prefix of what was accepted.                                 *)
LEMMA PartFacts ==
    ASSUME Inv, FileInv, pc # "idle", NEW f, f = part[name]
    PROVE  /\ name \in Name /\ name # NoName /\ ~Exists(ogg[name]) /\ Exists(f)
           /\ Sound(f) /\ IsPrefix(f.packets, accepted)
           /\ accepted \in Seq(Packet) /\ payload \in Seq(Packet)
           /\ f.packets \in Seq(Packet)
           /\ part \in [Name -> File \cup {NoFile}]
<1>1. /\ name \in Name /\ name # NoName /\ ~Exists(ogg[name])
      /\ WellFormed(f) /\ Chain(f)
  BY NameAssumption DEF Inv, ActiveOK, FileInv
<1>2. Exact(f)
  BY <1>1 DEF FileInv, GranulesExact, Exact
<1>3. /\ accepted \in Seq(Packet) /\ payload \in Seq(Packet)
      /\ part \in [Name -> File \cup {NoFile}]
      /\ pc \in {"idle", "headers", "open", "close"}
  BY DEF Inv, TypeOK
<1>4. f.packets \in Seq(Packet) /\ Exists(f)
  BY <1>1, NoFileIsNotAFile DEF WellFormed, File, Exists
<1>5. IsPrefix(f.packets, accepted)
  <2>1. CASE pc = "headers"
    <3>1. f.packets = << >> /\ accepted = << >>
      BY <2>1 DEF Inv, ActiveOK, EmptyFile
    <3>. QED
      BY <1>3, <3>1, PrefixOfItself
  <2>2. CASE pc = "open"
    <3>1. f.packets \o payload = accepted
      BY <2>2 DEF FileInv
    <3>2. IsPrefix(f.packets, f.packets \o payload)
      BY <1>3, <1>4, PrefixOfConcat
    <3>. QED
      BY <3>1, <3>2
  <2>3. CASE pc = "close"
    <3>1. f.packets = accepted
      BY <2>3 DEF FileInv
    <3>. QED
      BY <1>3, <3>1, PrefixOfItself
  <2>. QED
    BY <1>3, <2>1, <2>2, <2>3
<1>. QED
  BY <1>1, <1>2, <1>3, <1>4, <1>5 DEF Sound

(* A flushed page makes the file hold all that was accepted.               *)
LEMMA FlushedFacts ==
    ASSUME Inv, FileInv, pc = "open", result = "OK",
           NEW type \in {"bos", "data", "eos"}, NEW h, h = FlushedFile(type)
    PROVE  /\ Sound(h) /\ Durable(h) = Durable(part[name]) /\ h.packets = accepted
           /\ IsPrefix(h.packets, accepted) /\ Exists(h) /\ h \in File
<1>1. PICK f : f = part[name]
  OBVIOUS
<1>2. /\ Sound(f) /\ f.packets \in Seq(Packet) /\ accepted \in Seq(Packet)
      /\ payload \in Seq(Packet)
  BY <1>1, PartFacts
<1>3. /\ f.packets \o payload = accepted
      /\ granule_pos = PreSkip + Len(accepted) * FrameGranule
      /\ segment_count = 0 <=> payload = << >>
  BY <1>1 DEF FileInv, Inv, ActiveOK, Buffered
<1>4. Sound(h) /\ Durable(h) = Durable(f) /\ h.packets = accepted
  <2>1. CASE segment_count = 0
    <3>1. h = f
      BY <1>1, <2>1 DEF FlushedFile
    <3>2. f.packets \o << >> = f.packets
      BY <1>2, ConcatEmptySeq
    <3>. QED
      BY <1>2, <1>3, <2>1, <3>1, <3>2
  <2>2. CASE segment_count # 0
    <3>1. Appended(f, h, type, granule_pos, payload)
      BY <1>1, <2>2, FlushedFileOK
    <3>2. h.packets = accepted
      BY <1>3, <3>1 DEF Appended
    <3>3. Sound(h) /\ Durable(h) = Durable(f)
      BY <1>2, <1>3, <3>1, <3>2, AppendedSound
    <3>. QED
      BY <3>2, <3>3
  <2>. QED
    BY <2>1, <2>2
<1>5. IsPrefix(h.packets, accepted)
  BY <1>2, <1>4, PrefixOfItself
<1>6. Exists(h) /\ h \in File
  BY <1>4, NoFileIsNotAFile DEF Sound, WellFormed, Exists
<1>. QED
  BY <1>1, <1>4, <1>5, <1>6

(* The headers that were being written hold no audio.                      *)
LEMMA HeaderFacts ==
    ASSUME Inv, pc = "headers", NEW k \in 0 .. 2, NEW torn \in BOOLEAN,
           NEW h, h = HeaderFile(k, torn)
    PROVE  Sound(h) /\ h.packets = << >> /\ Len(h.pages) = k
<1>1. /\ WellFormed(h) /\ h.packets = << >> /\ Len(h.pages) = k
      /\ \A i \in 1 .. k : h.pages[i] = HeaderPages[i]
  BY HeaderFileOK
<1>2. HeaderPages[1].upto = 0 /\ HeaderPages[2].upto = 0
  BY DEF HeaderPages
<1>3. \A i \in 1 .. k : i = 1 \/ i = 2
  OBVIOUS
<1>4. \A i \in 1 .. k : h.pages[i].upto = 0
  BY <1>1, <1>2, <1>3
<1>5. Chain(h)
  BY <1>1, <1>4 DEF Chain
<1>6. Exact(h)
  <2>1. \A i \in 3 .. k : FALSE
    OBVIOUS
  <2>. QED
    BY <1>1, <2>1 DEF Exact
<1>. QED
  BY <1>1, <1>5, <1>6 DEF Sound

-----------------------------------------------------------------------------
(* Disk after a step.                                                      *)

(* A step that leaves h of the .part file and touches no other.            *)
LEMMA DiskStep ==
    ASSUME Inv, FileInv, pc # "idle", NEW h, Exists(h),
           part' = [part EXCEPT ![name] = h], ogg' = ogg
    PROVE  Disk' = [Disk EXCEPT ![name].packets = SyncedAudio(h)]
<1>1. /\ name \in Name /\ ~Exists(ogg[name]) /\ Exists(part[name])
      /\ part \in [Name -> File \cup {NoFile}]
  BY PartFacts
<1>2. part'[name] = h /\ \A n \in Name \ {name} : part'[n] = part[n]
  BY <1>1
<1>3. Disk[name] = [kind |-> "partial", packets |-> SyncedAudio(part[name])]
  BY <1>1 DEF Disk
<1>4. Disk'[name] = [kind |-> "partial", packets |-> SyncedAudio(h)]
  BY <1>1, <1>2 DEF Disk
<1>5. \A n \in Name \ {name} : Disk'[n] = Disk[n]
  BY <1>2 DEF Disk
<1>6. Disk = [n \in Name |-> Disk[n]] /\ Disk' = [n \in Name |-> Disk'[n]]
  BY DEF Disk
<1>7. [Disk[name] EXCEPT !.packets = SyncedAudio(h)] = Disk'[name]
  BY <1>3, <1>4
<1>8. Disk' = [Disk EXCEPT ![name] = Disk'[name]]
  BY <1>1, <1>5, <1>6
<1>. QED
  BY <1>7, <1>8

(* What is on the medium of the recording under way.                       *)
LEMMA DiskIs ==
    ASSUME Inv, FileInv, pc # "idle", NEW f, f = part[name]
    PROVE  /\ Disk[name] = [kind |-> "partial", packets |-> SyncedAudio(f)]
           /\ SyncedAudio(f) = SubSeq(accepted, 1, Durable(f))
           /\ Len(Disk[name].packets) = Durable(f)
           /\ Durable(f) \in 0 .. Len(accepted)
<1>1. /\ name \in Name /\ ~Exists(ogg[name]) /\ Exists(f)
      /\ Sound(f) /\ IsPrefix(f.packets, accepted) /\ accepted \in Seq(Packet)
  BY PartFacts
<1>2. Disk[name] = [kind |-> "partial", packets |-> SyncedAudio(f)]
  BY <1>1 DEF Disk
<1>3. /\ SyncedAudio(f) = SubSeq(accepted, 1, Durable(f))
      /\ Durable(f) \in 0 .. Len(accepted)
      /\ Len(SyncedAudio(f)) = Durable(f)
  BY <1>1, SyncedAudioIs DEF Sound
<1>. QED
  BY <1>2, <1>3

(* A step that leaves h and makes nothing more durable changes no disk.    *)
LEMMA DiskStays ==
    ASSUME Inv, FileInv, pc # "idle", NEW h, Sound(h), IsPrefix(h.packets, accepted),
           Durable(h) = Durable(part[name]),
           part' = [part EXCEPT ![name] = h], ogg' = ogg
    PROVE  Disk' = Disk
<1>1. name \in Name /\ accepted \in Seq(Packet)
  BY PartFacts
<1>2. SyncedAudio(h) = SubSeq(accepted, 1, Durable(h))
  BY <1>1, SyncedAudioIs DEF Sound
<1>3. Exists(h)
  BY NoFileIsNotAFile DEF Sound, WellFormed, Exists
<1>4. Disk' = [Disk EXCEPT ![name].packets = SyncedAudio(h)]
  BY <1>3, DiskStep
<1>5. Disk[name] = [kind |-> "partial", packets |-> SyncedAudio(h)]
  BY <1>2, DiskIs
<1>6. [Disk[name] EXCEPT !.packets = SyncedAudio(h)] = Disk[name]
  BY <1>5
<1>7. Disk = [n \in Name |-> Disk[n]]
  BY DEF Disk
<1>. QED
  BY <1>1, <1>4, <1>6, <1>7

-----------------------------------------------------------------------------
(* Steps.                                                                  *)

(* Positions stay exact when one file is replaced by an exact one.         *)
LEMMA GranulesAfter ==
    ASSUME GranulesExact, part \in [Name -> File \cup {NoFile}], NEW h, Exact(h),
           part' = [part EXCEPT ![name] = h], ogg' = ogg
    PROVE  GranulesExact'
<1>1. \A n \in Name : Exact(part[n]) /\ Exact(ogg[n])
  BY DEF GranulesExact, Exact
<1>2. \A n \in Name : part'[n] = part[n] \/ part'[n] = h
  OBVIOUS
<1>3. \A n \in Name : Exact(part'[n]) /\ Exact(ogg'[n])
  BY <1>1, <1>2
<1>. QED
  BY <1>3 DEF GranulesExact, Exact

(* A name without a file has no pages.                                     *)
LEMMA NoFileExact == Exact(NoFile)
<1>1. \A i \in 3 .. 0 : FALSE
  OBVIOUS
<1>2. Len(NoFile.pages) = 0
  BY DEF NoFile
<1>. QED
  BY <1>1, <1>2 DEF Exact

(* The recording stays open.                                               *)
LEMMA OpenKeepsFileInv ==
    ASSUME Inv, FileInv, pc # "idle", NEW h, Sound(h),
           part' = [part EXCEPT ![name] = h], ogg' = ogg, name' = name, pc' = "open",
           h.packets \o payload' = accepted',
           granule_pos' = PreSkip + Len(accepted') * FrameGranule
    PROVE  FileInv'
<1>1. name \in Name /\ part \in [Name -> File \cup {NoFile}]
  BY PartFacts
<1>2. part'[name'] = h
  BY <1>1
<1>3. GranulesExact'
  BY <1>1, GranulesAfter DEF Sound, FileInv
<1>. QED
  BY <1>2, <1>3 DEF FileInv, Sound

(* The writer gives the recording up: the medium keeps what it held.       *)
LEMMA GiveUpStep ==
    ASSUME Inv, FileInv, pc # "idle", NEW f, Sound(f), IsPrefix(f.packets, accepted),
           Durable(part[name]) <= Durable(f), NEW left, Left(f, left),
           part' = [part EXCEPT ![name] = left], Deactivate, ogg' = ogg
    PROVE  FileInv' /\ Log!LogGiveUp
<1>1. /\ name \in Name /\ name # NoName /\ part \in [Name -> File \cup {NoFile}]
      /\ accepted \in Seq(Packet)
  BY PartFacts
<1>2. pc' = "idle" /\ name' = NoName /\ accepted' = << >>
  BY DEF Deactivate
<1>3. PICK m \in Durable(f) .. Len(f.packets) : SyncedAudio(left) = SubSeq(f.packets, 1, m)
  BY DEF Left
<1>4. Sound(left) /\ Exists(left)
  BY NoFileIsNotAFile DEF Left, Sound, WellFormed, Exists
<1>5. /\ Durable(f) \in Nat /\ Len(f.packets) \in Nat /\ m \in Nat /\ m <= Len(f.packets)
      /\ Durable(f) <= m
  <2>1. f.synced \in f.synced .. Len(f.pages)
    BY DEF Sound, WellFormed, File
  <2>2. Durable(f) \in Nat /\ Len(f.packets) \in Nat
    BY <2>1, UptoMonotone DEF Sound
  <2>. QED
    BY <1>3, <2>2
<1>6. Len(accepted) \in Nat /\ Len(f.packets) <= Len(accepted)
      /\ f.packets = SubSeq(accepted, 1, Len(f.packets))
  BY <1>1 DEF IsPrefix
<1>7. SyncedAudio(left) = SubSeq(accepted, 1, m)
  <2>1. Len(f.packets) \in 0 .. Len(accepted) /\ m \in 0 .. Len(f.packets)
    BY <1>5, <1>6
  <2>2. SubSeq(SubSeq(accepted, 1, Len(f.packets)), 1, m) = SubSeq(accepted, 1, m)
    BY <1>1, <2>1, PrefixOfPrefix
  <2>. QED
    BY <1>3, <1>6, <2>2
<1>8. /\ Len(Disk[name].packets) = Durable(part[name])
      /\ Durable(part[name]) \in 0 .. Len(accepted)
  BY DiskIs
<1>9. m \in Len(Disk[name].packets) .. Len(accepted)
  BY <1>5, <1>6, <1>8
<1>10. Disk' = [Disk EXCEPT ![name].packets = SubSeq(accepted, 1, m)]
  BY <1>4, <1>7, DiskStep
<1>11. Log!LogGiveUp
  BY <1>1, <1>2, <1>9, <1>10 DEF Log!LogGiveUp, Log!Prefix
<1>12. FileInv'
  <2>1. GranulesExact'
    BY <1>1, <1>4, GranulesAfter DEF Sound, FileInv
  <2>. QED
    BY <1>2, <2>1 DEF FileInv
<1>. QED
  BY <1>11, <1>12

(* An empty recording is discarded; when its file cannot be removed, what  *)
(* is left holds no audio.                                                 *)
LEMMA RemoveStep ==
    ASSUME Inv, FileInv, pc # "idle", accepted = << >>, NEW f, Sound(f), f.packets = << >>,
           Durable(part[name]) <= Durable(f), RemovePart(f), Deactivate, ogg' = ogg
    PROVE  FileInv' /\ (Log!LogGiveUp \/ Log!LogDiscard)
<1>1. PICK left \in {NoFile} \cup Truncations(f) : part' = [part EXCEPT ![name] = left]
  BY DEF RemovePart
<1>2. /\ name \in Name /\ name # NoName /\ part \in [Name -> File \cup {NoFile}]
      /\ ~Exists(ogg[name]) /\ accepted \in Seq(Packet)
  BY PartFacts
<1>3. CASE left = NoFile
  <2>1. pc' = "idle" /\ name' = NoName /\ accepted' = << >>
    BY DEF Deactivate
  <2>2. part'[name] = NoFile /\ \A n \in Name \ {name} : part'[n] = part[n]
    BY <1>1, <1>2, <1>3
  <2>3. Disk'[name] = [kind |-> "absent", packets |-> << >>]
    BY <1>2, <2>2 DEF Disk, Exists
  <2>4. \A n \in Name \ {name} : Disk'[n] = Disk[n]
    BY <2>2 DEF Disk
  <2>5. Disk = [n \in Name |-> Disk[n]] /\ Disk' = [n \in Name |-> Disk'[n]]
    BY DEF Disk
  <2>6. Disk' = [Disk EXCEPT ![name] = [kind |-> "absent", packets |-> << >>]]
    BY <1>2, <2>3, <2>4, <2>5
  <2>7. Log!LogDiscard
    BY <1>2, <2>1, <2>6 DEF Log!LogDiscard, Log!Absent
  <2>8. GranulesExact'
    BY <1>1, <1>2, <1>3, GranulesAfter, NoFileExact DEF FileInv
  <2>. QED
    BY <2>1, <2>7, <2>8 DEF FileInv
<1>4. CASE left \in Truncations(f)
  <2>1. Left(f, left)
    BY <1>4, TruncationLeft
  <2>2. IsPrefix(f.packets, accepted)
    BY <1>2, PrefixOfItself
  <2>. QED
    BY <1>1, <2>1, <2>2, GiveUpStep
<1>. QED
  BY <1>1, <1>3, <1>4

(* A packet is accepted and no more than the allowed loss is behind it.    *)
LEMMA AcceptStep ==
    ASSUME Inv, FileInv, Inv', pc # "idle", pc' = "open", name' = name, NEW p \in Packet,
           accepted' = Append(accepted, p), NEW h, Sound(h), IsPrefix(h.packets, accepted),
           Durable(part[name]) <= Durable(h),
           part' = [part EXCEPT ![name] = h], ogg' = ogg
    PROVE  Log!LogAccept(p)
<1>1. /\ name \in Name /\ name # NoName /\ part \in [Name -> File \cup {NoFile}]
      /\ accepted \in Seq(Packet)
  BY PartFacts
<1>2. /\ SyncedAudio(h) = SubSeq(accepted, 1, Durable(h))
      /\ Durable(h) \in 0 .. Len(accepted)
  BY <1>1, SyncedAudioIs DEF Sound
<1>3. Len(Disk[name].packets) = Durable(part[name]) /\ Durable(part[name]) \in 0 .. Len(accepted)
  BY DiskIs
<1>4. Exists(h)
  BY NoFileIsNotAFile DEF Sound, WellFormed, Exists
<1>5. Disk' = [Disk EXCEPT ![name].packets = SubSeq(accepted, 1, Durable(h))]
  BY <1>2, <1>4, DiskStep
<1>6. Durable(h) \in Len(Disk[name].packets) .. Len(accepted)
  BY <1>2, <1>3
<1>7. Durable(h) >= Len(accepted') - PacketsPerPage * SyncEveryPages
  <2>1. part'[name'] = h
    BY <1>1
  <2>2. Len(accepted') - Upto(h, h.synced) <= PacketsPerPage * SyncEveryPages
    BY <2>1 DEF Inv, ActiveOK, Loss
  <2>3. PacketsPerPage * SyncEveryPages \in Nat
    BY LimitAssumption, TimesStep
  <2>4. Len(accepted') \in Nat
    BY DEF Inv, TypeOK
  <2>. QED
    BY <1>2, <2>2, <2>3, <2>4 DEF Durable
<1>. QED
  BY <1>1, <1>5, <1>6, <1>7 DEF Log!LogAccept, Log!Prefix

-----------------------------------------------------------------------------
(* The actions.                                                            *)

(* A step of RecordingLog, or one that it does not see.                    *)
LogStep == Log!LogNext \/ UNCHANGED <<name, accepted, Disk>>

(* recording_store_begin opens a recording that holds nothing.             *)
LEMMA BeginRefines ==
    ASSUME Inv, FileInv, NEW n \in Name, Begin(n)
    PROVE  FileInv' /\ LogStep
<1>1. /\ pc = "idle" /\ ~Exists(part[n]) /\ ~Exists(ogg[n])
      /\ pc' = "headers" /\ name' = n /\ granule_pos' = PreSkip /\ accepted' = << >>
      /\ part' = [part EXCEPT ![n] = EmptyFile] /\ ogg' = ogg
  BY DEF Begin
<1>2. part \in [Name -> File \cup {NoFile}] /\ name = NoName /\ accepted = << >>
  BY <1>1 DEF Inv, TypeOK, FileInv
<1>3. part'[n] = EmptyFile /\ \A k \in Name \ {n} : part'[k] = part[k]
  BY <1>1, <1>2
<1>4. /\ Len(EmptyFile.pages) = 0 /\ SyncedAudio(EmptyFile) = << >> /\ Exists(EmptyFile)
  <2>1. EmptyFile.pages = << >> /\ EmptyFile.packets = << >> /\ EmptyFile.synced = 0
    BY DEF EmptyFile
  <2>2. SubSeq(<< >>, 1, 0) = << >>
    BY SubSeqEmpty
  <2>3. Upto(EmptyFile, 0) = 0
    BY DEF Upto
  <2>. QED
    BY <2>1, <2>2, <2>3, EmptyFileOK DEF SyncedAudio
<1>5. Chain(EmptyFile) /\ Exact(EmptyFile)
  <2>1. (\A i \in 1 .. 0 : FALSE) /\ (\A i \in 3 .. 0 : FALSE)
    OBVIOUS
  <2>. QED
    BY <1>4, <2>1 DEF Chain, Exact
<1>6. FileInv'
  <2>1. GranulesExact'
    <3>1. \A k \in Name : Exact(part[k]) /\ Exact(ogg[k])
      BY DEF FileInv, GranulesExact, Exact
    <3>2. \A k \in Name : Exact(part'[k]) /\ Exact(ogg'[k])
      BY <1>1, <1>3, <1>5, <3>1
    <3>. QED
      BY <3>2 DEF GranulesExact, Exact
  <2>. QED
    BY <1>1, <1>3, <1>5, <2>1 DEF FileInv
<1>7. Log!LogOpen(n)
  <2>1. Disk[n] = [kind |-> "absent", packets |-> << >>]
    BY <1>1 DEF Disk
  <2>2. Disk'[n] = [kind |-> "partial", packets |-> << >>]
    BY <1>1, <1>3, <1>4 DEF Disk
  <2>3. \A k \in Name \ {n} : Disk'[k] = Disk[k]
    BY <1>1, <1>3 DEF Disk
  <2>4. Disk = [k \in Name |-> Disk[k]] /\ Disk' = [k \in Name |-> Disk'[k]]
    BY DEF Disk
  <2>5. [Disk[n] EXCEPT !.kind = "partial"] = Disk'[n]
    BY <2>1, <2>2
  <2>6. Disk' = [Disk EXCEPT ![n] = Disk'[n]]
    BY <2>3, <2>4
  <2>7. Disk' = [Disk EXCEPT ![n].kind = "partial"]
    BY <2>5, <2>6
  <2>. QED
    BY <1>1, <1>2, <2>1, <2>7 DEF Log!LogOpen, Log!Absent
<1>. QED
  BY <1>6, <1>7 DEF LogStep, Log!LogNext

(* The headers hold no audio.                                              *)
LEMMA WriteHeadersRefines ==
    ASSUME Inv, FileInv, WriteHeaders
    PROVE  FileInv' /\ LogStep
<1>0. PICK g, h : g = HeaderFile(2, FALSE) /\ h = SyncFile(g)
  OBVIOUS
<1>1. /\ pc = "headers" /\ pc' = "open" /\ name' = name /\ granule_pos' = granule_pos
      /\ payload' = payload /\ accepted' = accepted /\ ogg' = ogg
      /\ part' = [part EXCEPT ![name] = h]
  BY <1>0 DEF WriteHeaders
<1>2. /\ part[name] = EmptyFile /\ accepted = << >> /\ payload = << >>
      /\ page_sequence = 0 /\ granule_pos = PreSkip
  BY <1>1 DEF Inv, ActiveOK, FileInv
<1>3. Sound(g) /\ g.packets = << >> /\ Len(g.pages) = 2
  <2>1. 2 \in 0 .. 2 /\ FALSE \in BOOLEAN
    OBVIOUS
  <2>. QED
    BY <1>0, <1>1, <2>1, HeaderFacts
<1>4. Sound(h) /\ h.packets = << >>
  <2>1. Left(g, h)
    BY <1>0, <1>3, KeptLeft
  <2>2. h.packets = g.packets
    BY <1>0, <1>3, SyncFileOK DEF Sound
  <2>. QED
    BY <1>3, <2>1, <2>2 DEF Left
<1>5. Durable(h) = 0 /\ Durable(part[name]) = 0
  <2>1. h.synced \in h.synced .. Len(h.pages)
    BY <1>4 DEF Sound, WellFormed, File
  <2>2. Durable(h) \in Nat /\ Durable(h) <= Len(h.packets)
    BY <1>4, <2>1, UptoMonotone DEF Sound, Durable
  <2>3. Len(h.packets) = 0
    BY <1>4
  <2>4. Durable(part[name]) = 0
    BY <1>2 DEF Durable, Upto, EmptyFile
  <2>. QED
    BY <2>2, <2>3, <2>4
<1>6. IsPrefix(h.packets, accepted)
  <2>1. << >> \in Seq(Packet)
    OBVIOUS
  <2>. QED
    BY <1>2, <1>4, <2>1, PrefixOfItself
<1>7. pc # "idle"
  BY <1>1
<1>8. Disk' = Disk
  BY <1>1, <1>4, <1>5, <1>6, <1>7, DiskStays
<1>9. /\ h.packets \o payload' = accepted'
      /\ granule_pos' = PreSkip + Len(accepted') * FrameGranule
  <2>1. << >> \o << >> = << >>
    BY ConcatEmptySeq
  <2>2. Len(accepted') = 0 /\ 0 * FrameGranule = 0 /\ PreSkip + 0 = PreSkip
    BY <1>1, <1>2, FrameGranuleNat, RateAssumption
  <2>. QED
    BY <1>1, <1>2, <1>4, <2>1, <2>2
<1>10. FileInv'
  BY <1>1, <1>4, <1>7, <1>9, OpenKeepsFileInv
<1>. QED
  BY <1>1, <1>8, <1>10 DEF LogStep

(* A begin that fails in the headers discards the recording.               *)
LEMMA HeadersFailRefines ==
    ASSUME Inv, FileInv, HeadersFail
    PROVE  FileInv' /\ LogStep
<1>1. pc = "headers" /\ pc # "idle" /\ Deactivate /\ ogg' = ogg
  BY DEF HeadersFail
<1>2. PICK k \in 0 .. 2, torn \in BOOLEAN : RemovePart(HeaderFile(k, torn))
  BY DEF HeadersFail
<1>3. PICK f : f = HeaderFile(k, torn)
  OBVIOUS
<1>4. Sound(f) /\ f.packets = << >>
  BY <1>1, <1>3, HeaderFacts
<1>5. accepted = << >> /\ Durable(part[name]) = 0
  BY <1>1 DEF Inv, ActiveOK, Durable, Upto, EmptyFile
<1>6. Durable(part[name]) <= Durable(f)
  <2>1. f.synced \in f.synced .. Len(f.pages)
    BY <1>4 DEF Sound, WellFormed, File
  <2>2. Durable(f) \in Nat
    BY <1>4, <2>1, UptoMonotone DEF Sound
  <2>. QED
    BY <1>5, <2>2
<1>7. FileInv' /\ (Log!LogGiveUp \/ Log!LogDiscard)
  BY <1>1, <1>2, <1>3, <1>4, <1>5, <1>6, RemoveStep
<1>. QED
  BY <1>7 DEF LogStep, Log!LogNext

(* One frame more in the position.                                         *)
LEMMA GranuleStep ==
    ASSUME NEW s \in Seq(Packet), NEW p \in Packet,
           granule_pos = PreSkip + Len(s) * FrameGranule
    PROVE  granule_pos + FrameGranule = PreSkip + Len(Append(s, p)) * FrameGranule
<1>1. Len(s) \in Nat /\ Len(Append(s, p)) = Len(s) + 1
  BY AppendProperties
<1>2. \A a, b \in Nat : (b + 1) * a = b * a + a /\ b * a \in Nat
  BY SMT
<1>3. (Len(s) + 1) * FrameGranule = Len(s) * FrameGranule + FrameGranule
      /\ Len(s) * FrameGranule \in Nat
  BY <1>1, <1>2, FrameGranuleNat
<1>. QED
  BY <1>1, <1>3, FrameGranuleNat, RateAssumption

(* A packet that is buffered is accepted.                                  *)
LEMMA WriteBufferedRefines ==
    ASSUME Inv, FileInv, Inv', NEW p \in Packet, WriteBuffered(p)
    PROVE  FileInv' /\ LogStep
<1>0. PICK f : f = part[name]
  OBVIOUS
<1>1. /\ pc = "open" /\ pc' = pc /\ name' = name /\ part' = part /\ ogg' = ogg
      /\ payload' = Append(payload, p) /\ accepted' = Append(accepted, p)
      /\ granule_pos' = granule_pos + FrameGranule /\ pc # "idle"
  BY DEF WriteBuffered, Buffer
<1>2. /\ Sound(f) /\ IsPrefix(f.packets, accepted) /\ f.packets \in Seq(Packet)
      /\ accepted \in Seq(Packet) /\ payload \in Seq(Packet) /\ name \in Name
      /\ part \in [Name -> File \cup {NoFile}]
  BY <1>0, <1>1, PartFacts
<1>3. /\ f.packets \o payload = accepted
      /\ granule_pos = PreSkip + Len(accepted) * FrameGranule
  BY <1>0, <1>1 DEF FileInv
<1>4. part' = [part EXCEPT ![name] = f]
  BY <1>0, <1>1, <1>2
<1>5. f.packets \o payload' = accepted'
  <2>1. f.packets \o Append(payload, p) = Append(f.packets \o payload, p)
    <3>1. f.packets \in Seq(Packet) /\ payload \in Seq(Packet) /\ p \in Packet
      BY <1>2
    <3>2. \A s, t \in Seq(Packet) : s \o Append(t, p) = Append(s \o t, p)
      BY <3>1, AppendOfConcat
    <3>. QED
      BY <3>1, <3>2, Zenon
  <2>. QED
    BY <1>1, <1>3, <2>1
<1>6. granule_pos' = PreSkip + Len(accepted') * FrameGranule
  BY <1>1, <1>2, <1>3, GranuleStep
<1>7. FileInv'
  BY <1>1, <1>2, <1>4, <1>5, <1>6, OpenKeepsFileInv
<1>8. Durable(part[name]) <= Durable(f)
  <2>1. Durable(f) \in 0 .. Len(accepted)
    BY <1>0, <1>1, DiskIs
  <2>. QED
    BY <1>0, <1>2, <2>1
<1>9. Log!LogAccept(p)
  BY <1>1, <1>2, <1>4, <1>8, AcceptStep
<1>. QED
  BY <1>7, <1>9 DEF LogStep, Log!LogNext

(* A page that is flushed makes room for the packet that is accepted.      *)
LEMMA WriteFlushedRefines ==
    ASSUME Inv, FileInv, Inv', NEW p \in Packet, WriteFlushed(p)
    PROVE  FileInv' /\ LogStep
<1>0. PICK f, h : f = FlushedFile("data") /\ h = (IF SyncDue THEN SyncFile(f) ELSE f)
  OBVIOUS
<1>1. /\ pc = "open" /\ result = "OK" /\ pc' = pc /\ name' = name /\ ogg' = ogg
      /\ part' = [part EXCEPT ![name] = h]
      /\ payload' = Append(<< >>, p) /\ accepted' = Append(accepted, p)
      /\ granule_pos' = granule_pos + FrameGranule /\ pc # "idle"
  BY <1>0 DEF WriteFlushed, Buffer
<1>2. /\ Sound(f) /\ Durable(f) = Durable(part[name]) /\ f.packets = accepted
      /\ IsPrefix(f.packets, accepted)
  BY <1>0, <1>1, FlushedFacts
<1>3. accepted \in Seq(Packet) /\ Durable(f) \in Nat
  <2>1. accepted \in Seq(Packet) /\ Durable(part[name]) \in 0 .. Len(accepted)
    BY <1>1, PartFacts, DiskIs
  <2>. QED
    BY <1>2, <2>1
<1>4. Sound(h) /\ h.packets = accepted /\ Durable(f) <= Durable(h)
  <2>1. CASE SyncDue
    <3>1. h = SyncFile(f)
      BY <1>0, <2>1
    <3>2. Left(f, h) /\ h.packets = f.packets /\ h.pages = f.pages /\ h.synced = Len(f.pages)
      BY <1>2, <3>1, KeptLeft, SyncFileOK DEF Sound
    <3>3. Durable(h) = Upto(f, Len(f.pages))
      BY <3>2 DEF Durable, Upto
    <3>4. Len(f.pages) \in f.synced .. Len(f.pages)
      BY <1>2 DEF Sound, WellFormed, File
    <3>5. Durable(f) <= Upto(f, Len(f.pages))
      BY <1>2, <3>4, UptoMonotone DEF Sound
    <3>. QED
      BY <1>2, <3>2, <3>3, <3>5 DEF Left
  <2>2. CASE ~SyncDue
    BY <1>0, <1>2, <1>3, <2>2
  <2>. QED
    BY <2>1, <2>2
<1>5. h.packets \o payload' = accepted'
  <2>1. accepted \o Append(<< >>, p) = Append(accepted \o << >>, p)
    BY <1>3, AppendOfConcat
  <2>2. accepted \o << >> = accepted
    BY <1>3, ConcatEmptySeq
  <2>. QED
    BY <1>1, <1>4, <2>1, <2>2
<1>6. granule_pos = PreSkip + Len(accepted) * FrameGranule
  BY <1>1 DEF FileInv
<1>7. granule_pos' = PreSkip + Len(accepted') * FrameGranule
  BY <1>1, <1>3, <1>6, GranuleStep
<1>8. FileInv'
  BY <1>1, <1>4, <1>5, <1>7, OpenKeepsFileInv
<1>9. IsPrefix(h.packets, accepted)
  BY <1>2, <1>4
<1>10. Log!LogAccept(p)
  BY <1>1, <1>2, <1>4, <1>9, AcceptStep
<1>. QED
  BY <1>8, <1>10 DEF LogStep, Log!LogNext

(* A packet that is not taken changes nothing: refused, or its page torn   *)
(* or not synced.                                                          *)
LEMMA WriteNotTakenRefines ==
    ASSUME Inv, FileInv, NEW p \in Packet,
           WriteRejected(p) \/ WriteFails(p) \/ WriteSyncFails(p)
    PROVE  FileInv' /\ LogStep
<1>0. PICK f : f = part[name]
  OBVIOUS
<1>1. /\ pc = "open" /\ result = "OK" /\ pc' = pc /\ name' = name /\ ogg' = ogg
      /\ accepted' = accepted /\ granule_pos' = granule_pos /\ pc # "idle"
  BY DEF WriteRejected, WriteFails, WriteSyncFails, page
<1>2. /\ Sound(f) /\ IsPrefix(f.packets, accepted) /\ name \in Name
      /\ accepted \in Seq(Packet) /\ part \in [Name -> File \cup {NoFile}]
  BY <1>0, <1>1, PartFacts
<1>3. /\ f.packets \o payload = accepted
      /\ granule_pos = PreSkip + Len(accepted) * FrameGranule
  BY <1>0, <1>1 DEF FileInv
<1>4. \E h : /\ Sound(h) /\ Durable(h) = Durable(f) /\ IsPrefix(h.packets, accepted)
             /\ part' = [part EXCEPT ![name] = h]
             /\ h.packets \o payload' = accepted'
  <2>1. CASE WriteRejected(p)
    <3>1. part' = part /\ payload' = payload
      BY <2>1 DEF WriteRejected, page
    <3>2. part' = [part EXCEPT ![name] = f]
      BY <1>0, <1>2, <3>1
    <3>. QED
      BY <1>1, <1>2, <1>3, <3>1, <3>2
  <2>2. CASE WriteFails(p)
    <3>1. part' = [part EXCEPT ![name] = TearPage(f)] /\ payload' = payload
      <4>1. part' = [part EXCEPT ![name] = TearPage(@)] /\ payload' = payload
        BY <2>2 DEF WriteFails
      <4>. QED
        BY <1>0, <1>2, <4>1
    <3>2. PICK h : h = TearPage(f)
      OBVIOUS
    <3>3. Sound(h) /\ Durable(h) = Durable(f) /\ h.packets = f.packets
      BY <1>2, <3>2, KeptLeft
    <3>. QED
      BY <1>1, <1>2, <1>3, <3>1, <3>2, <3>3
  <2>3. CASE WriteSyncFails(p)
    <3>1. part' = [part EXCEPT ![name] = FlushedFile("data")] /\ payload' = << >>
      BY <2>3 DEF WriteSyncFails
    <3>2. PICK h : h = FlushedFile("data")
      OBVIOUS
    <3>3. /\ Sound(h) /\ Durable(h) = Durable(part[name]) /\ h.packets = accepted
          /\ IsPrefix(h.packets, accepted)
      BY <1>1, <3>2, FlushedFacts
    <3>4. accepted \o << >> = accepted
      BY <1>2, ConcatEmptySeq
    <3>. QED
      BY <1>0, <1>1, <3>1, <3>2, <3>3, <3>4
  <2>. QED
    BY <2>1, <2>2, <2>3
<1>5. PICK h : /\ Sound(h) /\ Durable(h) = Durable(f) /\ IsPrefix(h.packets, accepted)
               /\ part' = [part EXCEPT ![name] = h]
               /\ h.packets \o payload' = accepted'
  BY <1>4
<1>6. granule_pos' = PreSkip + Len(accepted') * FrameGranule
  BY <1>1, <1>3
<1>7. FileInv'
  BY <1>1, <1>5, <1>6, OpenKeepsFileInv
<1>8. Disk' = Disk
  BY <1>0, <1>1, <1>5, DiskStays
<1>. QED
  BY <1>1, <1>7, <1>8 DEF LogStep

(* The last page and its sync put all that was accepted on the medium.     *)
LEMMA FinishPagesRefines ==
    ASSUME Inv, FileInv, Inv', FinishPages
    PROVE  FileInv' /\ LogStep
<1>0. PICK f, h : f = FlushedFile("eos") /\ h = SyncFile(f)
  OBVIOUS
<1>1. /\ pc = "open" /\ result = "OK" /\ pc' = "close" /\ name' = name /\ ogg' = ogg
      /\ part' = [part EXCEPT ![name] = h] /\ accepted' = accepted /\ pc # "idle"
  BY <1>0 DEF FinishPages
<1>2. /\ name \in Name /\ name # NoName /\ part \in [Name -> File \cup {NoFile}]
      /\ accepted \in Seq(Packet)
  BY <1>1, PartFacts
<1>3. Sound(f) /\ f.packets = accepted
  BY <1>0, <1>1, FlushedFacts
<1>4. Sound(h) /\ h.packets = accepted
  BY <1>0, <1>3, KeptLeft, SyncFileOK DEF Sound, Left
<1>5. part'[name'] = h
  BY <1>1, <1>2
<1>6. GranulesExact'
  BY <1>1, <1>2, <1>4, GranulesAfter DEF Sound, FileInv
<1>7. FileInv'
  BY <1>1, <1>4, <1>5, <1>6 DEF FileInv, Sound
<1>8. SyncedAudio(h) = accepted
  <2>1. CompleteFile(h)
    BY <1>1, <1>5 DEF Inv, ActiveOK
  <2>2. Upto(h, h.synced) = Len(h.packets)
    BY <2>1 DEF CompleteFile, Upto
  <2>3. SubSeq(accepted, 1, Len(accepted)) = accepted
    BY <1>2, SubSeqFull
  <2>. QED
    BY <1>4, <2>2, <2>3 DEF SyncedAudio
<1>9. Exists(h)
  BY <1>4, NoFileIsNotAFile DEF Sound, WellFormed, Exists
<1>10. Disk' = [Disk EXCEPT ![name].packets = accepted]
  BY <1>1, <1>8, <1>9, DiskStep
<1>11. Log!LogFlush
  BY <1>1, <1>2, <1>10 DEF Log!LogFlush
<1>. QED
  BY <1>7, <1>11 DEF LogStep, Log!LogNext

(* A file that is about to be renamed holds all that was accepted.         *)
LEMMA ClosedIsWhole ==
    ASSUME Inv, FileInv, pc = "close"
    PROVE  SyncedAudio(part[name]) = accepted /\ accepted # << >>
<1>1. CompleteFile(part[name]) /\ part[name].packets = accepted
  BY DEF Inv, ActiveOK, FileInv
<1>2. Upto(part[name], part[name].synced) = Len(accepted) /\ accepted # << >>
  BY <1>1 DEF CompleteFile, Upto
<1>3. accepted \in Seq(Packet)
  BY DEF Inv, TypeOK
<1>4. SubSeq(accepted, 1, Len(accepted)) = accepted
  BY <1>3, SubSeqFull
<1>. QED
  BY <1>1, <1>2, <1>4 DEF SyncedAudio

(* The rename makes the recording final.                                   *)
LEMMA RenameRefines ==
    ASSUME Inv, FileInv, Rename
    PROVE  FileInv' /\ LogStep
<1>0. PICK f : f = part[name]
  OBVIOUS
<1>1. /\ pc = "close" /\ pc # "idle" /\ ogg' = [ogg EXCEPT ![name] = f]
      /\ part' = [part EXCEPT ![name] = NoFile]
      /\ pc' = "idle" /\ name' = NoName /\ accepted' = << >>
  BY <1>0 DEF Rename, Deactivate
<1>2. /\ name \in Name /\ name # NoName /\ Exists(f) /\ Sound(f)
      /\ part \in [Name -> File \cup {NoFile}]
  BY <1>0, <1>1, PartFacts
<1>3. ogg \in [Name -> File \cup {NoFile}]
  BY DEF Inv, TypeOK
<1>4. SyncedAudio(f) = accepted /\ accepted # << >>
  BY <1>0, <1>1, ClosedIsWhole
<1>5. Disk[name] = [kind |-> "partial", packets |-> SyncedAudio(f)]
  BY <1>0, <1>1, DiskIs
<1>6. /\ ogg'[name] = f /\ part'[name] = NoFile
      /\ \A n \in Name \ {name} : ogg'[n] = ogg[n] /\ part'[n] = part[n]
  BY <1>1, <1>2, <1>3
<1>7. Disk' = [Disk EXCEPT ![name].kind = "final"]
  <2>1. Disk'[name] = [kind |-> "final", packets |-> SyncedAudio(f)]
    BY <1>2, <1>6 DEF Disk
  <2>2. \A n \in Name \ {name} : Disk'[n] = Disk[n]
    BY <1>6 DEF Disk
  <2>3. Disk = [n \in Name |-> Disk[n]] /\ Disk' = [n \in Name |-> Disk'[n]]
    BY DEF Disk
  <2>4. [Disk[name] EXCEPT !.kind = "final"] = Disk'[name]
    BY <1>5, <2>1
  <2>5. Disk' = [Disk EXCEPT ![name] = Disk'[name]]
    BY <1>2, <2>2, <2>3
  <2>. QED
    BY <2>4, <2>5
<1>8. Log!LogFinalize
  BY <1>1, <1>2, <1>4, <1>5, <1>7 DEF Log!LogFinalize
<1>9. GranulesExact'
  <2>1. \A n \in Name : Exact(part[n]) /\ Exact(ogg[n])
    BY DEF FileInv, GranulesExact, Exact
  <2>2. \A n \in Name : Exact(part'[n]) /\ Exact(ogg'[n])
    BY <1>2, <1>6, <2>1, NoFileExact DEF Sound
  <2>. QED
    BY <2>2 DEF GranulesExact, Exact
<1>10. FileInv'
  BY <1>1, <1>9 DEF FileInv
<1>. QED
  BY <1>8, <1>10 DEF LogStep, Log!LogNext

(* The steps that give a recording up on purpose or by a failure.          *)
LEMMA EndingsRefine ==
    ASSUME Inv, FileInv,
           FinishEmpty \/ AbortRemove \/ FinishFails \/ RenameFails \/ AbortKeep
    PROVE  FileInv' /\ LogStep
<1>0. PICK f : f = part[name]
  OBVIOUS
<1>1. pc # "idle" /\ Deactivate /\ ogg' = ogg
  BY DEF FinishEmpty, AbortRemove, FinishFails, RenameFails, AbortKeep
<1>2. /\ Sound(f) /\ IsPrefix(f.packets, accepted) /\ name \in Name
      /\ f.packets \in Seq(Packet) /\ accepted \in Seq(Packet)
      /\ part \in [Name -> File \cup {NoFile}]
  BY <1>0, <1>1, PartFacts
<1>3. Durable(f) <= Durable(f)
  <2>1. Durable(f) \in 0 .. Len(accepted)
    BY <1>0, <1>1, DiskIs
  <2>. QED
    BY <1>2, <2>1
<1>4. CASE FinishEmpty \/ AbortRemove
  <2>1. accepted = << >> /\ RemovePart(f)
    BY <1>0, <1>4 DEF FinishEmpty, AbortRemove
  <2>2. f.packets = << >>
    <3>1. Len(f.packets) <= 0 /\ Len(f.packets) \in Nat
      BY <1>2, <2>1 DEF IsPrefix
    <3>. QED
      BY <1>2, <3>1, EmptySeq
  <2>3. FileInv' /\ (Log!LogGiveUp \/ Log!LogDiscard)
    BY <1>0, <1>1, <1>2, <1>3, <2>1, <2>2, RemoveStep
  <2>. QED
    BY <2>3 DEF LogStep, Log!LogNext
<1>5. CASE FinishFails
  <2>1. pc = "open" /\ result = "OK"
    BY <1>5 DEF FinishFails
  <2>2. PICK g \in {TearPage(f), FlushedFile("eos")} :
          \E left \in Truncations(g) : part' = [part EXCEPT ![name] = left]
    BY <1>0, <1>5 DEF FinishFails
  <2>3. PICK left \in Truncations(g) : part' = [part EXCEPT ![name] = left]
    BY <2>2
  <2>4. Sound(g) /\ IsPrefix(g.packets, accepted) /\ Durable(g) = Durable(f)
    <3>1. CASE g = TearPage(f)
      BY <1>2, <3>1, KeptLeft
    <3>2. CASE g = FlushedFile("eos")
      BY <1>0, <2>1, <3>2, FlushedFacts
    <3>. QED
      BY <2>2, <3>1, <3>2
  <2>5. Left(g, left)
    BY <2>4, TruncationLeft
  <2>6. FileInv' /\ Log!LogGiveUp
    BY <1>0, <1>1, <1>3, <2>3, <2>4, <2>5, GiveUpStep
  <2>. QED
    BY <2>6 DEF LogStep, Log!LogNext
<1>6. CASE RenameFails
  <2>1. part' = [part EXCEPT ![name] = f]
    BY <1>0, <1>2, <1>6 DEF RenameFails
  <2>2. Left(f, f)
    BY <1>2, KeptLeft
  <2>3. FileInv' /\ Log!LogGiveUp
    BY <1>0, <1>1, <1>2, <1>3, <2>1, <2>2, GiveUpStep
  <2>. QED
    BY <2>3 DEF LogStep, Log!LogNext
<1>7. CASE AbortKeep
  <2>1. PICK left \in {SyncFile(f)} \cup Truncations(f) : part' = [part EXCEPT ![name] = left]
    BY <1>0, <1>7 DEF AbortKeep
  <2>2. Left(f, left)
    BY <1>2, <2>1, KeptLeft, TruncationLeft
  <2>3. FileInv' /\ Log!LogGiveUp
    BY <1>0, <1>1, <1>2, <1>3, <2>1, <2>2, GiveUpStep
  <2>. QED
    BY <2>3 DEF LogStep, Log!LogNext
<1>. QED
  BY <1>4, <1>5, <1>6, <1>7

(* Power loss, whatever the writer was doing.                              *)
LEMMA CrashRefines ==
    ASSUME Inv, FileInv, Crash
    PROVE  FileInv' /\ LogStep
<1>0. PICK f : f = part[name]
  OBVIOUS
<1>1. pc # "idle" /\ Deactivate /\ ogg' = ogg
  BY DEF Crash
<1>2. PICK g \in InFlight : \E left \in Truncations(g) : part' = [part EXCEPT ![name] = left]
  BY DEF Crash
<1>3. PICK left \in Truncations(g) : part' = [part EXCEPT ![name] = left]
  BY <1>2
<1>4. /\ Sound(f) /\ IsPrefix(f.packets, accepted) /\ accepted \in Seq(Packet)
      /\ Durable(f) \in 0 .. Len(accepted) /\ Durable(f) <= Durable(f)
  <2>1. Sound(f) /\ IsPrefix(f.packets, accepted) /\ accepted \in Seq(Packet)
    BY <1>0, <1>1, PartFacts
  <2>2. Durable(f) \in 0 .. Len(accepted)
    BY <1>0, <1>1, DiskIs
  <2>. QED
    BY <2>1, <2>2
<1>5. Sound(g) /\ IsPrefix(g.packets, accepted) /\ Durable(f) <= Durable(g)
  <2>1. CASE pc = "headers"
    <3>1. g = HeaderFile(2, TRUE)
      BY <1>2, <2>1 DEF InFlight
    <3>2. 2 \in 0 .. 2 /\ TRUE \in BOOLEAN
      OBVIOUS
    <3>3. Sound(g) /\ g.packets = << >>
      BY <2>1, <3>1, <3>2, HeaderFacts
    <3>4. accepted = << >> /\ Durable(f) = 0
      BY <1>0, <2>1 DEF Inv, ActiveOK, Durable, Upto, EmptyFile
    <3>5. Durable(g) \in Nat
      <4>1. g.synced \in g.synced .. Len(g.pages)
        BY <3>3 DEF Sound, WellFormed, File
      <4>. QED
        BY <3>3, <4>1, UptoMonotone DEF Sound
    <3>6. << >> \in Seq(Packet)
      OBVIOUS
    <3>7. IsPrefix(<< >>, << >>)
      BY <3>6, PrefixOfItself
    <3>8. g.packets = accepted
      BY <3>3, <3>4
    <3>9. IsPrefix(g.packets, accepted)
      BY <3>3, <3>4, <3>7, Zenon
    <3>10. Durable(f) <= Durable(g)
      BY <3>4, <3>5, SMT
    <3>. QED
      BY <3>3, <3>9, <3>10, Zenon
  <2>2. CASE pc = "open" /\ result = "OK" /\ accepted # << >>
    <3>1. g \in {TearPage(f), FlushedFile("eos"), FlushedFile("data")}
      BY <1>0, <1>2, <2>2 DEF InFlight
    <3>2. CASE g = TearPage(f)
      BY <1>4, <3>2, KeptLeft
    <3>3. CASE g \in {FlushedFile("eos"), FlushedFile("data")}
      <4>1. Sound(g) /\ IsPrefix(g.packets, accepted) /\ Durable(g) = Durable(f)
        BY <1>0, <2>2, <3>3, FlushedFacts
      <4>. QED
        BY <1>4, <4>1
    <3>. QED
      BY <3>1, <3>2, <3>3
  <2>3. CASE pc # "headers" /\ ~(pc = "open" /\ result = "OK" /\ accepted # << >>)
    <3>1. InFlight = {part[name]}
      BY <2>3, Zenon DEF InFlight
    <3>. QED
      BY <1>0, <1>2, <1>4, <3>1
  <2>. QED
    BY <2>1, <2>2, <2>3
<1>6. Left(g, left)
  BY <1>5, TruncationLeft
<1>7. FileInv' /\ Log!LogGiveUp
  BY <1>0, <1>1, <1>3, <1>5, <1>6, GiveUpStep
<1>. QED
  BY <1>7 DEF LogStep, Log!LogNext

-----------------------------------------------------------------------------
(* Together.                                                               *)

(* In the beginning there are no files.                                    *)
LEMMA InitRefines == Init => FileInv /\ Log!LogInit
<1> SUFFICES ASSUME Init PROVE FileInv /\ Log!LogInit
  OBVIOUS
<1>1. /\ pc = "idle" /\ name = NoName /\ accepted = << >>
      /\ \A n \in Name : part[n] = NoFile /\ ogg[n] = NoFile
  BY DEF Init
<1>2. GranulesExact
  <2>1. \A n \in Name : Exact(part[n]) /\ Exact(ogg[n])
    BY <1>1, NoFileExact
  <2>. QED
    BY <2>1 DEF GranulesExact, Exact
<1>3. Disk = [n \in Name |-> [kind |-> "absent", packets |-> << >>]]
  BY <1>1 DEF Disk, Exists
<1>. QED
  BY <1>1, <1>2, <1>3 DEF FileInv, Log!LogInit, Log!Absent

(* Every step keeps the invariant and is a step of RecordingLog, or none.  *)
LEMMA NextRefines == Inv /\ FileInv /\ [Next]_vars => FileInv' /\ LogStep
<1> SUFFICES ASSUME Inv, FileInv, [Next]_vars PROVE FileInv' /\ LogStep
  OBVIOUS
<1>0. Inv'
  BY NextInv
<1>1. ASSUME NEW n \in Name, Begin(n) PROVE FileInv' /\ LogStep
  BY <1>1, BeginRefines
<1>2. CASE BeginFails
  <2>1. pc' = pc /\ name' = name /\ page' = page /\ accepted' = accepted /\ part' = part
        /\ ogg' = ogg
    BY <1>2 DEF BeginFails
  <2>. QED
    BY <2>1 DEF page, FileInv, Chain, GranulesExact, LogStep, Disk, SyncedAudio, Upto
<1>3. CASE WriteHeaders
  BY <1>3, WriteHeadersRefines
<1>4. CASE HeadersFail
  BY <1>4, HeadersFailRefines
<1>5. ASSUME NEW p \in Packet, WriteRejected(p) \/ WriteFails(p) \/ WriteSyncFails(p)
      PROVE  FileInv' /\ LogStep
  BY <1>5, WriteNotTakenRefines
<1>6. ASSUME NEW p \in Packet, WriteBuffered(p) PROVE FileInv' /\ LogStep
  BY <1>0, <1>6, WriteBufferedRefines
<1>7. ASSUME NEW p \in Packet, WriteFlushed(p) PROVE FileInv' /\ LogStep
  BY <1>0, <1>7, WriteFlushedRefines
<1>8. CASE FinishEmpty \/ AbortRemove \/ FinishFails \/ RenameFails \/ AbortKeep
  BY <1>8, EndingsRefine
<1>9. CASE FinishPages
  BY <1>0, <1>9, FinishPagesRefines
<1>10. CASE Rename
  BY <1>10, RenameRefines
<1>11. CASE Crash
  BY <1>11, CrashRefines
<1>12. CASE UNCHANGED vars
  BY <1>12 DEF vars, FileInv, Chain, GranulesExact, LogStep, Disk, SyncedAudio, Upto
<1>. QED
  BY <1>1, <1>2, <1>3, <1>4, <1>5, <1>6, <1>7, <1>8, <1>9, <1>10, <1>11, <1>12 DEF Next

(* Both invariants hold in every behaviour of the writer.                  *)
THEOREM FilesAreSound == Spec => [](Inv /\ FileInv)
<1>1. Init => Inv /\ FileInv
  BY InitInv, InitRefines
<1>2. Inv /\ FileInv /\ [Next]_vars => Inv' /\ FileInv'
  BY NextInv, NextRefines
<1>. QED
  BY <1>1, <1>2, PTL DEF Spec

(* Every page tells the position of its last packet, whatever failed and   *)
(* wherever power went.                                                    *)
THEOREM PositionsAreExact == Spec => []GranulesExact
<1>1. FileInv => GranulesExact
  BY DEF FileInv
<1>. QED
  BY <1>1, FilesAreSound, PTL

(* The writer does what RecordingLog promises: nothing but accepted        *)
(* packets in order, a final file only with all of them, a bounded loss.   *)
THEOREM StoreImplementsLog == Spec => LogSpec
<1>1. Init => Log!LogInit
  BY InitRefines
<1>2. Inv /\ FileInv /\ [Next]_vars => [Log!LogNext]_Log!logVars
  BY NextRefines DEF LogStep, Log!logVars
<1>. QED
  BY <1>1, <1>2, FilesAreSound, PTL DEF Spec, LogSpec, Log!LogSpec

-----------------------------------------------------------------------------
(* What the promise of RecordingLog gives: audio stays on the medium.      *)

DiskTyped == \A n \in Name : Disk[n].packets \in Seq(Packet)

DiskGrows == \A n \in Name : IsPrefix(Disk[n].packets, Disk'[n].packets)

(* A disk on which only the recording under way changed, and grew.         *)
LEMMA GrowsAt ==
    ASSUME DiskTyped, NEW m, NEW new \in Seq(Packet), IsPrefix(Disk[m].packets, new),
           \A n \in Name : \/ Disk'[n].packets = Disk[n].packets
                           \/ n = m /\ Disk'[n].packets = new
    PROVE  DiskTyped' /\ DiskGrows
<1>1. \A s \in Seq(Packet) : IsPrefix(s, s)
  BY PrefixOfItself
<1>. QED
  BY <1>1, Zenon DEF DiskTyped, DiskGrows

(* Every step of RecordingLog leaves what a file had on the medium.        *)
LEMMA LogKeepsAudio ==
    ASSUME Inv, FileInv, DiskTyped, Log!LogNext
    PROVE  DiskTyped' /\ DiskGrows
<1>0. /\ DOMAIN Disk = Name /\ Disk' = [n \in Name |-> Disk'[n]]
      /\ \A n \in Name : Disk[n] = [kind |-> Disk[n].kind, packets |-> Disk[n].packets]
  BY DEF Disk
<1>1. \A n \in Name : Disk[n].packets \in Seq(Packet)
  BY DEF DiskTyped
<1>2. (\A n \in Name : Disk'[n].packets = Disk[n].packets) => DiskTyped' /\ DiskGrows
  <2>1. \A s \in Seq(Packet) : IsPrefix(s, s)
    BY PrefixOfItself
  <2>. QED
    BY <2>1, Zenon DEF DiskTyped, DiskGrows
<1>3. ASSUME NEW n \in Name, Log!LogOpen(n) PROVE DiskTyped' /\ DiskGrows
  <2>1. Disk' = [Disk EXCEPT ![n].kind = "partial"]
    BY <1>3 DEF Log!LogOpen
  <2>2. \A i \in Name : Disk'[i].packets = Disk[i].packets
    BY <1>0, <2>1
  <2>. QED
    BY <1>2, <2>2
<1>4. ASSUME name # NoName
      PROVE  /\ name \in Name /\ accepted \in Seq(Packet)
             /\ Len(Disk[name].packets) \in 0 .. Len(accepted)
             /\ Disk[name].packets = SubSeq(accepted, 1, Len(Disk[name].packets))
  <2>1. pc # "idle"
    BY <1>4 DEF FileInv
  <2>2. name \in Name /\ accepted \in Seq(Packet)
    BY <2>1, PartFacts
  <2>3. PICK f : f = part[name]
    OBVIOUS
  <2>4. /\ Disk[name].packets = SubSeq(accepted, 1, Durable(f))
        /\ Len(Disk[name].packets) = Durable(f)
        /\ Durable(f) \in 0 .. Len(accepted)
    <3>1. /\ Disk[name] = [kind |-> "partial", packets |-> SyncedAudio(f)]
          /\ SyncedAudio(f) = SubSeq(accepted, 1, Durable(f))
          /\ Len(Disk[name].packets) = Durable(f)
          /\ Durable(f) \in 0 .. Len(accepted)
      BY <2>1, <2>3, DiskIs
    <3>. QED
      BY <3>1
  <2>. QED
    BY <2>2, <2>4
<1>5. ASSUME name # NoName,
             NEW k \in Len(Disk[name].packets) .. Len(accepted),
             Disk' = [Disk EXCEPT ![name].packets = SubSeq(accepted, 1, k)]
      PROVE  DiskTyped' /\ DiskGrows
  <2>1. PICK old, new : old = Disk[name].packets /\ new = SubSeq(accepted, 1, k)
    OBVIOUS
  <2>2. accepted \in Seq(Packet) /\ k \in 0 .. Len(accepted) /\ Len(old) \in 0 .. k
    BY <1>4, <1>5, <2>1
  <2>3. new \in Seq(Packet) /\ Len(new) = k
    BY <2>1, <2>2, PrefixLength
  <2>4. SubSeq(new, 1, Len(old)) = SubSeq(accepted, 1, Len(old))
    BY <2>1, <2>2, PrefixOfPrefix
  <2>5. IsPrefix(old, new)
    BY <1>4, <1>5, <2>1, <2>2, <2>3, <2>4 DEF IsPrefix
  <2>6. \A i \in Name : \/ Disk'[i].packets = Disk[i].packets
                        \/ i = name /\ Disk'[i].packets = new
    BY <1>0, <1>5, <2>1
  <2>. QED
    <3>1. IsPrefix(Disk[name].packets, new)
      BY <2>1, <2>5, Zenon
    <3>. HIDE DEF DiskTyped, DiskGrows
    <3>. QED
      BY <2>3, <2>6, <3>1, GrowsAt, SMT
<1>6. ASSUME NEW p \in Packet, Log!LogAccept(p) PROVE DiskTyped' /\ DiskGrows
  BY <1>5, <1>6 DEF Log!LogAccept, Log!Prefix
<1>7. ASSUME Log!LogFlush PROVE DiskTyped' /\ DiskGrows
  <2>1. /\ name # NoName /\ Disk' = [Disk EXCEPT ![name].packets = accepted]
    BY <1>7 DEF Log!LogFlush
  <2>2. SubSeq(accepted, 1, Len(accepted)) = accepted /\ Len(accepted) \in Nat
    BY <1>4, <2>1, SubSeqFull
  <2>3. Len(accepted) \in Len(Disk[name].packets) .. Len(accepted)
    BY <1>4, <2>1, <2>2
  <2>. QED
    BY <1>5, <2>1, <2>2, <2>3
<1>8. ASSUME Log!LogFinalize PROVE DiskTyped' /\ DiskGrows
  <2>1. Disk' = [Disk EXCEPT ![name].kind = "final"]
    BY <1>8 DEF Log!LogFinalize
  <2>2. \A i \in Name : Disk'[i].packets = Disk[i].packets
    BY <1>0, <2>1
  <2>. QED
    BY <1>2, <2>2
<1>9. ASSUME Log!LogDiscard PROVE DiskTyped' /\ DiskGrows
  <2>1. name # NoName /\ accepted = << >> /\ Disk' = [Disk EXCEPT ![name] = Log!Absent]
    BY <1>9 DEF Log!LogDiscard
  <2>2. Disk[name].packets = << >>
    BY <1>1, <1>4, <2>1, EmptySeq
  <2>3. \A i \in Name : Disk'[i].packets = Disk[i].packets
    BY <1>0, <2>1, <2>2 DEF Log!Absent
  <2>. QED
    BY <1>2, <2>3
<1>10. ASSUME Log!LogGiveUp PROVE DiskTyped' /\ DiskGrows
  BY <1>5, <1>10 DEF Log!LogGiveUp, Log!Prefix
<1>. QED
  BY <1>3, <1>6, <1>7, <1>8, <1>9, <1>10 DEF Log!LogNext

(* No step makes audio disappear from the medium.                          *)
THEOREM AudioStays == Spec => AudioIsKept
<1>1. Init => DiskTyped
  <2> SUFFICES ASSUME Init PROVE DiskTyped
    OBVIOUS
  <2>1. Disk = [n \in Name |-> [kind |-> "absent", packets |-> << >>]]
    BY InitRefines DEF Log!LogInit, Log!Absent
  <2>2. << >> \in Seq(Packet)
    OBVIOUS
  <2>. QED
    BY <2>1, <2>2 DEF DiskTyped
<1>2. Inv /\ FileInv /\ DiskTyped /\ [Next]_vars => DiskTyped' /\ DiskGrows
  <2> SUFFICES ASSUME Inv, FileInv, DiskTyped, [Next]_vars PROVE DiskTyped' /\ DiskGrows
    OBVIOUS
  <2>1. CASE Log!LogNext
    BY <2>1, LogKeepsAudio
  <2>2. CASE UNCHANGED Disk
    <3>1. \A s \in Seq(Packet) : IsPrefix(s, s)
      BY PrefixOfItself
    <3>. QED
      BY <2>2, <3>1, Zenon DEF DiskTyped, DiskGrows
  <2>. QED
    BY <2>1, <2>2, NextRefines DEF LogStep
<1>3. DiskGrows => \A n \in Name : /\ Len(Surviving(n)) <= Len(Surviving(n)')
                                   /\ SubSeq(Surviving(n)', 1, Len(Surviving(n))) = Surviving(n)
  <2>1. \A n \in Name : Surviving(n) = Disk[n].packets /\ Surviving(n)' = Disk'[n].packets
    BY DEF Surviving, Disk
  <2>. QED
    BY <2>1 DEF DiskGrows, IsPrefix
<1>. QED
  BY <1>1, <1>2, <1>3, FilesAreSound, PTL DEF Spec, AudioIsKept

=============================================================================
