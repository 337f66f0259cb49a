--------------------------- MODULE ReceiverProofs ---------------------------
(***************************************************************************)
(* What the receiver keeps, for every value of the constants: the          *)
(* invariants of Receiver for every set of recording ids, audio and        *)
(* request slots, with and without power losses; those of MemoSync for     *)
(* every set of memos; and those of PromptTerms for every index and every  *)
(* budget.  The three share no state.                                      *)
(***************************************************************************)
EXTENDS Receiver, MemoSync, PromptTerms,
        FiniteSetTheorems, NaturalsInduction, WellFoundedInduction, TLAPS

(* Types, finer than TypeOK: what is there has a time and some content.    *)
Steps == {"lookup", "open", "write", "tmp", "replace", "enqueue", "answer"}
Statuses == {0, 200, 201, 409, 500}
Requests == [pc : Steps, id : Id, data : Data, at : Times, status : Statuses]
Metadata == {NoMeta} \cup [data : Data, at : Times \ {0}]
Jobs == [pc : {"listen", "render", "push", "finish"}, id : Id, at : Times \ {0}]
Notes == [id : Id, at : Times \ {0}, text : Files \ {Nothing}]

ReqType == req \in [Request -> {Free} \cup Requests]
DiskType ==
    /\ recordings \in [Id -> Files]
    /\ forgotten \in [metadata : SUBSET Id, transcript : SUBSET Id, note : SUBSET Id]
    /\ metadata \in [Id -> Metadata] /\ tmp \in [Id -> Metadata]
ResultType ==
    /\ transcripts \in [Id -> Files \ Silent]
    /\ notes \in [Id -> {NoMeta} \cup [data : Files \ {Nothing}, at : Times \ {0}]]
    /\ done \subseteq Id /\ notebook \subseteq Notes /\ unheard \subseteq Id
WorkType ==
    /\ queue \in Seq(Id) /\ worker \in {Idle} \cup Jobs /\ up \in BOOLEAN
    /\ accepted \subseteq [id : Id, data : Data] /\ dropped \subseteq Id
    /\ up = FALSE => worker = Idle /\ queue = <<>> /\ req = [r \in Request |-> Free]

(* A time is taken once for every request that looks its id up.            *)
Looking == {r \in Request : req[r].pc = "lookup"}
ClockInv ==
    /\ IsFiniteSet(Looking) /\ clock \in Nat /\ sends \in Nat
    /\ clock + Cardinality(Looking) <= sends /\ sends <= MaxSends

(* Requests that overlap carry the same bytes, so the recording on the     *)
(* disk is what its metadata says, or torn while it is written again.      *)
Storing == {"open", "write", "tmp", "replace"}
StoreInv ==
    /\ \A q, r \in Request :
          req[q] # Free /\ req[r] # Free /\ req[q].id = req[r].id => req[q].data = req[r].data
    /\ \A r \in Request : req[r].pc \in Storing =>
          /\ req[r].at # 0
          /\ metadata[req[r].id] # NoMeta => metadata[req[r].id].data = req[r].data
          /\ req[r].pc # "open" => recordings[req[r].id] \in {req[r].data, Torn}
          /\ req[r].pc = "replace" /\ tmp[req[r].id] # NoMeta => tmp[req[r].id].data = req[r].data
    /\ \A r \in Request : req[r].pc = "enqueue" => metadata[req[r].id] # NoMeta
    /\ \A i \in Id : metadata[i] # NoMeta => recordings[i] \in {metadata[i].data, Torn}

(* The worker has only what the start-up scan would find too.              *)
Owed(i) ==
    \/ \E a \in accepted : a.id = i
    \/ \E r \in Request : req[r].pc = "answer" /\ req[r].status \in {200, 201} /\ req[r].id = i
TrackInv ==
    /\ \A k \in 1 .. Len(queue) : metadata[queue[k]] # NoMeta
    /\ worker # Idle => metadata[worker.id] # NoMeta
    /\ \A i \in Id : Owed(i) => i \in forgotten.metadata \/ (metadata[i] # NoMeta /\ Tracked(i))

(* A transcript, once there, stays unless the power goes; a note is made   *)
(* from it, and pushed as it is.                                           *)
NoteInv ==
    /\ worker.pc \in {"render", "push", "finish"} => transcripts[worker.id] # Nothing
    /\ worker.pc \in {"push", "finish"} => notes[worker.id] # NoMeta
    /\ worker.pc = "finish" => \E n \in notebook : n.id = worker.id
    /\ \A i \in Id \ forgotten.transcript :
          notes[i] # NoMeta => notes[i].data = transcripts[i] /\ transcripts[i] # Nothing
    /\ \A n \in notebook :
          /\ n.id \notin forgotten.transcript => /\ n.text = transcripts[n.id]
                                                /\ transcripts[n.id] # Nothing
          /\ n.id \notin forgotten.note => notes[n.id] # NoMeta /\ n.text = notes[n.id].data

DoneInv ==
    \A i \in done \ (forgotten.metadata \cup unheard) :
        \/ metadata[i] # NoMeta /\ metadata[i].data \in Silent
        \/ \E n \in notebook : n.id = i

Inv ==
    /\ ReqType /\ DiskType /\ ResultType /\ WorkType
    /\ ClockInv /\ StoreInv /\ TrackInv /\ NoteInv /\ DoneInv

-----------------------------------------------------------------------------
(* What a step of a request leaves alone, and what one of the worker does. *)
LEMMA RequestFrame ==
    ASSUME Client \/ Receive
    PROVE  UNCHANGED <<results, worker, up, dropped, forgotten>>
BY DEF Client, Send, Receive, Handler, Lookup, Open, Write, WriteTmp, Replace, StoreFails, Enqueue,
       Answered, results, disk

(* The worker touches neither the requests nor what they store.            *)
LEMMA WorkerFrame ==
    ASSUME Worker
    PROVE  UNCHANGED <<req, disk, up, clock, sends, accepted>>
BY DEF Worker, Take, Transcribe, NoSpeech, Render, Push, Finish, ProcessingFails, results

(* The steps there are, and the one that changes nothing.                  *)
LEMMA NextCases ==
    ASSUME [Next]_receiverVars
    PROVE  \/ Client \/ Receive \/ Worker \/ Crash \/ Start
           \/ UNCHANGED <<req, disk, results, queue, worker, up, clock, sends, accepted, dropped>>
BY DEF Next, receiverVars

(* What is taken from a directory, and what is not.                        *)
LEMMA WithoutAt ==
    ASSUME NEW kept, NEW ids, NEW none, NEW i \in Id
    PROVE  /\ i \in ids => Without(kept, ids, none)[i] = none
           /\ i \notin ids => Without(kept, ids, none)[i] = kept[i]
BY DEF Without

(* What a power loss takes of each kind is noted, and the rest stays.      *)
LEMMA CrashTakes ==
    ASSUME DiskType, ResultType, Crash
    PROVE  /\ DiskType' /\ done' \subseteq done
           /\ forgotten.metadata \subseteq forgotten'.metadata
           /\ forgotten.transcript \subseteq forgotten'.transcript
           /\ forgotten.note \subseteq forgotten'.note
           /\ \A i \in Id :
                 /\ metadata'[i] \in {NoMeta, metadata[i]}
                 /\ i \notin forgotten'.metadata => metadata'[i] = metadata[i]
                 /\ i \notin forgotten'.transcript => transcripts'[i] = transcripts[i]
                 /\ notes'[i] \in {NoMeta, notes[i]}
                 /\ i \notin forgotten'.note => notes'[i] = notes[i]
           /\ transcripts' \in [Id -> {Nothing} \cup (Files \ Silent)]
           /\ notes' \in [Id -> {NoMeta} \cup [data : Files \ {Nothing}, at : Times \ {0}]]
<1>1. PICK m, t, n, d \in UNION {SUBSET Id, SUBSET done} :
         /\ m \subseteq Id /\ t \subseteq Id /\ n \subseteq Id
         /\ metadata' = Without(metadata, m, NoMeta)
         /\ transcripts' = Without(transcripts, t, Nothing)
         /\ notes' = Without(notes, n, NoMeta)
         /\ done' = done \ d
         /\ forgotten' = [metadata |-> forgotten.metadata \cup m,
                          transcript |-> forgotten.transcript \cup t,
                          note |-> forgotten.note \cup n]
  BY DEF Crash, MayTake
<1>2. /\ forgotten'.metadata = forgotten.metadata \cup m
      /\ forgotten'.transcript = forgotten.transcript \cup t
      /\ forgotten'.note = forgotten.note \cup n
  BY <1>1
<1>3. ASSUME NEW i \in Id
      PROVE  /\ metadata'[i] \in {NoMeta, metadata[i]}
             /\ i \notin forgotten'.metadata => metadata'[i] = metadata[i]
             /\ i \notin forgotten'.transcript => transcripts'[i] = transcripts[i]
             /\ notes'[i] \in {NoMeta, notes[i]}
             /\ i \notin forgotten'.note => notes'[i] = notes[i]
  <2>1. (i \in m => metadata'[i] = NoMeta) /\ (i \notin m => metadata'[i] = metadata[i])
    BY <1>1, WithoutAt
  <2>2. i \notin t => transcripts'[i] = transcripts[i]
    BY <1>1, WithoutAt
  <2>3. (i \in n => notes'[i] = NoMeta) /\ (i \notin n => notes'[i] = notes[i])
    BY <1>1, WithoutAt
  <2>. QED
    BY <1>2, <2>1, <2>2, <2>3
<1>4. DiskType'
  <2>1. metadata' \in [Id -> Metadata]
    BY <1>1 DEF Without, DiskType, Metadata
  <2>2. forgotten' \in [metadata : SUBSET Id, transcript : SUBSET Id, note : SUBSET Id]
    BY <1>1 DEF DiskType
  <2>3. UNCHANGED <<recordings, tmp>>
    BY DEF Crash
  <2>. QED
    BY <2>1, <2>2, <2>3 DEF DiskType
<1>5. transcripts' \in [Id -> {Nothing} \cup (Files \ Silent)]
  BY <1>1 DEF Without, ResultType
<1>6. notes' \in [Id -> {NoMeta} \cup [data : Files \ {Nothing}, at : Times \ {0}]]
  BY <1>1 DEF Without, ResultType
<1>7. /\ done' \subseteq done
      /\ forgotten.metadata \subseteq forgotten'.metadata
      /\ forgotten.transcript \subseteq forgotten'.transcript
      /\ forgotten.note \subseteq forgotten'.note
  BY <1>1, <1>2
<1>. QED
  BY <1>3, <1>4, <1>5, <1>6, <1>7

(* A step of a request changes that request alone.                         *)
LEMMA RequestStep ==
    ASSUME ReqType, WorkType, NEW r \in Request, Handler(r) \/ Answered(r)
    PROVE  /\ req[r] \in Requests /\ up = TRUE
           /\ \A q \in Request \ {r} : req'[q] = req[q]
<1>1. req[r] # Free
  BY DEF Handler, Answered, Lookup, Open, Write, WriteTmp, Replace, StoreFails, Enqueue, Free
<1>2. req[r] \in Requests
  BY <1>1 DEF ReqType
<1>3. \A q \in Request \ {r} : req'[q] = req[q]
  BY DEF Handler, Answered, Lookup, Open, Write, WriteTmp, Replace, StoreFails, Enqueue, Goto,
         Answer, ReqType
<1>4. up = TRUE
  BY <1>1 DEF WorkType
<1>. QED
  BY <1>2, <1>3, <1>4

(* A step of one request keeps the types of all.                           *)
LEMMA RequestSet ==
    ASSUME ReqType, NEW r \in Request, NEW x \in Requests, req' = [req EXCEPT ![r] = x]
    PROVE  ReqType'
BY DEF ReqType

(* So does one that sets the place and the status of a request.            *)
LEMMA StatusSet ==
    ASSUME ReqType, NEW r \in Request, req[r] \in Requests, NEW p \in Steps, NEW s \in Statuses,
           req' = [req EXCEPT ![r].pc = p, ![r].status = s]
    PROVE  ReqType'
<1>1. [req[r] EXCEPT !.pc = p, !.status = s] \in Requests
  BY Zenon DEF Requests
<1>2. req' = [req EXCEPT ![r] = [req[r] EXCEPT !.pc = p, !.status = s]]
  BY DEF ReqType
<1>. QED
  BY <1>1, <1>2, RequestSet

(* And one that also sets its time.                                        *)
LEMMA TimeSet ==
    ASSUME ReqType, NEW r \in Request, req[r] \in Requests, NEW p \in Steps, NEW s \in Statuses,
           NEW t \in Times, req' = [req EXCEPT ![r].pc = p, ![r].at = t, ![r].status = s]
    PROVE  ReqType'
<1>1. [req[r] EXCEPT !.pc = p, !.at = t, !.status = s] \in Requests
  BY Zenon DEF Requests
<1>2. req' = [req EXCEPT ![r] = [req[r] EXCEPT !.pc = p, !.at = t, !.status = s]]
  BY DEF ReqType
<1>. QED
  BY <1>1, <1>2, RequestSet

-----------------------------------------------------------------------------
(* The clock counts the requests that have looked their id up.             *)
LEMMA Taken ==
    ASSUME ReceiverAssumption, ReqType, ClockInv, NEW r \in Request, req[r].pc = "lookup"
    PROVE  clock + 1 \in Times \ {0}
<1>1. r \in Looking
  BY DEF Looking
<1>2. Cardinality(Looking) \in Nat /\ Cardinality(Looking) # 0
  BY <1>1, FS_CardinalityType, FS_EmptySet DEF ClockInv
<1>3. MaxSends \in Nat
  BY DEF ReceiverAssumption
<1>. QED
  BY <1>2, <1>3 DEF ClockInv, Times

(* Each request draws at most one time (app.py, receive_recording).        *)
LEMMA ClockNext ==
    ASSUME ReceiverAssumption, ReqType, WorkType, ClockInv, [Next]_receiverVars
    PROVE  ClockInv'
<1>0. Cardinality(Looking) \in Nat /\ MaxSends \in Nat
  BY FS_CardinalityType DEF ClockInv, ReceiverAssumption
<1>1. CASE Client
  <2>1. PICK r \in Request, i \in Id, d \in Data : Send(r, i, d)
    BY <1>1 DEF Client
  <2>2. Looking' = Looking \cup {r} /\ r \notin Looking
    BY <2>1 DEF Send, Looking, ReqType, Free
  <2>3. IsFiniteSet(Looking') /\ Cardinality(Looking') = Cardinality(Looking) + 1
    BY <2>2, FS_AddElement DEF ClockInv
  <2>. QED
    BY <1>0, <2>1, <2>3 DEF Send, ClockInv
<1>2. CASE Receive
  <2>1. PICK r \in Request : Handler(r) \/ Answered(r)
    BY <1>2 DEF Receive
  <2>2. /\ \A q \in Request \ {r} : req'[q] = req[q]
        /\ req[r] \in Requests
    BY <2>1, RequestStep
  <2>3. req'[r].pc # "lookup"
    BY <2>1, <2>2 DEF Handler, Answered, Lookup, Open, Write, WriteTmp, Replace, StoreFails, Enqueue,
                      Goto, Answer, ReqType, Free, Requests
  <2>4. Looking' = Looking \ {r}
    BY <2>2, <2>3 DEF Looking
  <2>5. /\ IsFiniteSet(Looking')
        /\ Cardinality(Looking') = IF r \in Looking THEN Cardinality(Looking) - 1
                                                    ELSE Cardinality(Looking)
    BY <2>4, FS_RemoveElement DEF ClockInv
  <2>6. sends' = sends /\ clock' \in {clock, IF r \in Looking THEN clock + 1 ELSE clock}
    BY <2>1 DEF Handler, Answered, Lookup, Open, Write, WriteTmp, Replace, StoreFails, Enqueue,
                Looking
  <2>7. Cardinality(Looking') \in Nat
    BY <2>5, FS_CardinalityType
  <2>. QED
    BY <1>0, <2>5, <2>6, <2>7 DEF ClockInv
<1>3. CASE Crash
  <2>1. Looking' = {}
    BY <1>3 DEF Crash, Looking, Free
  <2>2. IsFiniteSet(Looking') /\ Cardinality(Looking') = 0
    BY <2>1, FS_EmptySet
  <2>. QED
    BY <1>0, <1>3, <2>2 DEF Crash, ClockInv
<1>4. CASE Worker \/ Start \/ UNCHANGED <<req, clock, sends>>
  <2>1. UNCHANGED <<req, clock, sends>>
    BY <1>4, WorkerFrame DEF Start
  <2>. QED
    BY <2>1 DEF ClockInv, Looking
<1>. QED
  BY <1>1, <1>2, <1>3, <1>4, NextCases

-----------------------------------------------------------------------------
(* Types.                                                                  *)
LEMMA ReqTypeNext ==
    ASSUME ReceiverAssumption, ReqType, WorkType, ClockInv, [Next]_receiverVars
    PROVE  ReqType'
<1>0. 0 \in Times
  BY DEF ReceiverAssumption, Times
<1>1. CASE Client
  <2>1. PICK r \in Request, i \in Id, d \in Data : Send(r, i, d)
    BY <1>1 DEF Client
  <2>2. [pc |-> "lookup", id |-> i, data |-> d, at |-> 0, status |-> 0] \in Requests
    BY <1>0 DEF Requests, Steps, Statuses
  <2>. QED
    BY <2>1, <2>2 DEF Send, ReqType
<1>2. CASE Receive
  <2>1. PICK r \in Request : Handler(r) \/ Answered(r)
    BY <1>2 DEF Receive
  <2>2. req[r] \in Requests
    BY <2>1, RequestStep
  <2>3. CASE Answered(r)
    BY <2>3 DEF Answered, ReqType
  <2>4. CASE Lookup(r)
    <3>1. clock + 1 \in Times
      BY <2>4, Taken DEF Lookup
    <3>2. /\ "open" \in Steps /\ "enqueue" \in Steps /\ "answer" \in Steps
          /\ 200 \in Statuses /\ 201 \in Statuses /\ 409 \in Statuses
      BY DEF Steps, Statuses
    <3>3. \/ req' = [req EXCEPT ![r].pc = "open", ![r].at = clock + 1, ![r].status = 201]
          \/ req' = [req EXCEPT ![r].pc = "enqueue", ![r].status = 200]
          \/ req' = [req EXCEPT ![r].pc = "answer", ![r].status = 409]
      BY <2>4, Zenon DEF Lookup, Answer
    <3>4. CASE req' = [req EXCEPT ![r].pc = "open", ![r].at = clock + 1, ![r].status = 201]
      BY <2>2, <3>1, <3>2, <3>4, TimeSet
    <3>5. CASE req' = [req EXCEPT ![r].pc = "enqueue", ![r].status = 200]
      BY <2>2, <3>2, <3>5, StatusSet
    <3>6. CASE req' = [req EXCEPT ![r].pc = "answer", ![r].status = 409]
      BY <2>2, <3>2, <3>6, StatusSet
    <3>. QED
      BY <3>3, <3>4, <3>5, <3>6
  <2>5. CASE StoreFails(r)
    <3>1. "answer" \in Steps /\ 500 \in Statuses
      BY DEF Steps, Statuses
    <3>2. req' = [req EXCEPT ![r].pc = "answer", ![r].status = 500]
      BY <2>5 DEF StoreFails, Answer
    <3>. QED
      BY <2>2, <3>1, <3>2, StatusSet
  <2>6. CASE Open(r) \/ Write(r) \/ WriteTmp(r) \/ Replace(r) \/ Enqueue(r)
    <3>1. \A p \in Steps : [req[r] EXCEPT !.pc = p] \in Requests
      BY <2>2 DEF Requests
    <3>2. \E p \in Steps : req' = [req EXCEPT ![r].pc = p]
      BY <2>6 DEF Open, Write, WriteTmp, Replace, Enqueue, Goto, Steps
    <3>. QED
      BY <3>1, <3>2 DEF ReqType
  <2>. QED
    BY <2>1, <2>3, <2>4, <2>5, <2>6 DEF Handler
<1>3. CASE Crash
  BY <1>3 DEF Crash, ReqType
<1>4. CASE Worker \/ Start \/ UNCHANGED req
  BY <1>4, WorkerFrame DEF Start, ReqType
<1>. QED
  BY <1>1, <1>2, <1>3, <1>4, NextCases

(* What a handler keeps of its request.                                    *)
LEMMA HandlerStep ==
    ASSUME ReqType, WorkType, NEW r \in Request, Handler(r)
    PROVE  /\ req'[r].id = req[r].id /\ req'[r].data = req[r].data
           /\ req[r] # Free /\ req'[r] # Free
           /\ ~ Lookup(r) => req'[r].at = req[r].at
<1>1. req[r] \in Requests
  BY RequestStep
<1>. QED
  BY <1>1 DEF Handler, Lookup, Open, Write, WriteTmp, Replace, StoreFails, Enqueue, Goto, Answer,
              ReqType, Requests, Steps, Free

(* The files of the recordings keep their types.                           *)
LEMMA DiskTypeNext ==
    ASSUME ReqType, DiskType, ResultType, WorkType, StoreInv, [Next]_receiverVars
    PROVE  DiskType'
<1>1. CASE Client
  BY <1>1 DEF Client, Send, disk, DiskType
<1>2. CASE Receive
  <2>1. PICK r \in Request : Handler(r) \/ Answered(r)
    BY <1>2 DEF Receive
  <2>2. req[r] \in Requests
    BY <2>1, RequestStep
  <2>3. CASE Open(r) \/ Write(r)
    BY <2>2, <2>3 DEF Open, Write, DiskType, Files, Requests
  <2>4. CASE WriteTmp(r)
    <3>1. req[r].at # 0
      BY <2>4 DEF WriteTmp, StoreInv, Storing
    <3>2. [data |-> req[r].data, at |-> req[r].at] \in Metadata
      BY <2>2, <3>1 DEF Requests, Metadata
    <3>. QED
      BY <2>2, <2>4, <3>2 DEF WriteTmp, DiskType
  <2>5. CASE Replace(r)
    BY <2>2, <2>5 DEF Replace, DiskType, Requests, Metadata
  <2>6. CASE UNCHANGED disk
    BY <2>6 DEF disk, DiskType
  <2>. QED
    BY <2>1, <2>3, <2>4, <2>5, <2>6 DEF Handler, Answered, Lookup, StoreFails, Enqueue
<1>3. CASE Crash
  BY <1>3, CrashTakes
<1>4. CASE UNCHANGED disk
  BY <1>4 DEF disk, DiskType
<1>. QED
  BY <1>1, <1>2, <1>3, <1>4, NextCases, WorkerFrame DEF Start

(* What a push adds.                                                       *)
LEMMA PushedOnly ==
    ASSUME ResultType, WorkType, NoteInv, worker # Idle, worker.pc = "push"
    PROVE  /\ notebook \subseteq Pushed /\ Pushed \subseteq Notes
           /\ \E n \in Pushed : n.id = worker.id
           /\ \A n \in Pushed \ notebook : n.id = worker.id /\ n.text = notes[worker.id].data
           /\ notes[worker.id] # NoMeta
<1>1. worker.id \in Id /\ worker.at \in Times \ {0}
  BY DEF WorkType, Jobs
<1>2. notes[worker.id] # NoMeta
  BY DEF NoteInv
<1>3. notes[worker.id].data \in Files \ {Nothing}
  BY <1>1, <1>2 DEF ResultType
<1>4. [id |-> worker.id, at |-> worker.at, text |-> notes[worker.id].data] \in Notes
  BY <1>1, <1>3 DEF Notes
<1>. QED
  BY <1>2, <1>4 DEF Pushed, ResultType

(* The files of the worker and the notebook keep their types.              *)
LEMMA ResultTypeNext ==
    ASSUME ReceiverAssumption, DiskType, ResultType, WorkType, NoteInv, [Next]_receiverVars
    PROVE  ResultType'
<1>1. CASE Transcribe
  <2>1. worker.id \in Id
    BY <1>1 DEF Transcribe, WorkType, Jobs, Idle
  <2>2. recordings[worker.id] \in Files
    BY <2>1 DEF DiskType
  <2>. QED
    BY <1>1, <2>2 DEF Transcribe, ResultType
<1>2. CASE NoSpeech \/ Finish
  <2>1. worker.id \in Id
    BY <1>2 DEF NoSpeech, Finish, WorkType, Jobs, Idle
  <2>. QED
    BY <1>2, <2>1 DEF NoSpeech, Finish, ResultType
<1>3. CASE Render
  <2>1. worker.id \in Id /\ worker.at \in Times \ {0}
    BY <1>3 DEF Render, WorkType, Jobs, Idle
  <2>2. transcripts[worker.id] \in Files \ {Nothing}
    BY <1>3, <2>1 DEF Render, NoteInv, ResultType
  <2>3. [data |-> transcripts[worker.id], at |-> worker.at]
           \in [data : Files \ {Nothing}, at : Times \ {0}]
    BY <2>1, <2>2
  <2>. QED
    BY <1>3, <2>3 DEF Render, ResultType
<1>4. CASE Push \/ ProcessingFails \/ Crash
  <2>1. worker # Idle /\ worker.pc = "push" => Pushed \subseteq Notes
    BY PushedOnly
  <2>2. UNCHANGED unheard /\ notebook' \in {notebook, Pushed}
    BY <1>4 DEF Push, ProcessingFails, Crash
  <2>3. notebook' # notebook => worker # Idle /\ worker.pc = "push"
    BY <1>4 DEF Push, ProcessingFails, Crash, Idle
  <2>4. CASE Push \/ ProcessingFails
    BY <2>1, <2>2, <2>3, <2>4 DEF Push, ProcessingFails, ResultType
  <2>5. CASE Crash
    <3>1. {Nothing} \cup (Files \ Silent) = Files \ Silent
      BY DEF ReceiverAssumption, Files
    <3>. QED
      BY <2>1, <2>2, <2>3, <2>5, <3>1, CrashTakes DEF ResultType
  <2>. QED
    BY <1>4, <2>4, <2>5
<1>5. CASE UNCHANGED results
  BY <1>5 DEF results, ResultType
<1>. QED
  BY <1>1, <1>2, <1>3, <1>4, <1>5, NextCases, RequestFrame DEF Worker, Take, Start, results

-----------------------------------------------------------------------------
(* SetToSeqs: a sequence of all elements.                                  *)
LEMMA EachOnce ==
    ASSUME NEW S, IsFiniteSet(S), NEW q \in SetToSeqs(S)
    PROVE  q \in Seq(S) /\ \A x \in S : \E k \in 1 .. Len(q) : q[k] = x
<1>1. PICK n \in Nat : n = Cardinality(S)
  BY FS_CardinalityType
<1>2. q \in [1 .. n -> S] /\ \A i, j \in 1 .. n : i # j => q[i] # q[j]
  BY <1>1 DEF SetToSeqs
<1>3. q \in Injection(1 .. n, S)
  BY <1>2 DEF Injection, IsInjective
<1>4. Cardinality(1 .. n) = n
  BY <1>1, FS_Interval
<1>5. q \in Surjection(1 .. n, S)
  BY <1>1, <1>3, <1>4, FS_Injection
<1>6. q \in Seq(S) /\ Len(q) = n
  BY <1>1, <1>2
<1>. QED
  BY <1>5, <1>6 DEF Surjection

(* There are finitely many recordings for the start-up scan to find.       *)
LEMMA PendingFinite ==
    ASSUME ReceiverAssumption
    PROVE  IsFiniteSet(Pending) /\ Pending \subseteq Id
BY FS_Subset DEF ReceiverAssumption, Pending

(* The queue and the worker keep their types; nothing runs in a process    *)
(* that is down.                                                           *)
LEMMA WorkTypeNext ==
    ASSUME ReceiverAssumption, ReqType, DiskType, WorkType, TrackInv, [Next]_receiverVars
    PROVE  WorkType'
<1>1. CASE Client
  BY <1>1 DEF Client, Send, WorkType
<1>2. CASE Receive
  <2>1. PICK r \in Request : Handler(r) \/ Answered(r)
    BY <1>2 DEF Receive
  <2>2. req[r] \in Requests /\ up = TRUE
    BY <2>1, RequestStep
  <2>3. up' = TRUE /\ worker' = worker /\ dropped' = dropped
    BY <1>2, <2>2, RequestFrame
  <2>4. queue' \in Seq(Id)
    <3>1. CASE Enqueue(r)
      BY <2>2, <3>1 DEF Enqueue, WorkType, Requests
    <3>2. CASE UNCHANGED queue
      BY <3>2 DEF WorkType
    <3>. QED
      BY <2>1, <3>1, <3>2 DEF Handler, Answered, Lookup, Open, Write, WriteTmp, Replace, StoreFails
  <2>5. accepted' \subseteq [id : Id, data : Data]
    <3>1. CASE Answered(r)
      <4>1. [id |-> req[r].id, data |-> req[r].data] \in [id : Id, data : Data]
        BY <2>2 DEF Requests
      <4>. QED
        BY <3>1, <4>1 DEF Answered, WorkType
    <3>2. CASE UNCHANGED accepted
      BY <3>2 DEF WorkType
    <3>. QED
      BY <2>1, <3>1, <3>2 DEF Handler, Lookup, Open, Write, WriteTmp, Replace, StoreFails, Enqueue
  <2>. QED
    BY <2>3, <2>4, <2>5 DEF WorkType
<1>3. CASE Take
  <2>1. queue \in Seq(Id) /\ queue # <<>> /\ up = TRUE
    BY <1>3 DEF Take, WorkType
  <2>2. Head(queue) = queue[1] /\ Head(queue) \in Id /\ Tail(queue) \in Seq(Id) /\ 1 \in 1 .. Len(queue)
    BY <2>1
  <2>3. metadata[Head(queue)] # NoMeta
    BY <2>2 DEF TrackInv
  <2>4. metadata[Head(queue)].at \in Times \ {0}
    BY <2>2, <2>3 DEF DiskType, Metadata
  <2>5. worker' \in Jobs
    BY <1>3, <2>2, <2>4 DEF Take, Jobs
  <2>. QED
    BY <1>3, <2>1, <2>2, <2>5 DEF Take, WorkType
<1>4. CASE Worker /\ ~ Take
  <2>1. worker # Idle /\ UNCHANGED <<queue, accepted, up>>
    BY <1>4 DEF Worker, Transcribe, NoSpeech, Render, Push, Finish, ProcessingFails, Idle
  <2>2. worker \in Jobs /\ up = TRUE
    BY <2>1 DEF WorkType
  <2>3. worker' \in {Idle} \cup Jobs
    BY <1>4, <2>2 DEF Worker, Transcribe, NoSpeech, Render, Push, Finish, ProcessingFails, Jobs
  <2>4. dropped' \subseteq Id
    BY <1>4, <2>2 DEF Worker, Transcribe, NoSpeech, Render, Push, Finish, ProcessingFails, Jobs,
                      WorkType
  <2>. QED
    BY <2>1, <2>2, <2>3, <2>4 DEF WorkType
<1>5. CASE Crash
  <2>1. worker' = Idle /\ queue' = <<>> /\ req' = [r \in Request |-> Free] /\ up' = FALSE
    BY <1>5 DEF Crash
  <2>2. queue' \in Seq(Id)
    BY <2>1
  <2>3. up' \in BOOLEAN
    BY <2>1, Zenon
  <2>. QED
    BY <1>5, <2>1, <2>2, <2>3 DEF Crash, WorkType
<1>6. CASE Start
  <2>1. queue' \in Seq(Pending)
    BY <1>6, EachOnce, PendingFinite DEF Start
  <2>2. queue' \in Seq(Id)
    BY <2>1, PendingFinite
  <2>. QED
    BY <1>6, <2>2 DEF Start, WorkType
<1>7. CASE UNCHANGED <<req, disk, results, queue, worker, up, clock, sends, accepted, dropped>>
  BY <1>7 DEF WorkType
<1>. QED
  BY <1>1, <1>2, <1>3, <1>4, <1>5, <1>6, <1>7, NextCases

-----------------------------------------------------------------------------
(* What is on the disk under the steps of overlapping requests.            *)
LEMMA SameBytes ==
    ASSUME ReqType, WorkType, StoreInv, [Next]_receiverVars
    PROVE  \A q, r \in Request : req'[q] # Free /\ req'[r] # Free /\ req'[q].id = req'[r].id
                                 => req'[q].data = req'[r].data
<1>1. CASE Client
  <2>1. PICK p \in Request, i \in Id, d \in Data :
           /\ Send(p, i, d)
           /\ \A q \in Request : req[q] # Free /\ req[q].id = i => req[q].data = d
    BY <1>1 DEF Client
  <2>2. /\ \A q \in Request \ {p} : req'[q] = req[q]
        /\ req'[p].id = i /\ req'[p].data = d
    BY <2>1 DEF Send, ReqType
  <2>. QED
    BY <2>1, <2>2 DEF StoreInv
<1>2. CASE Receive
  <2>1. PICK p \in Request : Handler(p) \/ Answered(p)
    BY <1>2 DEF Receive
  <2>2. \A q \in Request \ {p} : req'[q] = req[q]
    BY <2>1, RequestStep
  <2>3. \/ req'[p] = Free
        \/ req[p] # Free /\ req'[p].id = req[p].id /\ req'[p].data = req[p].data
    BY <2>1, HandlerStep DEF Answered, ReqType
  <2>. QED
    BY <2>2, <2>3 DEF StoreInv
<1>3. CASE Crash
  BY <1>3 DEF Crash
<1>4. CASE UNCHANGED req
  BY <1>4 DEF StoreInv
<1>. QED
  BY <1>1, <1>2, <1>3, <1>4, NextCases, WorkerFrame DEF Start

(* What the disk holds is what its metadata says, whoever else is storing  *)
(* it (app.py, receive_recording).                                         *)
LEMMA StoreNext ==
    ASSUME ReceiverAssumption, ReqType, DiskType, ResultType, WorkType, ClockInv, StoreInv,
           [Next]_receiverVars
    PROVE  StoreInv'
<1>0. \A q, r \in Request : req'[q] # Free /\ req'[r] # Free /\ req'[q].id = req'[r].id
                            => req'[q].data = req'[r].data
  BY SameBytes
<1>1. CASE Client
  <2>1. PICK p \in Request, i \in Id, d \in Data : Send(p, i, d)
    BY <1>1 DEF Client
  <2>2. /\ \A q \in Request \ {p} : req'[q] = req[q]
        /\ req'[p].pc = "lookup"
        /\ UNCHANGED disk
    BY <2>1 DEF Send, ReqType
  <2>. QED
    BY <1>0, <2>2 DEF StoreInv, Storing, disk
<1>2. CASE Receive
  <2>1. PICK p \in Request : Handler(p) \/ Answered(p)
    BY <1>2 DEF Receive
  <2>2. /\ \A q \in Request \ {p} : req'[q] = req[q]
        /\ req[p] \in Requests /\ req[p] # Free
    <3>1. (\A q \in Request \ {p} : req'[q] = req[q]) /\ req[p] \in Requests
      BY <2>1, RequestStep
    <3>. QED
      BY <3>1 DEF Requests, Steps, Free
  <2>3. \A q \in Request : req[q].pc \in Storing => req[q] # Free /\ req[q].id \in Id
    BY DEF ReqType, Storing, Requests, Free
  <2>4. CASE Answered(p) \/ StoreFails(p)
    <3>1. req'[p].pc \in {"free", "answer"} /\ UNCHANGED disk
      BY <2>2, <2>4 DEF Answered, StoreFails, Answer, ReqType, Free, Requests
    <3>. QED
      BY <1>0, <2>2, <3>1 DEF StoreInv, Storing, disk
  <2>5. CASE Lookup(p)
    <3>1. /\ \/ req'[p].pc = "open" /\ req'[p].at # 0 /\ metadata[req[p].id] = NoMeta
             \/ req'[p].pc = "enqueue" /\ metadata[req[p].id] # NoMeta
             \/ req'[p].pc = "answer"
          /\ UNCHANGED disk
      <4>1. clock + 1 # 0
        BY <2>5, Taken DEF Lookup
      <4>. QED
        BY <2>2, <2>5, <4>1 DEF Lookup, Answer, ReqType, Requests
    <3>2. req'[p].id = req[p].id /\ req'[p].data = req[p].data
      BY <2>5, HandlerStep DEF Handler
    <3>. QED
      BY <1>0, <2>2, <3>1, <3>2 DEF StoreInv, Storing, disk
  <2>6. CASE Open(p)
    <3>1. /\ req'[p].pc = "write" /\ req'[p].id = req[p].id /\ req'[p].data = req[p].data
          /\ req'[p].at = req[p].at /\ req[p].pc \in Storing
          /\ UNCHANGED <<metadata, tmp>>
      BY <2>2, <2>6 DEF Open, Goto, ReqType, Requests, Storing
    <3>2. \A i \in Id : recordings'[i] \in {recordings[i], Torn}
      BY <2>6 DEF Open, DiskType
    <3>3. recordings'[req[p].id] = Torn
      BY <2>2, <2>6 DEF Open, DiskType, Requests
    <3>. QED
      BY <1>0, <2>2, <2>3, <3>1, <3>2, <3>3 DEF StoreInv, Storing
  <2>7. CASE Write(p)
    <3>1. /\ req'[p].pc = "tmp" /\ req'[p].id = req[p].id /\ req'[p].data = req[p].data
          /\ req'[p].at = req[p].at /\ req[p].pc \in Storing
          /\ UNCHANGED <<metadata, tmp>>
      BY <2>2, <2>7 DEF Write, Goto, ReqType, Requests, Storing
    <3>2. /\ recordings'[req[p].id] = req[p].data
          /\ \A i \in Id \ {req[p].id} : recordings'[i] = recordings[i]
      BY <2>2, <2>7 DEF Write, DiskType, Requests
    <3>. QED
      BY <1>0, <2>2, <2>3, <3>1, <3>2 DEF StoreInv, Storing
  <2>8. CASE WriteTmp(p)
    <3>1. /\ req'[p].pc = "replace" /\ req'[p].id = req[p].id /\ req'[p].data = req[p].data
          /\ req'[p].at = req[p].at /\ req[p].pc \in Storing /\ req[p].pc # "open"
          /\ UNCHANGED <<metadata, recordings>>
      BY <2>2, <2>8 DEF WriteTmp, Goto, ReqType, Requests, Storing
    <3>2. /\ tmp'[req[p].id].data = req[p].data
          /\ \A i \in Id \ {req[p].id} : tmp'[i] = tmp[i]
      BY <2>2, <2>8 DEF WriteTmp, DiskType, Requests
    <3>. QED
      BY <1>0, <2>2, <2>3, <3>1, <3>2 DEF StoreInv, Storing
  <2>9. CASE Replace(p)
    <3>1. /\ req'[p].pc = "enqueue" /\ req'[p].id = req[p].id /\ req'[p].data = req[p].data
          /\ req[p].pc \in Storing /\ req[p].pc # "open"
          /\ UNCHANGED recordings
      BY <2>2, <2>9 DEF Replace, Goto, ReqType, Requests, Storing
    <3>2. tmp[req[p].id] # NoMeta /\ tmp[req[p].id].data = req[p].data
      BY <2>9 DEF Replace, StoreInv, Storing
    <3>3. /\ metadata'[req[p].id] # NoMeta /\ metadata'[req[p].id].data = req[p].data
          /\ tmp'[req[p].id] = NoMeta
          /\ \A i \in Id \ {req[p].id} : tmp'[i] = tmp[i] /\ metadata'[i] = metadata[i]
      BY <2>2, <2>9, <3>2 DEF Replace, DiskType, Requests
    <3>4. recordings[req[p].id] \in {req[p].data, Torn}
      BY <3>1 DEF StoreInv
    <3>5. ASSUME NEW q \in Request, req'[q].pc \in Storing
          PROVE  /\ q # p /\ req'[q] = req[q] /\ req[q].id \in Id
                 /\ req[q].id = req[p].id => req[q].data = req[p].data
      <4>1. q # p /\ req'[q] = req[q]
        BY <2>2, <3>1, <3>5 DEF Storing
      <4>2. req[q] # Free /\ req[q].id \in Id
        BY <2>3, <3>5, <4>1
      <4>. QED
        BY <2>2, <4>1, <4>2 DEF StoreInv
    <3>6. ASSUME NEW q \in Request, req'[q].pc \in Storing
          PROVE  /\ req'[q].at # 0
                 /\ metadata'[req'[q].id] # NoMeta => metadata'[req'[q].id].data = req'[q].data
                 /\ req'[q].pc # "open" => recordings'[req'[q].id] \in {req'[q].data, Torn}
                 /\ req'[q].pc = "replace" /\ tmp'[req'[q].id] # NoMeta
                       => tmp'[req'[q].id].data = req'[q].data
      BY <3>1, <3>3, <3>5, <3>6 DEF StoreInv
    <3>7. \A q \in Request : req'[q].pc = "enqueue" => metadata'[req'[q].id] # NoMeta
      <4>1. \A q \in Request : req[q].pc = "enqueue" => req[q].id \in Id
        BY DEF ReqType, Requests, Free
      <4>. QED
        BY <2>2, <3>1, <3>3, <4>1 DEF StoreInv
    <3>8. \A i \in Id : metadata'[i] # NoMeta => recordings'[i] \in {metadata'[i].data, Torn}
      BY <3>1, <3>3, <3>4 DEF StoreInv
    <3>. QED
      BY <1>0, <3>6, <3>7, <3>8 DEF StoreInv
  <2>10. CASE Enqueue(p)
    <3>1. req'[p].pc = "answer" /\ UNCHANGED disk
      BY <2>2, <2>10 DEF Enqueue, Goto, ReqType, Requests
    <3>. QED
      BY <1>0, <2>2, <3>1 DEF StoreInv, Storing, disk
  <2>. QED
    BY <2>1, <2>4, <2>5, <2>6, <2>7, <2>8, <2>9, <2>10 DEF Handler
<1>3. CASE Crash
  <2>1. \A r \in Request : req'[r].pc = "free"
    BY <1>3 DEF Crash, Free
  <2>2. \A i \in Id : metadata'[i] \in {metadata[i], NoMeta}
    BY <1>3, CrashTakes
  <2>3. recordings' = recordings
    BY <1>3 DEF Crash
  <2>. QED
    BY <1>0, <2>1, <2>2, <2>3 DEF StoreInv, Storing
<1>4. CASE UNCHANGED <<req, disk>>
  BY <1>4 DEF StoreInv, disk
<1>. QED
  BY <1>1, <1>2, <1>3, <1>4, NextCases, WorkerFrame DEF Start
-----------------------------------------------------------------------------
(* Metadata, once there, names the same audio until the power goes.        *)
LEMMA MetadataStays ==
    ASSUME ReqType, DiskType, ResultType, WorkType, StoreInv, [Next]_receiverVars, NEW i \in Id,
           metadata[i] # NoMeta
    PROVE  \/ metadata'[i] # NoMeta /\ metadata'[i].data = metadata[i].data
           \/ Crash /\ i \in forgotten'.metadata
<1>1. CASE \E p \in Request : Replace(p)
  <2>1. PICK p \in Request : Replace(p)
    BY <1>1
  <2>2. req[p] \in Requests
    BY <2>1, RequestStep DEF Handler
  <2>3. CASE i = req[p].id
    <3>1. /\ metadata'[i] = tmp[i] /\ tmp[i] # NoMeta
          /\ req[p].pc \in Storing /\ req[p].pc = "replace"
      BY <2>1, <2>2, <2>3 DEF Replace, DiskType, Storing
    <3>2. tmp[i].data = req[p].data /\ metadata[i].data = req[p].data
      BY <2>3, <3>1 DEF StoreInv
    <3>. QED
      BY <3>1, <3>2
  <2>4. CASE i # req[p].id
    BY <2>1, <2>4 DEF Replace, DiskType
  <2>. QED
    BY <2>3, <2>4
<1>2. CASE Crash
  BY <1>2, CrashTakes
<1>3. CASE UNCHANGED metadata
  BY <1>3
<1>. QED
  BY <1>1, <1>2, <1>3, NextCases, WorkerFrame
     DEF Client, Send, Receive, Handler, Answered, Lookup, Open, Write, WriteTmp, StoreFails,
         Enqueue, Start, disk

(* A note is made from the transcript and pushed as it is.                 *)
LEMMA NoteNext ==
    ASSUME ReceiverAssumption, DiskType, ResultType, WorkType, NoteInv, [Next]_receiverVars
    PROVE  NoteInv'
<1>1. CASE Client \/ Receive \/ Start \/ UNCHANGED <<disk, results, worker>>
  <2>1. UNCHANGED <<forgotten, results, worker>>
    BY <1>1, RequestFrame DEF Start, disk
  <2>. QED
    BY <2>1 DEF NoteInv, results
<1>2. CASE Take
  <2>1. UNCHANGED <<forgotten, results>> /\ worker'.pc = "listen"
    BY <1>2 DEF Take, disk
  <2>. QED
    BY <2>1 DEF NoteInv, results
<1>3. CASE Transcribe
  <2>1. worker.id \in Id /\ worker'.id = worker.id /\ worker'.pc = "render"
    BY <1>3 DEF Transcribe, WorkType, Jobs, Idle
  <2>2. /\ transcripts'[worker.id] # Nothing
        /\ \A i \in Id : transcripts[i] # Nothing => transcripts'[i] = transcripts[i]
    BY <1>3, <2>1 DEF Transcribe, ResultType
  <2>3. UNCHANGED <<forgotten, notes, notebook>>
    BY <1>3 DEF Transcribe, disk
  <2>4. \A n \in notebook : n.id \in Id
    BY DEF ResultType, Notes
  <2>. QED
    BY <2>1, <2>2, <2>3, <2>4 DEF NoteInv
<1>4. CASE Render
  <2>1. worker.id \in Id /\ worker'.id = worker.id /\ worker'.pc = "push"
    BY <1>4 DEF Render, WorkType, Jobs, Idle
  <2>2. UNCHANGED <<forgotten, transcripts, notebook>> /\ transcripts[worker.id] # Nothing
    BY <1>4 DEF Render, NoteInv, disk
  <2>3. CASE notes[worker.id] # NoMeta
    BY <1>4, <2>1, <2>2, <2>3 DEF Render, NoteInv
  <2>4. CASE notes[worker.id] = NoMeta
    <3>1. /\ notes'[worker.id].data = transcripts[worker.id]
          /\ \A i \in Id \ {worker.id} : notes'[i] = notes[i]
      BY <1>4, <2>1, <2>4 DEF Render, ResultType
    <3>2. notes'[worker.id] # NoMeta
      BY <2>2, <3>1 DEF NoMeta
    <3>3. \A n \in notebook : n.id \in Id /\ (n.id = worker.id => n.id \in forgotten.note)
      BY <2>4 DEF NoteInv, ResultType, Notes
    <3>. QED
      BY <2>1, <2>2, <3>1, <3>2, <3>3 DEF NoteInv
  <2>. QED
    BY <2>3, <2>4
<1>5. CASE Push \/ ProcessingFails \/ Crash
  <2>1. /\ notebook' \in {notebook, Pushed}
        /\ notebook' # notebook => worker # Idle /\ worker.pc = "push"
    BY <1>5 DEF Push, ProcessingFails, Crash, Idle
  <2>2. \A n \in notebook' :
           /\ n.id \in Id
           /\ n.id \notin forgotten.transcript => /\ n.text = transcripts[n.id]
                                                 /\ transcripts[n.id] # Nothing
           /\ n.id \notin forgotten.note => notes[n.id] # NoMeta /\ n.text = notes[n.id].data
    <3>1. \A n \in notebook : n.id \in Id
      BY DEF ResultType, Notes
    <3>2. CASE notebook' = notebook
      BY <3>1, <3>2 DEF NoteInv
    <3>3. CASE notebook' # notebook
      <4>1. worker.id \in Id
        BY <2>1, <3>3 DEF WorkType, Jobs
      <4>. QED
        BY <2>1, <3>1, <3>3, <4>1, PushedOnly DEF NoteInv
    <3>. QED
      BY <3>2, <3>3
  <2>3. CASE Push \/ ProcessingFails
    <3>1. UNCHANGED <<forgotten, transcripts, notes>>
      BY <2>3 DEF Push, ProcessingFails, disk
    <3>2. CASE Push
      <4>1. worker # Idle /\ worker.pc = "push" /\ worker'.pc = "finish" /\ worker'.id = worker.id
        BY <3>2 DEF Push, WorkType, Jobs, Idle
      <4>2. notebook' = Pushed /\ transcripts[worker.id] # Nothing /\ notes[worker.id] # NoMeta
        BY <3>2, <4>1 DEF Push, NoteInv
      <4>. QED
        BY <2>2, <3>1, <4>1, <4>2, PushedOnly DEF NoteInv
    <3>3. CASE worker' = Idle
      BY <2>2, <3>1, <3>3 DEF NoteInv, Idle
    <3>. QED
      BY <2>3, <3>2, <3>3 DEF ProcessingFails
  <2>4. CASE Crash
    <3>1. worker' = Idle
      BY <2>4 DEF Crash
    <3>2. \A i \in Id \ forgotten'.transcript :
             notes'[i] # NoMeta => notes'[i].data = transcripts'[i] /\ transcripts'[i] # Nothing
      BY <2>4, CrashTakes DEF NoteInv
    <3>3. \A n \in notebook' :
             /\ n.id \notin forgotten'.transcript => /\ n.text = transcripts'[n.id]
                                                    /\ transcripts'[n.id] # Nothing
             /\ n.id \notin forgotten'.note => /\ notes'[n.id] # NoMeta
                                              /\ n.text = notes'[n.id].data
      BY <2>2, <2>4, CrashTakes
    <3>. QED
      BY <3>1, <3>2, <3>3 DEF NoteInv, Idle
  <2>. QED
    BY <1>5, <2>3, <2>4
<1>6. CASE NoSpeech \/ Finish
  BY <1>6 DEF NoSpeech, Finish, NoteInv, Idle, disk
<1>. QED
  BY <1>1, <1>2, <1>3, <1>4, <1>5, <1>6, NextCases DEF Worker

(* A done marker is written after the push, or for silence.                *)
LEMMA DoneNext ==
    ASSUME ReceiverAssumption, ReqType, DiskType, ResultType, WorkType, StoreInv, TrackInv,
           NoteInv, DoneInv, [Next]_receiverVars
    PROVE  DoneInv'
<1>1. notebook \subseteq notebook'
  <2>1. CASE Worker
    <3>1. CASE Push \/ ProcessingFails
      <4>1. notebook' # notebook => worker # Idle /\ worker.pc = "push" /\ notebook' = Pushed
        BY <3>1 DEF Push, ProcessingFails, Idle
      <4>. QED
        BY <4>1, PushedOnly
    <3>2. CASE UNCHANGED notebook
      BY <3>2
    <3>. QED
      BY <2>1, <3>1, <3>2 DEF Worker, Take, Transcribe, NoSpeech, Render, Finish, results
  <2>2. CASE Crash
    BY <2>2, PushedOnly DEF Crash
  <2>3. CASE UNCHANGED notebook
    BY <2>3
  <2>. QED
    BY <2>1, <2>2, <2>3, NextCases, RequestFrame DEF Start, results
<1>2. SUFFICES ASSUME NEW i \in done' \ (forgotten'.metadata \cup unheard')
               PROVE  \/ metadata'[i] # NoMeta /\ metadata'[i].data \in Silent
                      \/ \E n \in notebook' : n.id = i
  BY DEF DoneInv
<1>3. CASE i \in done
  <2>1. i \notin forgotten.metadata \cup unheard /\ i \in Id
    <3>1. forgotten.metadata \subseteq forgotten'.metadata
      BY NextCases, CrashTakes, RequestFrame, WorkerFrame DEF Start, disk
    <3>2. unheard \subseteq unheard'
      BY NextCases, RequestFrame
         DEF Worker, Take, Transcribe, NoSpeech, Render, Push, Finish, ProcessingFails, Crash,
             Start, results
    <3>. QED
      BY <1>2, <1>3, <3>1, <3>2 DEF ResultType
  <2>2. CASE metadata[i] # NoMeta /\ metadata[i].data \in Silent
    BY <1>2, <2>1, <2>2, MetadataStays
  <2>3. CASE \E n \in notebook : n.id = i
    BY <1>1, <2>3
  <2>. QED
    BY <1>3, <2>1, <2>2, <2>3 DEF DoneInv
<1>4. CASE i \notin done
  <2>1. (NoSpeech \/ Finish) /\ i = worker.id
    BY <1>2, <1>4, NextCases, CrashTakes, RequestFrame
       DEF Worker, Take, Transcribe, NoSpeech, Render, Push, Finish, ProcessingFails, Start,
           results
  <2>2. CASE NoSpeech
    <3>1. worker # Idle /\ i \in Id /\ UNCHANGED disk
      BY <2>1, <2>2 DEF NoSpeech, WorkType, Jobs, Idle
    <3>2. metadata[i] # NoMeta
      BY <2>1, <3>1 DEF TrackInv
    <3>3. recordings[i] \in {metadata[i].data, Torn}
      BY <3>1, <3>2 DEF StoreInv
    <3>4. recordings[i] \in Silent
      BY <1>2, <2>1, <2>2 DEF NoSpeech
    <3>. QED
      BY <3>1, <3>2, <3>3, <3>4 DEF disk
  <2>3. CASE Finish
    BY <1>1, <2>1, <2>3 DEF Finish, NoteInv
  <2>. QED
    BY <2>1, <2>2, <2>3
<1>. QED
  BY <1>3, <1>4

-----------------------------------------------------------------------------
(* What the worker has can be found by the start-up scan.                  *)
LEMMA WorkHasMetadata ==
    ASSUME ReceiverAssumption, ReqType, DiskType, ResultType, WorkType, StoreInv, TrackInv,
           [Next]_receiverVars
    PROVE  /\ \A k \in 1 .. Len(queue') : metadata'[queue'[k]] # NoMeta
           /\ worker' # Idle => metadata'[worker'.id] # NoMeta
<1>1. CASE Crash
  <2>1. queue' = <<>> /\ worker' = Idle
    BY <1>1 DEF Crash
  <2>. QED
    BY <2>1
<1>2. CASE Start
  <2>1. queue' \in SetToSeqs(Pending) /\ UNCHANGED <<metadata, worker>> /\ worker = Idle
    BY <1>2 DEF Start, disk, WorkType
  <2>2. queue' \in Seq(Pending)
    BY <2>1, EachOnce, PendingFinite
  <2>3. \A k \in 1 .. Len(queue') : queue'[k] \in Pending
    BY <2>2
  <2>. QED
    BY <2>1, <2>3 DEF Pending
<1>3. CASE ~ Crash /\ ~ Start
  <2>1. \A i \in Id : metadata[i] # NoMeta => metadata'[i] # NoMeta
    BY <1>3, MetadataStays
  <2>2. \A k \in 1 .. Len(queue) : queue[k] \in Id
    BY DEF WorkType
  <2>3. worker # Idle => worker.id \in Id
    BY DEF WorkType, Jobs
  <2>4. CASE UNCHANGED <<queue, worker>>
    BY <2>1, <2>2, <2>3, <2>4 DEF TrackInv
  <2>5. CASE Take
    <3>1. queue \in Seq(Id) /\ queue # <<>>
      BY <2>5 DEF Take, WorkType
    <3>2. /\ 1 \in 1 .. Len(queue) /\ Head(queue) = queue[1]
          /\ \A k \in 1 .. Len(Tail(queue)) : k + 1 \in 1 .. Len(queue) /\ Tail(queue)[k] = queue[k + 1]
      BY <3>1
    <3>3. queue' = Tail(queue) /\ worker'.id = Head(queue)
      BY <2>5 DEF Take
    <3>. QED
      BY <2>1, <2>2, <3>2, <3>3 DEF TrackInv
  <2>6. CASE Worker /\ ~ Take
    <3>1. /\ queue' = queue /\ worker # Idle
          /\ worker' = Idle \/ worker'.id = worker.id
      BY <2>6 DEF Worker, Transcribe, NoSpeech, Render, Push, Finish, ProcessingFails, Idle,
                  WorkType, Jobs
    <3>. QED
      BY <2>1, <2>2, <2>3, <3>1 DEF TrackInv
  <2>7. CASE \E p \in Request : Enqueue(p)
    <3>1. PICK p \in Request : Enqueue(p)
      BY <2>7
    <3>2. req[p] \in Requests /\ req[p].pc = "enqueue"
      BY <3>1, RequestStep DEF Handler, Enqueue
    <3>3. req[p].id \in Id /\ metadata[req[p].id] # NoMeta
      BY <3>2 DEF StoreInv, Requests
    <3>4. queue \in Seq(Id) /\ queue' = Append(queue, req[p].id) /\ worker' = worker
      BY <3>1 DEF Enqueue, WorkType
    <3>5. \A k \in 1 .. Len(queue') : \/ queue'[k] = req[p].id
                                      \/ k \in 1 .. Len(queue) /\ queue'[k] = queue[k]
      BY <3>3, <3>4
    <3>. QED
      BY <2>1, <2>2, <2>3, <3>3, <3>4, <3>5 DEF TrackInv
  <2>. QED
    <3>1. ASSUME Client PROVE UNCHANGED <<queue, worker>>
      BY <3>1 DEF Client, Send
    <3>2. ASSUME Receive, ~ \E r \in Request : Enqueue(r) PROVE UNCHANGED <<queue, worker>>
      BY <3>2 DEF Receive, Handler, Answered, Lookup, Open, Write, WriteTmp, Replace, StoreFails
    <3>. QED
      BY <1>3, <2>4, <2>5, <2>6, <2>7, <3>1, <3>2, NextCases
<1>. QED
  BY <1>1, <1>2, <1>3

(* Who is tracked stays tracked.                                           *)
LEMMA TrackedStays ==
    ASSUME ReceiverAssumption, ReqType, DiskType, ResultType, WorkType, StoreInv, TrackInv,
           [Next]_receiverVars, NEW i \in Id, metadata[i] # NoMeta, Tracked(i)
    PROVE  i \in forgotten'.metadata \/ Tracked(i)'
<1>1. CASE Crash
  <2>1. up' = FALSE
    BY <1>1 DEF Crash
  <2>2. i \in forgotten'.metadata \/ metadata'[i] # NoMeta
    BY MetadataStays
  <2>. QED
    BY <2>1, <2>2 DEF Tracked, Pending
<1>2. CASE Start
  <2>1. up = FALSE /\ up' = TRUE /\ done' = done /\ queue' \in SetToSeqs(Pending)
    BY <1>2 DEF Start, results, WorkType
  <2>2. \A j \in Pending : \E k \in 1 .. Len(queue') : queue'[k] = j
    BY <2>1, EachOnce, PendingFinite
  <2>3. i \in done \cup Pending
    BY <2>1 DEF Tracked
  <2>. QED
    BY <2>1, <2>2, <2>3 DEF Tracked
<1>3. CASE UNCHANGED <<req, disk, results, queue, worker, up, clock, sends, accepted, dropped>>
  BY <1>3 DEF Tracked, Pending, results, disk
<1>4. CASE Worker
  <2>0. up = TRUE /\ up' = TRUE /\ req' = req
    BY <1>4, WorkerFrame DEF Worker, Take, Transcribe, NoSpeech, Render, Push, Finish,
                             ProcessingFails, WorkType, Idle
  <2>1. done \subseteq done' /\ dropped \subseteq dropped'
    <3>1. CASE NoSpeech \/ Finish \/ ProcessingFails
      BY <3>1 DEF NoSpeech, Finish, ProcessingFails
    <3>2. CASE UNCHANGED <<done, dropped>>
      BY <3>2
    <3>. QED
      BY <1>4, <3>1, <3>2 DEF Worker, Take, Transcribe, Render, Push, results
  <2>2. CASE Take
    <3>1. queue \in Seq(Id) /\ queue # <<>> /\ worker = Idle
      BY <2>2 DEF Take, WorkType
    <3>2. \A k \in 1 .. Len(queue) : k = 1 \/ (k - 1 \in 1 .. Len(Tail(queue)) /\ Tail(queue)[k - 1] = queue[k])
      BY <3>1
    <3>3. /\ queue' = Tail(queue) /\ worker'.id = queue[1] /\ worker' # Idle
      BY <2>2, <3>1 DEF Take, Idle
    <3>. QED
      BY <2>0, <2>1, <3>1, <3>2, <3>3 DEF Tracked
  <2>3. CASE ~ Take
    <3>1. /\ queue' = queue /\ worker # Idle
          /\ \/ worker' # Idle /\ worker'.id = worker.id
             \/ worker.id \in done' \cup dropped'
      BY <1>4, <2>3 DEF Worker, Transcribe, NoSpeech, Render, Push, Finish, ProcessingFails, Idle,
                        WorkType, Jobs
    <3>. QED
      BY <2>0, <2>1, <3>1 DEF Tracked
  <2>. QED
    BY <2>2, <2>3
<1>5. CASE Client
  <2>1. PICK p \in Request, j \in Id, d \in Data : Send(p, j, d)
    BY <1>5 DEF Client
  <2>2. /\ up = TRUE /\ UNCHANGED <<done, dropped, queue, worker, up>> /\ req[p] = Free
        /\ \A q \in Request \ {p} : req'[q] = req[q]
    BY <2>1 DEF Send, ReqType, WorkType, results
  <2>. QED
    BY <2>2 DEF Tracked
<1>6. CASE Receive
  <2>1. PICK p \in Request : Handler(p) \/ Answered(p)
    BY <1>6 DEF Receive
  <2>2. /\ up = TRUE /\ UNCHANGED <<done, dropped, worker, up>>
        /\ \A q \in Request \ {p} : req'[q] = req[q]
        /\ req[p] \in Requests
    BY <1>6, <2>1, RequestStep, RequestFrame DEF results
  <2>3. CASE Enqueue(p)
    <3>1. queue \in Seq(Id) /\ queue' = Append(queue, req[p].id) /\ req[p].id \in Id
      BY <2>2, <2>3 DEF Enqueue, WorkType, Requests
    <3>2. /\ Len(queue') \in 1 .. Len(queue') /\ queue'[Len(queue')] = req[p].id
          /\ \A k \in 1 .. Len(queue) : k \in 1 .. Len(queue') /\ queue'[k] = queue[k]
      BY <3>1
    <3>. QED
      BY <2>2, <3>2 DEF Tracked
  <2>4. CASE ~ Enqueue(p)
    <3>1. queue' = queue /\ req[p].pc # "enqueue"
      BY <2>1, <2>4 DEF Handler, Answered, Lookup, Open, Write, WriteTmp, Replace, StoreFails
    <3>. QED
      BY <2>2, <3>1 DEF Tracked
  <2>. QED
    BY <2>3, <2>4
<1>. QED
  BY <1>1, <1>2, <1>3, <1>4, <1>5, <1>6, NextCases

(* What was or will be accepted stays in hand (app.py, receive_recording   *)
(* and the start-up scan).                                                 *)
LEMMA TrackNext ==
    ASSUME ReceiverAssumption, ReqType, DiskType, ResultType, WorkType, StoreInv, TrackInv,
           [Next]_receiverVars
    PROVE  TrackInv'
<1>1. SUFFICES ASSUME NEW i \in Id, Owed(i)'
               PROVE  i \in forgotten'.metadata \/ (metadata'[i] # NoMeta /\ Tracked(i)')
  BY WorkHasMetadata DEF TrackInv
<1>2. CASE Owed(i)
  <2>1. CASE i \in forgotten.metadata
    <3>1. forgotten.metadata \subseteq forgotten'.metadata
      BY NextCases, CrashTakes, RequestFrame, WorkerFrame DEF Start, disk
    <3>. QED
      BY <2>1, <3>1
  <2>2. CASE metadata[i] # NoMeta /\ Tracked(i)
    BY <2>2, MetadataStays, TrackedStays
  <2>. QED
    BY <1>2, <2>1, <2>2 DEF TrackInv
<1>3. CASE ~ Owed(i)
  <2>1. PICK p \in Request : Enqueue(p) /\ req[p].id = i
    <3>1. CASE UNCHANGED <<req, accepted>>
      BY <1>1, <1>3, <3>1 DEF Owed
    <3>2. CASE Crash
      BY <1>1, <1>3, <3>2 DEF Crash, Owed, Free
    <3>3. CASE Client
      <4>1. PICK q \in Request, j \in Id, d \in Data : Send(q, j, d)
        BY <3>3 DEF Client
      <4>2. /\ \A r \in Request \ {q} : req'[r] = req[r]
            /\ req'[q].pc = "lookup" /\ accepted' = accepted
        BY <4>1 DEF Send, ReqType
      <4>. QED
        BY <1>1, <1>3, <4>2 DEF Owed
    <3>4. CASE Receive
      <4>1. PICK q \in Request : Handler(q) \/ Answered(q)
        BY <3>4 DEF Receive
      <4>2. (\A r \in Request \ {q} : req'[r] = req[r]) /\ req[q] \in Requests
        BY <4>1, RequestStep
      <4>3. CASE Answered(q)
        <5>1. req'[q].pc = "free" /\ req[q].pc = "answer"
          BY <4>3 DEF Answered, ReqType, Free
        <5>2. \A a \in accepted' \ accepted : req[q].status \in {200, 201} /\ a.id = req[q].id
          BY <4>3 DEF Answered
        <5>. QED
          BY <1>1, <1>3, <4>2, <5>1, <5>2 DEF Owed
      <4>4. CASE Enqueue(q)
        <5>1. accepted' = accepted /\ req'[q].id = req[q].id
          BY <4>2, <4>4, HandlerStep DEF Enqueue, Handler
        <5>. QED
          BY <1>1, <1>3, <4>2, <4>4, <5>1 DEF Owed
      <4>5. CASE Handler(q) /\ ~ Enqueue(q)
        <5>1. /\ accepted' = accepted
              /\ req'[q].pc = "answer" => req'[q].status \in {409, 500}
          BY <4>2, <4>5 DEF Handler, Lookup, Open, Write, WriteTmp, Replace, StoreFails, Goto,
                            Answer, ReqType, Requests
        <5>. QED
          BY <1>1, <1>3, <4>2, <5>1 DEF Owed
      <4>. QED
        BY <4>1, <4>3, <4>4, <4>5
    <3>. QED
      BY <3>1, <3>2, <3>3, <3>4, NextCases, WorkerFrame DEF Start
  <2>2. req[p] \in Requests /\ req[p].pc = "enqueue" /\ up = TRUE
    BY <2>1, RequestStep DEF Handler, Enqueue
  <2>3. metadata[i] # NoMeta /\ metadata' = metadata
    BY <2>1, <2>2 DEF StoreInv, Enqueue, disk
  <2>4. queue \in Seq(Id) /\ queue' = Append(queue, i) /\ up' = TRUE
    BY <2>1, <2>2 DEF Enqueue, WorkType
  <2>5. Len(queue') \in 1 .. Len(queue') /\ queue'[Len(queue')] = i
    BY <2>4
  <2>. QED
    BY <2>3, <2>4, <2>5 DEF Tracked
<1>. QED
  BY <1>2, <1>3

-----------------------------------------------------------------------------
(* The receiver starts with nothing.                                       *)
LEMMA InvInit ==
    ASSUME ReceiverAssumption, Init
    PROVE  Inv
<1>. USE DEF Init, ReceiverInit
<1>1. 0 \in Times /\ Nothing \in Files
  BY DEF ReceiverAssumption, Times, Files
<1>2. ReqType
  BY DEF ReqType
<1>3. DiskType
  BY <1>1 DEF DiskType, Metadata
<1>4. ResultType
  BY <1>1 DEF ResultType, ReceiverAssumption
<1>5. WorkType
  <2>1. queue \in Seq(Id)
    OBVIOUS
  <2>2. up \in BOOLEAN /\ up # FALSE /\ accepted = {} /\ dropped = {} /\ worker = Idle
    BY Zenon
  <2>. QED
    BY <2>1, <2>2 DEF WorkType
<1>6. Looking = {}
  BY DEF Looking, Free
<1>7. ClockInv
  BY <1>6, FS_EmptySet DEF ClockInv, ReceiverAssumption
<1>8. StoreInv
  BY DEF StoreInv, Storing, Free
<1>9. TrackInv
  BY DEF TrackInv, Owed, Free
<1>10. NoteInv
  BY DEF NoteInv, Idle
<1>11. DoneInv
  BY DEF DoneInv
<1>. QED
  BY <1>2, <1>3, <1>4, <1>5, <1>7, <1>8, <1>9, <1>10, <1>11 DEF Inv

(* No step leaves the invariant.                                           *)
LEMMA InvNext ==
    ASSUME ReceiverAssumption, Inv, [Next]_receiverVars
    PROVE  Inv'
BY ReqTypeNext, DiskTypeNext, ResultTypeNext, WorkTypeNext, ClockNext, StoreNext, TrackNext,
   NoteNext, DoneNext DEF Inv

(* The inductive invariant.                                                *)
THEOREM Invariant == Spec => []Inv
<1>1. Init => Inv
  BY InvInit, ReceiverAssumption
<1>2. Inv /\ [Next]_receiverVars => Inv'
  BY InvNext, ReceiverAssumption
<1>. QED
  BY <1>1, <1>2, PTL DEF Spec

(* The receiver's state keeps its types, times are never reused, and what  *)
(* the worker handles has been stored.                                     *)
THEOREM TypeCorrect == Spec => []TypeOK
<1>1. ASSUME Inv PROVE TypeOK
  <2>0. 0 \in Times /\ Nothing \in Files
    BY ReceiverAssumption DEF ReceiverAssumption, Times, Files
  <2>1. \A r \in Request : req[r] = Free \/ req[r] \in Requests
    BY <1>1 DEF Inv, ReqType
  <2>2. Metadata \subseteq Metas
    BY <2>0 DEF Metadata, Metas, NoMeta, Files
  <2>3. /\ recordings \in [Id -> Files]
        /\ forgotten \in [metadata : SUBSET Id, transcript : SUBSET Id, note : SUBSET Id]
        /\ metadata \in [Id -> Metas] /\ tmp \in [Id -> Metas]
    BY <1>1, <2>2 DEF Inv, DiskType
  <2>4. {NoMeta} \cup [data : Files \ {Nothing}, at : Times \ {0}] \subseteq Metas
    BY <2>0 DEF Metas, NoMeta
  <2>5. /\ transcripts \in [Id -> Files \ Silent] /\ notes \in [Id -> Metas]
        /\ done \subseteq Id /\ unheard \subseteq Id
        /\ notebook \subseteq [id : Id, at : Times \ {0}, text : Files \ {Nothing}]
    BY <1>1, <2>4 DEF Inv, ResultType, Notes
  <2>6. clock \in Times
    <3>1. Cardinality(Looking) \in Nat
      BY <1>1, FS_CardinalityType DEF Inv, ClockInv
    <3>. QED
      BY <1>1, <3>1, ReceiverAssumption DEF Inv, ClockInv, Times, ReceiverAssumption
  <2>7. /\ queue \in Seq(Id) /\ worker \in {Idle} \cup Jobs /\ up \in BOOLEAN
        /\ up = FALSE => worker = Idle /\ queue = <<>> /\ req = [r \in Request |-> Free]
    BY <1>1, Zenon DEF Inv, WorkType
  <2>8. up = FALSE => \A r \in Request : req[r] = Free
    BY <2>7
  <2>9. ~ up => worker = Idle /\ queue = <<>> /\ \A r \in Request : req[r] = Free
    BY <2>7, <2>8, Zenon
  <2>. QED
    BY <2>1, <2>3, <2>5, <2>6, <2>7, <2>9, Zenon
       DEF TypeOK, Requests, Steps, Statuses, Jobs, Metas
<1>. QED
  BY <1>1, Invariant, PTL

(* Whatever the receiver answered as stored is done, dropped, in its       *)
(* hands, or found at the next start, unless a power loss took its         *)
(* metadata.                                                               *)
THEOREM NothingAcceptedIsForgotten == Spec => []AcceptedIsTracked
<1>1. ASSUME Inv PROVE AcceptedIsTracked
  <2>1. \A a \in accepted : a.id \in Id /\ Owed(a.id)
    BY <1>1 DEF Inv, WorkType, Owed
  <2>. QED
    BY <1>1, <2>1 DEF Inv, TrackInv, AcceptedIsTracked
<1>. QED
  BY <1>1, Invariant, PTL

(* Every note in the notebook is the transcript of its recording and the   *)
(* note on its disk, each of them unless a power loss took that file       *)
(* (app.py, transcribe_ogg, render_markdown and push_to_mynotebook).        *)
THEOREM NotesKeepTheirText == Spec => []NotesAreVerbatim
<1>1. ASSUME Inv PROVE NotesAreVerbatim
  <2>1. \A n \in notebook : n.id \in Id
    BY <1>1 DEF Inv, ResultType, Notes
  <2>. QED
    BY <1>1, <2>1 DEF Inv, NoteInv, NotesAreVerbatim
<1>. QED
  BY <1>1, Invariant, PTL

(* What is marked done is silent, or its transcript is in the notebook;    *)
(* the exceptions are what was found silent while it was torn, and what    *)
(* lost its metadata, or its transcript, with the power (app.py,           *)
(* process_recording_async).                                               *)
THEOREM DoneIsNoted == Spec => []DoneMeansNoted
<1>1. ASSUME Inv PROVE DoneMeansNoted
  <2>1. \A n \in notebook :
           n.id \in Id /\ (n.id \notin forgotten.transcript => n.text = transcripts[n.id])
    BY <1>1 DEF Inv, ResultType, Notes, NoteInv
  <2>. QED
    BY <1>1, <2>1 DEF Inv, DoneInv, DoneMeansNoted
<1>. QED
  BY <1>1, Invariant, PTL

-----------------------------------------------------------------------------
(* A set of numbers that is not empty has a least one.                     *)
LEMMA LeastNumber ==
    ASSUME NEW T \in SUBSET Nat, NEW t \in T
    PROVE  \E m \in T : \A k \in T : m <= k
<1>. DEFINE R == OpToRel(<, Nat)
<1>1. IsWellFoundedOn(R, Nat)
  BY NatLessThanWellFounded
<1>2. PICK m \in T : \A k \in T : ~ (<<k, m>> \in R)
  <2>. HIDE DEF R
  <2>. QED
    BY <1>1, WFMin
<1>3. \A j, k \in Nat : j < k => <<j, k>> \in R
  BY DEF OpToRel
<1>. HIDE DEF R
<1>4. \A k \in T : ~ (k < m)
  BY <1>2, <1>3
<1>. QED
  BY <1>4

(* Whatever is so of 0, and of a number when it is so of the one before.   *)
LEMMA FromZero ==
    ASSUME NEW N \in Nat, NEW S, 0 \in S, \A n \in 1 .. N : n - 1 \in S => n \in S
    PROVE  \A n \in 0 .. N : n \in S
<1>1. SUFFICES ASSUME NEW n0 \in (0 .. N) \ S PROVE FALSE
  OBVIOUS
<1>2. PICK n \in (0 .. N) \ S : \A k \in (0 .. N) \ S : n <= k
  <2>1. (0 .. N) \ S \in SUBSET Nat
    OBVIOUS
  <2>. QED
    BY <2>1, <1>1, LeastNumber
<1>3. n \in 1 .. N /\ n - 1 \in 0 .. N /\ ~ (n <= n - 1)
  BY <1>2
<1>. QED
  BY <1>2, <1>3

-----------------------------------------------------------------------------
(* Memos: the phone, the request and the server of MemoSync.               *)

(* What was typed are the first memos; what is on the phone was typed.     *)
Typed == {m \in Memo : texts[m] # "none"}
Parts == {"empty", "some", "all"}
TypedInv ==
    /\ texts \in [Memo -> Kind \cup {"none"}] /\ files \in [Memo -> Parts \cup {"none"}]
    /\ Phone!Newest \in Nat /\ Typed = 1 .. Phone!Newest
    /\ Phone!Pending \subseteq Typed /\ saved \subseteq Typed /\ early \subseteq Typed
    /\ ui \in {"idle", "write", "enqueue"} /\ open \in BOOLEAN
    /\ ui # "idle" => open = TRUE /\ Phone!Newest \in Typed

(* A sync has listed files that are there, and uploads one of them.        *)
SyncInv ==
    /\ tasks \in Nat /\ work \in {"none", "enqueued", "running", "returned"}
    /\ holder \in {"none", "task", "worker"}
    /\ holder = "task" => tasks > 0
    /\ holder = "worker" => work = "running"
    /\ todo \subseteq Phone!Pending
    /\ cur # 0 => cur \in Phone!Pending /\ cur \notin todo /\ body \in Parts
    /\ cur = 0 => body = "none"
    /\ holder = "none" => cur = 0 /\ todo = {}

(* A memo that is saved and was not read before is whole, in the file and  *)
(* in what was read of it.                                                 *)
WholeInv ==
    /\ \A m \in saved \ early : m \in Phone!Pending => files[m] = "all"
    /\ cur \in saved \ early => body = "all"
    /\ ui = "write" => /\ Phone!Newest \notin saved
                       /\ Phone!Newest \notin early =>
                             Phone!Newest \in Phone!Pending /\ cur # Phone!Newest
    /\ ui = "enqueue" => Phone!Newest \in saved

(* A worker has listed, or has before it, whatever is saved and waits; one *)
(* that has returned has left nothing.                                     *)
ListInv ==
    /\ skipped \subseteq saved
    /\ holder = "worker" =>
        \A m \in (saved \cap Phone!Pending) \ skipped :
            m \in todo \cup {cur} \/ (ui = "enqueue" /\ m = Phone!Newest)
    /\ work = "returned" =>
        \A m \in (saved \cap Phone!Pending) \ skipped : ui = "enqueue" /\ m = Phone!Newest

(* What a request carries is some of a text; one that is answered as kept   *)
(* is in the metadata, and what has metadata is in the memo's file.         *)
Answers == {0, 200, 201, 400, 409, 500}
Carried == [kind : Kind, part : Parts]
Posts == [pc : {"check", "answer"}, id : Memo, body : Carried, status : Answers]
Stored == post.status \in {200, 201} => memo_metadata[post.id] = post.body
MacInv ==
    /\ post = Mac!NoPost \/ post \in Posts
    /\ Stored
    /\ memos \in [Memo -> Carried \cup {Mac!NoBody}]
    /\ memo_metadata \in [Memo -> Carried \cup {Mac!NoBody}]
    /\ \A m \in Memo : memo_metadata[m] # Mac!NoBody => memos[m] = memo_metadata[m]
    /\ memo_notes \in [Memo -> Carried \cup {Mac!NoBody}] /\ memo_done \subseteq Memo
    /\ memo_queue \subseteq Memo /\ memo_dropped \subseteq Memo /\ serving \in BOOLEAN
    /\ serving = FALSE => post = Mac!NoPost /\ memo_queue = {}

(* The request the phone waits for carries what it read.                   *)
WaitInv ==
    /\ waiting \in BOOLEAN /\ upsets \in 0 .. MaxUpsets
    /\ waiting = TRUE => /\ cur # 0 /\ post \in Posts /\ post.id = cur
                         /\ post.body = [kind |-> texts[cur], part |-> body]

PhoneInv == TypedInv /\ SyncInv /\ WholeInv /\ ListInv /\ RetryIsScheduled

-----------------------------------------------------------------------------
(* No kind of text is the mark of a memo that was never typed.             *)
LEMMA NoneIsNoKind == "none" \notin Kind
BY MemoAssumption DEF MemoAssumption

(* No memo is 0, the mark of none.                                         *)
LEMMA NoMemoIsZero == Memo \subseteq Nat \ {0}
BY MemoAssumption DEF MemoAssumption

(* The newest memo is as many as were typed.                               *)
LEMMA NewestOf == Phone!Newest = Cardinality(Typed)
BY DEF Phone!Newest, Typed, Phone!Cardinality, Cardinality

(* The same after a step: a definition of an instance is not primed by     *)
(* citing it.                                                              *)
LEMMA NewestNext == Phone!Newest' = Cardinality(Typed')
BY DEF Phone!Newest, Typed, Phone!Cardinality, Cardinality

(* What was typed is known from the texts,                                 *)
LEMMA TypedStays ==
    ASSUME texts' = texts
    PROVE  Typed' = Typed /\ Phone!Newest' = Phone!Newest
<1>1. Typed' = Typed
  BY DEF Typed
<1>2. Phone!Newest' = Phone!Newest
  BY DEF Phone!Newest
<1>. QED
  BY <1>1, <1>2

(* and what waits from the files.                                          *)
LEMMA PendingStays ==
    ASSUME files' = files
    PROVE  Phone!Pending' = Phone!Pending
BY DEF Phone!Pending

(* Both are memos.                                                         *)
LEMMA PendingMemos == Phone!Pending \subseteq Memo /\ Typed \subseteq Memo
BY DEF Phone!Pending, Typed

(* One file is written: it waits, and the others are what they were.       *)
LEMMA FileSet ==
    ASSUME TypedInv, NEW m \in Memo, NEW p \in Parts, files' = [files EXCEPT ![m] = p]
    PROVE  /\ files' \in [Memo -> Parts \cup {"none"}]
           /\ Phone!Pending' = Phone!Pending \cup {m}
           /\ files'[m] = p /\ \A k \in Memo \ {m} : files'[k] = files[k]
BY DEF TypedInv, Phone!Pending, Parts

-----------------------------------------------------------------------------
(* onResume posts one more sync task.                                      *)
LEMMA ResumeKeeps ==
    ASSUME PhoneInv, Phone!Resume
    PROVE  PhoneInv'
<1>1. UNCHANGED <<texts, saved, ui, files, tasks, holder, todo, cur, body, early>>
      /\ open' = TRUE /\ ui = "idle"
  BY DEF Phone!Resume, Phone!capture, Phone!syncing
<1>2. work' = (IF work = "none" THEN "enqueued" ELSE work)
      /\ skipped' = (IF work = "none" THEN {} ELSE skipped)
  BY DEF Phone!Resume, Phone!Keep
<1>3. Typed' = Typed /\ Phone!Newest' = Phone!Newest /\ Phone!Pending' = Phone!Pending
  BY <1>1, TypedStays, PendingStays
<1>4. TypedInv'
  BY <1>1, <1>3 DEF PhoneInv, TypedInv
<1>5. SyncInv'
  BY <1>1, <1>2, <1>3 DEF PhoneInv, SyncInv
<1>6. WholeInv'
  BY <1>1, <1>3 DEF PhoneInv, WholeInv
<1>7. ListInv'
  BY <1>1, <1>2, <1>3 DEF PhoneInv, ListInv, SyncInv
<1>8. RetryIsScheduled'
  BY <1>1, <1>2, <1>3 DEF PhoneInv, RetryIsScheduled, SyncInv
<1>. QED
  BY <1>4, <1>5, <1>6, <1>7, <1>8 DEF PhoneInv

(* A memo is typed: no file and nothing that a sync holds is touched.      *)
LEMMA CaptureMemoKeeps ==
    ASSUME PhoneInv, Phone!CaptureMemo
    PROVE  /\ PhoneInv' /\ UNCHANGED <<saved, tasks, work, holder, todo, cur, body, early>>
           /\ \A m \in Typed : texts'[m] = texts[m]
           /\ Phone!Pending \subseteq Phone!Pending'
<1>. DEFINE n == Phone!Newest + 1
<1>1. UNCHANGED <<saved, open, tasks, work, holder, todo, cur, body, skipped, early>>
      /\ ui = "idle" /\ ui' = "write" /\ open = TRUE
  <2>1. UNCHANGED <<saved, open, tasks, work, holder, todo, cur, body, skipped, early>>
        /\ ui = "idle" /\ ui' = "write" /\ open
    BY DEF Phone!CaptureMemo, Phone!syncing
  <2>2. open \in BOOLEAN
    BY DEF PhoneInv, TypedInv
  <2>. QED
    BY <2>1, <2>2, Zenon
<1>2. n \in Memo /\ files' = [files EXCEPT ![n] = "empty"]
  BY DEF Phone!CaptureMemo
<1>3. PICK k \in Kind : texts' = [texts EXCEPT ![n] = k]
  BY DEF Phone!CaptureMemo
<1>. HIDE DEF n
<1>4. n \in Nat \ {0} /\ n = Phone!Newest + 1 /\ Phone!Newest \in Nat /\ n \notin Typed
  BY <1>2, NoMemoIsZero DEF n, PhoneInv, TypedInv
<1>5. /\ texts' \in [Memo -> Kind \cup {"none"}] /\ Typed' = Typed \cup {n}
      /\ texts'[n] = k /\ \A m \in Memo \ {n} : texts'[m] = texts[m]
  BY <1>2, <1>3, NoneIsNoKind DEF PhoneInv, TypedInv, Typed
<1>6. Typed' = 1 .. n
  BY <1>4, <1>5 DEF PhoneInv, TypedInv
<1>7. Phone!Newest' = n
  <2>1. Cardinality(1 .. n) = n
    BY <1>4, FS_Interval
  <2>. QED
    BY <2>1, <1>6, NewestNext
<1>8. /\ files' \in [Memo -> Parts \cup {"none"}]
      /\ Phone!Pending' = Phone!Pending \cup {n}
      /\ files'[n] = "empty" /\ \A m \in Memo \ {n} : files'[m] = files[m]
  BY <1>2, FileSet DEF PhoneInv, Parts
<1>9. /\ n \notin saved /\ n \notin early /\ n \notin Phone!Pending /\ cur # n /\ cur' # n
  BY <1>4, <1>1 DEF PhoneInv, TypedInv, SyncInv
<1>10. TypedInv'
  BY <1>1, <1>4, <1>5, <1>6, <1>7, <1>8, <1>2 DEF PhoneInv, TypedInv
<1>11. SyncInv'
  BY <1>1, <1>8 DEF PhoneInv, SyncInv
<1>12. WholeInv'
  <2>1. \A m \in saved : m \in Memo \ {n}
    BY <1>9, PendingMemos DEF PhoneInv, TypedInv
  <2>2. \A m \in saved' \ early' : m \in Phone!Pending' => files'[m] = "all"
    BY <2>1, <1>1, <1>8 DEF PhoneInv, WholeInv
  <2>. QED
    BY <2>2, <1>1, <1>7, <1>8, <1>9 DEF PhoneInv, WholeInv
<1>13. (saved \cap Phone!Pending) \ skipped = ((saved \cap Phone!Pending) \ skipped)'
  BY <1>1, <1>8, <1>9
<1>14. ListInv'
  BY <1>1, <1>13 DEF PhoneInv, ListInv
<1>15. RetryIsScheduled'
  BY <1>1, <1>13 DEF PhoneInv, RetryIsScheduled
<1>16. \A m \in Typed : texts'[m] = texts[m]
  BY <1>5, <1>4 DEF Typed
<1>. QED
  BY <1>1, <1>8, <1>10, <1>11, <1>12, <1>14, <1>15, <1>16 DEF PhoneInv

(* savePending writes one more part of a file, which no sync has read      *)
(* before the whole is there, but as an early one.                         *)
LEMMA WritePartKeeps ==
    ASSUME PhoneInv, Phone!WritePart
    PROVE  /\ PhoneInv' /\ UNCHANGED <<texts, saved, tasks, work, holder, todo, cur, body, early>>
           /\ Phone!Pending \subseteq Phone!Pending'
<1>1. /\ UNCHANGED <<texts, saved, ui, open, tasks, work, holder, todo, cur, body, skipped, early>>
      /\ ui = "write" /\ files[Phone!Newest] = "empty"
      /\ files' = [files EXCEPT ![Phone!Newest] = "some"]
  BY DEF Phone!WritePart, Phone!capture, Phone!syncing
<1>2. Typed' = Typed /\ Phone!Newest' = Phone!Newest
  BY <1>1, TypedStays
<1>3. Phone!Newest \in Memo /\ Phone!Newest \in Phone!Pending
  BY <1>1, PendingMemos DEF PhoneInv, TypedInv, Phone!Pending
<1>4. /\ files' \in [Memo -> Parts \cup {"none"}]
      /\ Phone!Pending' = Phone!Pending
      /\ \A m \in Memo \ {Phone!Newest} : files'[m] = files[m]
  <2>1. /\ files' \in [Memo -> Parts \cup {"none"}]
        /\ Phone!Pending' = Phone!Pending \cup {Phone!Newest}
        /\ \A m \in Memo \ {Phone!Newest} : files'[m] = files[m]
    BY <1>1, <1>3, FileSet DEF PhoneInv, Parts
  <2>. QED
    BY <2>1, <1>3
<1>5. TypedInv'
  BY <1>1, <1>2, <1>4 DEF PhoneInv, TypedInv
<1>6. SyncInv'
  BY <1>1, <1>4 DEF PhoneInv, SyncInv
<1>7. WholeInv'
  <2>1. \A m \in saved : m \in Memo \ {Phone!Newest}
    BY <1>1, PendingMemos DEF PhoneInv, TypedInv, WholeInv
  <2>2. \A m \in saved' \ early' : m \in Phone!Pending' => files'[m] = "all"
    BY <2>1, <1>1, <1>4 DEF PhoneInv, WholeInv
  <2>. QED
    BY <2>2, <1>1, <1>2, <1>4 DEF PhoneInv, WholeInv
<1>8. ListInv'
  BY <1>1, <1>2, <1>4 DEF PhoneInv, ListInv
<1>9. RetryIsScheduled'
  BY <1>1, <1>2, <1>4 DEF PhoneInv, RetryIsScheduled
<1>. QED
  BY <1>1, <1>4, <1>5, <1>6, <1>7, <1>8, <1>9 DEF PhoneInv

(* The file is whole and forced to the disk: the memo is saved.            *)
LEMMA SaveDoneKeeps ==
    ASSUME PhoneInv, Phone!SaveDone
    PROVE  /\ PhoneInv' /\ UNCHANGED <<texts, tasks, work, holder, todo, cur, body, early>>
           /\ Phone!Pending' = Phone!Pending
           /\ \A m \in saved' \ early : m \in saved \/ m \in Phone!Pending
<1>1. /\ UNCHANGED <<texts, open, tasks, work, holder, todo, cur, body, skipped, early>>
      /\ ui = "write" /\ ui' = "enqueue" /\ saved' = saved \cup {Phone!Newest}
  BY DEF Phone!SaveDone, Phone!syncing
<1>2. Typed' = Typed /\ Phone!Newest' = Phone!Newest
  BY <1>1, TypedStays
<1>3. Phone!Newest \in Typed /\ Phone!Newest \in Memo
  BY <1>1, PendingMemos DEF PhoneInv, TypedInv
<1>4. /\ files' \in [Memo -> Parts \cup {"none"}] /\ Phone!Pending' = Phone!Pending
      /\ \A m \in Memo \ {Phone!Newest} : files'[m] = files[m]
      /\ Phone!Newest \in Phone!Pending => files'[Phone!Newest] = "all"
  <2>1. CASE Phone!Newest \in Phone!Pending
    <3>1. files' = [files EXCEPT ![Phone!Newest] = "all"]
      BY <2>1 DEF Phone!SaveDone
    <3>2. /\ files' \in [Memo -> Parts \cup {"none"}]
          /\ Phone!Pending' = Phone!Pending \cup {Phone!Newest} /\ files'[Phone!Newest] = "all"
          /\ \A m \in Memo \ {Phone!Newest} : files'[m] = files[m]
      BY <3>1, <1>3, FileSet DEF PhoneInv, Parts
    <3>. QED
      BY <2>1, <3>2
  <2>2. CASE Phone!Newest \notin Phone!Pending
    <3>1. files' = files
      BY <2>2 DEF Phone!SaveDone
    <3>. QED
      BY <2>2, <3>1, PendingStays DEF PhoneInv, TypedInv
  <2>. QED
    BY <2>1, <2>2
<1>5. TypedInv'
  BY <1>1, <1>2, <1>3, <1>4 DEF PhoneInv, TypedInv
<1>6. SyncInv'
  BY <1>1, <1>4 DEF PhoneInv, SyncInv
<1>7. WholeInv'
  <2>1. \A m \in saved' \ early' : m \in Phone!Pending' => files'[m] = "all"
    BY <1>1, <1>3, <1>4, PendingMemos DEF PhoneInv, TypedInv, WholeInv
  <2>2. cur' \in saved' \ early' => body' = "all"
    BY <1>1 DEF PhoneInv, WholeInv
  <2>. QED
    BY <2>1, <2>2, <1>1, <1>2 DEF PhoneInv, WholeInv
<1>8. ListInv'
  BY <1>1, <1>2, <1>4 DEF PhoneInv, ListInv
<1>9. RetryIsScheduled'
  BY <1>1, <1>2, <1>4 DEF PhoneInv, RetryIsScheduled
<1>10. \A m \in saved' \ early : m \in saved \/ m \in Phone!Pending
  BY <1>1 DEF PhoneInv, WholeInv
<1>. QED
  BY <1>1, <1>4, <1>5, <1>6, <1>7, <1>8, <1>9, <1>10 DEF PhoneInv

(* The write fails, and nothing is saved.                                  *)
LEMMA SaveFailsKeeps ==
    ASSUME PhoneInv, Phone!SaveFails
    PROVE  /\ PhoneInv'
           /\ UNCHANGED <<texts, saved, files, tasks, work, holder, todo, cur, body, early>>
<1>1. /\ UNCHANGED <<texts, saved, files, open, tasks, work, holder, todo, cur, body, skipped,
                     early>>
      /\ ui = "write" /\ ui' = "idle"
  BY DEF Phone!SaveFails, Phone!syncing
<1>2. Typed' = Typed /\ Phone!Newest' = Phone!Newest /\ Phone!Pending' = Phone!Pending
  BY <1>1, TypedStays, PendingStays
<1>3. TypedInv'
  BY <1>1, <1>2 DEF PhoneInv, TypedInv
<1>4. SyncInv'
  BY <1>1, <1>2 DEF PhoneInv, SyncInv
<1>5. WholeInv'
  BY <1>1, <1>2 DEF PhoneInv, WholeInv
<1>6. ListInv'
  BY <1>1, <1>2 DEF PhoneInv, ListInv
<1>7. RetryIsScheduled'
  BY <1>1, <1>2 DEF PhoneInv, RetryIsScheduled
<1>. QED
  BY <1>1, <1>3, <1>4, <1>5, <1>6, <1>7 DEF PhoneInv

(* A saved memo enqueues the work and posts a sync task.                   *)
LEMMA RequestSyncKeeps ==
    ASSUME PhoneInv, Phone!RequestSync
    PROVE  PhoneInv' /\ UNCHANGED <<texts, saved, files, holder, todo, cur, body, early>>
<1>1. /\ UNCHANGED <<texts, saved, files, open, holder, todo, cur, body, early>>
      /\ ui = "enqueue" /\ ui' = "idle" /\ tasks' = tasks + 1
      /\ work' = (IF work = "none" THEN "enqueued" ELSE work)
  BY DEF Phone!RequestSync, Phone!syncing, Phone!Keep
<1>2. Typed' = Typed /\ Phone!Newest' = Phone!Newest /\ Phone!Pending' = Phone!Pending
  BY <1>1, TypedStays, PendingStays
<1>3. /\ work = "none" => skipped' = {}
      /\ work # "none" => skipped \subseteq skipped' /\ skipped' \subseteq saved
      /\ work # "none" /\ holder = "worker" /\ Phone!Newest \in Phone!Pending
         /\ Phone!Newest \notin todo \cup {cur} => Phone!Newest \in skipped'
      /\ work = "returned" /\ Phone!Newest \in Phone!Pending => Phone!Newest \in skipped'
  BY <1>1 DEF Phone!RequestSync, Phone!Overlooked, PhoneInv, ListInv, WholeInv
<1>4. TypedInv'
  BY <1>1, <1>2 DEF PhoneInv, TypedInv
<1>5. SyncInv'
  BY <1>1, <1>2 DEF PhoneInv, SyncInv
<1>6. WholeInv'
  BY <1>1, <1>2 DEF PhoneInv, WholeInv
<1>7. ListInv'
  <2>1. skipped' \subseteq saved'
    BY <1>1, <1>3
  <2>2. ASSUME holder = "worker", NEW m \in (saved \cap Phone!Pending) \ skipped'
        PROVE  m \in todo \cup {cur}
    <3>1. work # "none"
      BY <2>2 DEF PhoneInv, SyncInv
    <3>. QED
      BY <2>2, <3>1, <1>3 DEF PhoneInv, ListInv
  <2>3. ASSUME work = "returned", NEW m \in (saved \cap Phone!Pending) \ skipped'
        PROVE  FALSE
    BY <2>3, <1>3 DEF PhoneInv, ListInv
  <2>. QED
    BY <2>1, <2>2, <2>3, <1>1, <1>2 DEF ListInv
<1>8. RetryIsScheduled'
  BY <1>1, <1>2 DEF PhoneInv, RetryIsScheduled, SyncInv
<1>. QED
  BY <1>1, <1>4, <1>5, <1>6, <1>7, <1>8 DEF PhoneInv

(* The activity closes, and its tasks go with it.                          *)
LEMMA DestroyKeeps ==
    ASSUME PhoneInv, Phone!Destroy
    PROVE  /\ PhoneInv'
           /\ UNCHANGED <<texts, saved, files, work, holder, todo, cur, body, early>>
<1>1. /\ UNCHANGED <<texts, saved, files, ui, work, holder, todo, cur, body, skipped, early>>
      /\ ui = "idle" /\ open' = FALSE
      /\ tasks' \in (IF tasks = 0 THEN {0} ELSE 1 .. tasks)
  BY DEF Phone!Destroy, Phone!syncing, Phone!capture
<1>2. Typed' = Typed /\ Phone!Newest' = Phone!Newest /\ Phone!Pending' = Phone!Pending
  BY <1>1, TypedStays, PendingStays
<1>3. TypedInv'
  BY <1>1, <1>2 DEF PhoneInv, TypedInv
<1>4. tasks' \in Nat /\ (tasks > 0 => tasks' > 0)
  BY <1>1 DEF PhoneInv, SyncInv
<1>5. SyncInv'
  BY <1>1, <1>2, <1>4 DEF PhoneInv, SyncInv
<1>6. WholeInv'
  BY <1>1, <1>2 DEF PhoneInv, WholeInv
<1>7. ListInv'
  BY <1>1, <1>2 DEF PhoneInv, ListInv
<1>8. RetryIsScheduled'
  BY <1>1, <1>2 DEF PhoneInv, RetryIsScheduled
<1>. QED
  BY <1>1, <1>3, <1>5, <1>6, <1>7, <1>8 DEF PhoneInv

-----------------------------------------------------------------------------
(* WorkManager starts the worker, which asks for another run if one is     *)
(* wanted meanwhile.                                                       *)
LEMMA WorkerRunsKeeps ==
    ASSUME PhoneInv, Phone!WorkerRuns
    PROVE  PhoneInv' /\ UNCHANGED <<texts, saved, files, holder, todo, cur, body, early>>
<1>1. /\ UNCHANGED <<texts, saved, ui, files, open, tasks, holder, todo, cur, body, skipped, early>>
      /\ work = "enqueued" /\ work' = "running"
  BY DEF Phone!WorkerRuns, Phone!syncing, Phone!capture
<1>2. Typed' = Typed /\ Phone!Newest' = Phone!Newest /\ Phone!Pending' = Phone!Pending
  BY <1>1, TypedStays, PendingStays
<1>3. TypedInv'
  BY <1>1, <1>2 DEF PhoneInv, TypedInv
<1>4. SyncInv'
  BY <1>1, <1>2 DEF PhoneInv, SyncInv
<1>5. WholeInv'
  BY <1>1, <1>2 DEF PhoneInv, WholeInv
<1>6. ListInv'
  BY <1>1, <1>2 DEF PhoneInv, ListInv
<1>7. RetryIsScheduled'
  BY <1>1, <1>2 DEF PhoneInv, RetryIsScheduled
<1>. QED
  BY <1>1, <1>3, <1>4, <1>5, <1>6, <1>7 DEF PhoneInv

(* It is told that the worker succeeded: nothing was left.                 *)
LEMMA WorkerSucceedsKeeps ==
    ASSUME PhoneInv, Phone!WorkerSucceeds
    PROVE  PhoneInv' /\ UNCHANGED <<texts, saved, files, holder, todo, cur, body, early>>
<1>1. /\ UNCHANGED <<texts, saved, ui, files, open, tasks, holder, todo, cur, body, skipped, early>>
      /\ work = "returned" /\ work' = "none"
  BY DEF Phone!WorkerSucceeds, Phone!syncing, Phone!capture
<1>2. Typed' = Typed /\ Phone!Newest' = Phone!Newest /\ Phone!Pending' = Phone!Pending
  BY <1>1, TypedStays, PendingStays
<1>3. TypedInv'
  BY <1>1, <1>2 DEF PhoneInv, TypedInv
<1>4. SyncInv'
  BY <1>1, <1>2 DEF PhoneInv, SyncInv
<1>5. WholeInv'
  BY <1>1, <1>2 DEF PhoneInv, WholeInv
<1>6. ListInv'
  BY <1>1, <1>2 DEF PhoneInv, ListInv
<1>7. RetryIsScheduled'
  BY <1>1, <1>2 DEF PhoneInv, ListInv, RetryIsScheduled
<1>. QED
  BY <1>1, <1>3, <1>4, <1>5, <1>6, <1>7 DEF PhoneInv

(* WorkManager stops the worker: the work stays enqueued.                  *)
LEMMA WorkerStoppedKeeps ==
    ASSUME PhoneInv, Phone!WorkerStopped
    PROVE  PhoneInv' /\ UNCHANGED <<texts, saved, files, todo, cur, body, early>>
<1>1. /\ UNCHANGED <<texts, saved, ui, files, open, todo, cur, body, early>>
      /\ work \in {"running", "returned"} /\ work' = "enqueued" /\ skipped' = {}
      /\ tasks' = (IF work = "running" THEN tasks + 1 ELSE tasks)
      /\ holder' = (IF holder = "worker" THEN "task" ELSE holder)
  BY DEF Phone!WorkerStopped, Phone!capture
<1>2. Typed' = Typed /\ Phone!Newest' = Phone!Newest /\ Phone!Pending' = Phone!Pending
  BY <1>1, TypedStays, PendingStays
<1>3. TypedInv'
  BY <1>1, <1>2 DEF PhoneInv, TypedInv
<1>4. SyncInv'
  BY <1>1, <1>2 DEF PhoneInv, SyncInv
<1>5. WholeInv'
  BY <1>1, <1>2 DEF PhoneInv, WholeInv
<1>6. ListInv'
  BY <1>1, <1>2 DEF PhoneInv, ListInv, SyncInv
<1>7. RetryIsScheduled'
  BY <1>1, <1>2 DEF RetryIsScheduled
<1>. QED
  BY <1>1, <1>3, <1>4, <1>5, <1>6, <1>7 DEF PhoneInv

(* A sync lists what waits.                                                *)
LEMMA SyncBeginKeeps ==
    ASSUME PhoneInv, Phone!SyncBegin
    PROVE  PhoneInv' /\ cur = 0 /\ UNCHANGED <<texts, saved, files, work, early>>
<1>1. /\ UNCHANGED <<texts, saved, ui, files, open, tasks, work, skipped, early>>
      /\ holder = "none"
      /\ (tasks > 0 /\ holder' = "task") \/ (work = "running" /\ holder' = "worker")
      /\ todo' = Phone!Pending /\ cur' = 0 /\ body' = "none"
  BY DEF Phone!SyncBegin, Phone!capture
<1>2. Typed' = Typed /\ Phone!Newest' = Phone!Newest /\ Phone!Pending' = Phone!Pending
  BY <1>1, TypedStays, PendingStays
<1>3. TypedInv'
  BY <1>1, <1>2 DEF PhoneInv, TypedInv
<1>4. SyncInv' /\ cur = 0
  BY <1>1, <1>2 DEF PhoneInv, SyncInv
<1>5. 0 \notin saved /\ 0 \notin Phone!Pending
  BY PendingMemos, NoMemoIsZero DEF PhoneInv, TypedInv
<1>6. WholeInv'
  BY <1>1, <1>2, <1>4, <1>5 DEF PhoneInv, WholeInv
<1>7. ListInv'
  BY <1>1, <1>2 DEF PhoneInv, ListInv
<1>8. RetryIsScheduled'
  BY <1>1, <1>2 DEF PhoneInv, RetryIsScheduled
<1>. QED
  BY <1>1, <1>3, <1>4, <1>6, <1>7, <1>8 DEF PhoneInv

(* The oldest of the listed memos is one of them.                          *)
LEMMA OldestIsListed ==
    ASSUME NEW T \in SUBSET Nat, T # {}
    PROVE  Phone!Min(T) \in T
<1>1. PICK m \in T : \A k \in T : m <= k
  BY LeastNumber
<1>. QED
  BY <1>1 DEF Phone!Min

(* A sync reads the oldest memo of its list: as early, if it was still     *)
(* being written.                                                          *)
LEMMA ReadMemoKeeps ==
    ASSUME PhoneInv, Phone!ReadMemo
    PROVE  /\ PhoneInv' /\ cur = 0 /\ UNCHANGED <<texts, saved, files, work>>
           /\ early \subseteq early'
<1>1. /\ UNCHANGED <<texts, saved, ui, files, open, tasks, work, holder, skipped>>
      /\ holder # "none" /\ cur = 0 /\ todo # {}
      /\ cur' = Phone!Min(todo) /\ todo' = todo \ {cur'} /\ body' = files[cur']
      /\ early' = (IF ui = "write" /\ cur' = Phone!Newest THEN early \cup {Phone!Newest} ELSE early)
  BY DEF Phone!ReadMemo, Phone!capture
<1>2. Typed' = Typed /\ Phone!Newest' = Phone!Newest /\ Phone!Pending' = Phone!Pending
  BY <1>1, TypedStays, PendingStays
<1>3. cur' \in todo /\ cur' \in Phone!Pending /\ cur' \in Memo
  <2>1. todo \subseteq Phone!Pending /\ todo \subseteq Nat /\ todo \subseteq Memo
    BY PendingMemos, NoMemoIsZero DEF PhoneInv, SyncInv
  <2>. QED
    BY <2>1, <1>1, OldestIsListed
<1>4. cur' # 0 /\ body' \in Parts
  BY <1>1, <1>3, NoMemoIsZero DEF PhoneInv, TypedInv, Phone!Pending
<1>5. TypedInv'
  BY <1>1, <1>2 DEF PhoneInv, TypedInv
<1>6. SyncInv'
  BY <1>1, <1>2, <1>3, <1>4 DEF PhoneInv, SyncInv
<1>7. early \subseteq early' /\ early' \subseteq early \cup {Phone!Newest}
      /\ (ui = "write" /\ cur' = Phone!Newest => Phone!Newest \in early')
  BY <1>1
<1>8. WholeInv'
  <2>1. cur' \in saved \ early' => body' = "all"
    BY <1>1, <1>3, <1>7 DEF PhoneInv, WholeInv
  <2>2. \A m \in saved \ early' : m \in Phone!Pending => files[m] = "all"
    BY <1>7 DEF PhoneInv, WholeInv
  <2>3. ui = "write" => /\ Phone!Newest \notin saved
                        /\ Phone!Newest \notin early' =>
                              Phone!Newest \in Phone!Pending /\ cur' # Phone!Newest
    BY <1>7 DEF PhoneInv, WholeInv
  <2>. QED
    BY <2>1, <2>2, <2>3, <1>1, <1>2 DEF PhoneInv, WholeInv
<1>9. ListInv'
  <2>1. \A m \in todo \cup {cur} : m \in todo' \cup {cur'} \/ m = 0
    BY <1>1
  <2>2. 0 \notin saved
    BY PendingMemos, NoMemoIsZero DEF PhoneInv, TypedInv
  <2>. QED
    BY <2>1, <2>2, <1>1, <1>2 DEF PhoneInv, ListInv
<1>10. RetryIsScheduled'
  BY <1>1, <1>2 DEF PhoneInv, RetryIsScheduled
<1>. QED
  BY <1>1, <1>5, <1>6, <1>7, <1>8, <1>9, <1>10 DEF PhoneInv

(* The answer is 200 or 201: the file is deleted, and only this one.       *)
LEMMA UploadOkKeeps ==
    ASSUME PhoneInv, Phone!UploadOk
    PROVE  /\ PhoneInv' /\ cur \in Phone!Pending
           /\ UNCHANGED <<texts, saved, work, early>>
           /\ Phone!Pending' = Phone!Pending \ {cur}
<1>1. /\ UNCHANGED <<texts, saved, ui, open, tasks, work, holder, todo, skipped, early>>
      /\ cur # 0 /\ files' = [files EXCEPT ![cur] = "none"] /\ cur' = 0 /\ body' = "none"
  BY DEF Phone!UploadOk, Phone!capture
<1>2. Typed' = Typed /\ Phone!Newest' = Phone!Newest
  BY <1>1, TypedStays
<1>3. cur \in Phone!Pending /\ cur \notin todo /\ cur \in Memo
  BY <1>1, PendingMemos DEF PhoneInv, SyncInv
<1>4. /\ files' \in [Memo -> Parts \cup {"none"}] /\ Phone!Pending' = Phone!Pending \ {cur}
      /\ \A m \in Memo \ {cur} : files'[m] = files[m]
  BY <1>1, <1>3 DEF PhoneInv, TypedInv, Phone!Pending
<1>5. TypedInv'
  BY <1>1, <1>2, <1>4 DEF PhoneInv, TypedInv
<1>6. SyncInv'
  BY <1>1, <1>3, <1>4 DEF PhoneInv, SyncInv
<1>7. 0 \notin saved /\ (ui # "idle" => Phone!Newest # 0)
  BY PendingMemos, NoMemoIsZero DEF PhoneInv, TypedInv
<1>8. WholeInv'
  <2>1. \A m \in saved \ early : m \in Phone!Pending' => files'[m] = "all"
    BY <1>4, PendingMemos DEF PhoneInv, WholeInv
  <2>. QED
    BY <2>1, <1>1, <1>2, <1>4, <1>7 DEF PhoneInv, WholeInv
<1>9. ListInv'
  BY <1>1, <1>2, <1>4 DEF PhoneInv, ListInv
<1>10. RetryIsScheduled'
  BY <1>1, <1>2, <1>4 DEF PhoneInv, RetryIsScheduled
<1>. QED
  BY <1>1, <1>3, <1>4, <1>5, <1>6, <1>8, <1>9, <1>10 DEF PhoneInv

(* An upload fails, and the sync ends: the work is retried.                *)
LEMMA SyncFailsKeeps ==
    ASSUME PhoneInv, Phone!SyncFails
    PROVE  PhoneInv' /\ UNCHANGED <<texts, saved, files, early>>
<1>1. /\ UNCHANGED <<texts, saved, ui, files, open, early>>
      /\ holder # "none" /\ holder' = "none" /\ todo' = {} /\ cur' = 0 /\ body' = "none"
      /\ holder = "task" => tasks' = tasks - 1 /\ UNCHANGED <<work, skipped>>
      /\ holder # "task" => work' = "enqueued" /\ skipped' = {} /\ UNCHANGED tasks
  BY DEF Phone!SyncFails, Phone!Unlock, Phone!capture
<1>2. Typed' = Typed /\ Phone!Newest' = Phone!Newest /\ Phone!Pending' = Phone!Pending
  BY <1>1, TypedStays, PendingStays
<1>3. TypedInv'
  BY <1>1, <1>2 DEF PhoneInv, TypedInv
<1>4. SyncInv'
  BY <1>1, <1>2 DEF PhoneInv, SyncInv
<1>5. 0 \notin saved
  BY PendingMemos, NoMemoIsZero DEF PhoneInv, TypedInv
<1>6. WholeInv'
  BY <1>1, <1>2, <1>5 DEF PhoneInv, TypedInv, WholeInv
<1>7. ListInv'
  BY <1>1, <1>2 DEF PhoneInv, ListInv
<1>8. RetryIsScheduled'
  BY <1>1, <1>2 DEF PhoneInv, RetryIsScheduled
<1>. QED
  BY <1>1, <1>3, <1>4, <1>6, <1>7, <1>8 DEF PhoneInv

(* Nothing is left to upload: the worker returns when all that is saved    *)
(* was listed.                                                             *)
LEMMA SyncEndKeeps ==
    ASSUME PhoneInv, Phone!SyncEnd
    PROVE  PhoneInv' /\ cur = 0 /\ UNCHANGED <<texts, saved, files, early>>
<1>1. /\ UNCHANGED <<texts, saved, ui, files, open, skipped, early>>
      /\ holder # "none" /\ cur = 0 /\ todo = {}
      /\ holder' = "none" /\ todo' = {} /\ cur' = 0 /\ body' = "none"
      /\ holder = "task" => tasks' = tasks - 1 /\ UNCHANGED work
      /\ holder # "task" => work' = "returned" /\ UNCHANGED tasks
  BY DEF Phone!SyncEnd, Phone!Unlock, Phone!capture
<1>2. Typed' = Typed /\ Phone!Newest' = Phone!Newest /\ Phone!Pending' = Phone!Pending
  BY <1>1, TypedStays, PendingStays
<1>3. TypedInv'
  BY <1>1, <1>2 DEF PhoneInv, TypedInv
<1>4. SyncInv'
  BY <1>1, <1>2 DEF PhoneInv, SyncInv
<1>5. 0 \notin saved
  BY PendingMemos, NoMemoIsZero DEF PhoneInv, TypedInv
<1>6. WholeInv'
  BY <1>1, <1>2, <1>5 DEF PhoneInv, TypedInv, WholeInv
<1>7. ListInv'
  <2>1. CASE holder = "task"
    BY <2>1, <1>1, <1>2 DEF PhoneInv, ListInv
  <2>2. CASE holder = "worker"
    BY <2>2, <1>1, <1>2, <1>5 DEF PhoneInv, ListInv
  <2>. QED
    BY <2>1, <2>2, <1>1 DEF PhoneInv, SyncInv
<1>8. RetryIsScheduled'
  BY <1>1, <1>2 DEF PhoneInv, RetryIsScheduled
<1>. QED
  BY <1>1, <1>3, <1>4, <1>6, <1>7, <1>8 DEF PhoneInv

(* The process dies: what is on the flash and the enqueued work stay.      *)
LEMMA KillKeeps ==
    ASSUME PhoneInv, Phone!Kill
    PROVE  PhoneInv' /\ UNCHANGED <<texts, saved, files, early>>
<1>1. /\ UNCHANGED <<texts, saved, files, early>>
      /\ open' = FALSE /\ ui' = "idle" /\ tasks' = 0
      /\ holder' = "none" /\ todo' = {} /\ cur' = 0 /\ body' = "none"
      /\ work' = (IF work \in {"running", "returned"} THEN "enqueued" ELSE work)
      /\ skipped' = (IF work \in {"running", "returned"} THEN {}
                     ELSE IF work = "none" /\ ui = "enqueue" THEN skipped \cup {Phone!Newest}
                     ELSE skipped)
  BY DEF Phone!Kill, Phone!Unlock
<1>2. Typed' = Typed /\ Phone!Newest' = Phone!Newest /\ Phone!Pending' = Phone!Pending
  BY <1>1, TypedStays, PendingStays
<1>3. TypedInv'
  BY <1>1, <1>2 DEF PhoneInv, TypedInv
<1>4. SyncInv'
  BY <1>1, <1>2 DEF PhoneInv, SyncInv
<1>5. 0 \notin saved
  BY PendingMemos, NoMemoIsZero DEF PhoneInv, TypedInv
<1>6. WholeInv'
  BY <1>1, <1>2, <1>5 DEF PhoneInv, TypedInv, WholeInv
<1>7. ListInv'
  BY <1>1, <1>2 DEF PhoneInv, ListInv, WholeInv
<1>8. RetryIsScheduled'
  BY <1>1, <1>2 DEF PhoneInv, RetryIsScheduled
<1>. QED
  BY <1>1, <1>3, <1>4, <1>6, <1>7, <1>8 DEF PhoneInv

-----------------------------------------------------------------------------
(* What is stored stays.                                                   *)
Kept == \A m \in Memo : memo_metadata[m] # Mac!NoBody => memo_metadata'[m] = memo_metadata[m]

(* No request carries the mark of no body.                                 *)
LEMMA NothingIsCarried == Mac!NoBody \notin Carried
<1>1. ASSUME Mac!NoBody \in Carried PROVE FALSE
  <2>1. Mac!NoBody.kind \in Kind
    BY <1>1 DEF Carried
  <2>. QED
    BY <2>1, NoneIsNoKind DEF Mac!NoBody
<1>. QED
  BY <1>1

(* No request is no request of a memo.                                     *)
LEMMA NoPostIs ==
    /\ Mac!NoPost.pc = "free" /\ Mac!NoPost.status = 0 /\ Mac!NoPost.id = 0
    /\ Mac!NoPost \notin Posts
<1>1. Mac!NoPost.pc = "free" /\ Mac!NoPost.status = 0 /\ Mac!NoPost.id = 0
  BY DEF Mac!NoPost
<1>2. ASSUME Mac!NoPost \in Posts PROVE FALSE
  BY <1>1, <1>2 DEF Posts
<1>. QED
  BY <1>1, <1>2

(* An answer changes the state and the status of a request, nothing else.  *)
LEMMA AnswerIs ==
    ASSUME post \in Posts, NEW s \in Answers, Mac!Answer(s)
    PROVE  /\ post' \in Posts /\ post'.pc = "answer" /\ post'.status = s
           /\ post'.id = post.id /\ post'.body = post.body
BY DEF Posts, Mac!Answer

(* A request comes in, with what it carries.                               *)
LEMMA PostMemoKeeps ==
    ASSUME MacInv, NEW m \in Memo, NEW b \in Carried, Mac!PostMemo(m, b)
    PROVE  MacInv' /\ Kept /\ post' \in Posts /\ post'.id = m /\ post'.body = b
<1>1. /\ post' = [pc |-> "check", id |-> m, body |-> b, status |-> 0] /\ serving
      /\ UNCHANGED <<memos, memo_metadata, memo_notes, memo_done, memo_queue, serving,
                     memo_dropped>>
  BY DEF Mac!PostMemo, Mac!stored, Mac!results
<1>2. post' \in Posts /\ post'.id = m /\ post'.body = b /\ post'.status = 0
  BY <1>1 DEF Posts, Answers
<1>3. serving' = TRUE
  BY <1>1 DEF MacInv
<1>4. Stored'
  BY <1>2 DEF Stored
<1>5. MacInv'
  BY <1>1, <1>2, <1>3, <1>4 DEF MacInv
<1>. QED
  BY <1>1, <1>2, <1>5 DEF Kept

(* An answer that says nothing of the file                                 *)
LEMMA RefusalKeeps ==
    ASSUME MacInv, Mac!Reject \/ Mac!Conflict
    PROVE  MacInv' /\ Kept /\ post' \in Posts /\ UNCHANGED <<post.id, post.body>>
<1>1. /\ UNCHANGED <<memos, memo_metadata, memo_notes, memo_done, memo_queue, serving,
                     memo_dropped>>
      /\ post.pc = "check"
      /\ \E s \in {400, 409} : Mac!Answer(s)
  BY DEF Mac!Reject, Mac!Conflict, Mac!Accepted, Mac!stored, Mac!results
<1>2. post \in Posts
  BY <1>1, NoPostIs DEF MacInv
<1>3. PICK s \in {400, 409} : Mac!Answer(s)
  BY <1>1
<1>4. s \in Answers /\ s \notin {200, 201}
  BY <1>3 DEF Answers
<1>5. post' \in Posts /\ post'.status = s /\ post'.id = post.id /\ post'.body = post.body
  BY <1>2, <1>3, <1>4, AnswerIs
<1>8. Stored'
  BY <1>4, <1>5 DEF Stored
<1>6. serving # FALSE
  BY <1>2, NoPostIs DEF MacInv
<1>7. MacInv'
  BY <1>1, <1>5, <1>6, <1>8, ZenonT(30) DEF MacInv
<1>. QED
  BY <1>1, <1>5, <1>7 DEF Kept

(* The memo is there already: 200 when it is the same, 409 when it is      *)
(* another.                                                                *)
LEMMA DuplicateKeeps ==
    ASSUME MacInv, Mac!Duplicate
    PROVE  MacInv' /\ Kept /\ post' \in Posts /\ UNCHANGED <<post.id, post.body>>
<1>1. /\ UNCHANGED <<memos, memo_metadata, memo_notes, memo_done, serving, memo_dropped>>
      /\ post.pc = "check" /\ memo_metadata[post.id] = post.body
      /\ Mac!Answer(200)
      /\ memo_queue' = memo_queue \cup {post.id}
  BY DEF Mac!Duplicate, Mac!Accepted, Mac!stored, Mac!results
<1>2. post \in Posts
  BY <1>1, NoPostIs DEF MacInv
<1>3. 200 \in Answers
  BY DEF Answers
<1>4. post' \in Posts /\ post'.id = post.id /\ post'.body = post.body
  BY <1>1, <1>2, <1>3, AnswerIs
<1>5. post.id \in Memo
  BY <1>2 DEF Posts
<1>6. serving # FALSE
  BY <1>2, NoPostIs DEF MacInv
<1>7. MacInv'
  BY <1>1, <1>4, <1>5, <1>6 DEF MacInv, Stored
<1>. QED
  BY <1>1, <1>4, <1>7 DEF Kept

(* A memo without metadata is stored, whole or in part, with metadata or   *)
(* without.                                                                *)
LEMMA StoredType ==
    ASSUME MacInv, Mac!New, NEW p \in Parts, Mac!MemoIs(p)
    PROVE  /\ post \in Posts /\ post.id \in Memo /\ post.body \in Carried
           /\ memos' \in [Memo -> Carried \cup {Mac!NoBody}]
           /\ \A m \in Memo \ {post.id} : memos'[m] = memos[m]
           /\ p = post.body.part => memos'[post.id] = post.body
<1>1. post \in Posts
  BY NoPostIs DEF MacInv, Mac!New, Mac!Accepted
<1>2. post.id \in Memo /\ post.body \in Carried
  BY <1>1 DEF Posts
<1>3. [post.body EXCEPT !.part = p] \in Carried
  BY <1>2 DEF Carried
<1>4. p = post.body.part => [post.body EXCEPT !.part = p] = post.body
  BY <1>2 DEF Carried
<1>. QED
  BY <1>1, <1>2, <1>3, <1>4 DEF MacInv, Mac!MemoIs

(* The memo is stored, then its metadata: 201.                             *)
LEMMA StoreKeeps ==
    ASSUME MacInv, Mac!Store
    PROVE  MacInv' /\ Kept /\ post' \in Posts /\ UNCHANGED <<post.id, post.body>>
<1>1. /\ UNCHANGED <<memo_notes, memo_done, serving, memo_dropped>>
      /\ Mac!New /\ Mac!MemoIs(post.body.part)
      /\ memo_metadata' = [memo_metadata EXCEPT ![post.id] = post.body]
      /\ Mac!Answer(201)
      /\ memo_queue' = memo_queue \cup {post.id}
  BY DEF Mac!Store, Mac!MetadataIsWritten, Mac!results
<1>2. post \in Posts
  BY <1>1, NoPostIs DEF MacInv, Mac!New, Mac!Accepted
<1>3. 201 \in Answers /\ post.body.part \in Parts
  BY <1>2 DEF Answers, Posts, Carried
<1>4. post' \in Posts /\ post'.id = post.id /\ post'.body = post.body
  BY <1>1, <1>2, <1>3, AnswerIs
<1>5. /\ post.id \in Memo /\ post.body \in Carried
      /\ memos' \in [Memo -> Carried \cup {Mac!NoBody}]
      /\ \A m \in Memo \ {post.id} : memos'[m] = memos[m]
      /\ memos'[post.id] = post.body
  BY <1>1, <1>3, StoredType
<1>6. /\ memo_metadata' \in [Memo -> Carried \cup {Mac!NoBody}]
      /\ \A m \in Memo \ {post.id} : memo_metadata'[m] = memo_metadata[m]
      /\ memo_metadata'[post.id] = post.body
  BY <1>1, <1>5 DEF MacInv
<1>7. \A m \in Memo : memo_metadata'[m] # Mac!NoBody => memos'[m] = memo_metadata'[m]
  BY <1>5, <1>6 DEF MacInv
<1>8. serving # FALSE
  BY <1>2, NoPostIs DEF MacInv
<1>9. MacInv'
  BY <1>1, <1>4, <1>5, <1>6, <1>7, <1>8 DEF MacInv, Stored
<1>10. Kept
  BY <1>1, <1>6 DEF Kept, Mac!New
<1>. QED
  BY <1>4, <1>9, <1>10

(* A write fails: 500, and whatever metadata there is still is of its      *)
(* memo.                                                                   *)
LEMMA StoreFailsKeeps ==
    ASSUME MacInv, Mac!StoreFails
    PROVE  MacInv' /\ Kept /\ post' \in Posts /\ UNCHANGED <<post.id, post.body>>
<1>1. /\ UNCHANGED <<memo_metadata, memo_notes, memo_done, memo_queue, serving, memo_dropped>>
      /\ Mac!New /\ Mac!MemoIs("empty")
      /\ Mac!Answer(500)
  BY DEF Mac!StoreFails, Mac!results
<1>2. post \in Posts
  BY <1>1, NoPostIs DEF MacInv, Mac!New, Mac!Accepted
<1>3. 500 \in Answers /\ "empty" \in Parts /\ 500 \notin {200, 201}
  BY DEF Answers, Parts
<1>4. post' \in Posts /\ post'.id = post.id /\ post'.body = post.body /\ post'.status = 500
  BY <1>1, <1>2, <1>3, AnswerIs
<1>9. Stored'
  BY <1>3, <1>4 DEF Stored
<1>5. /\ memos' \in [Memo -> Carried \cup {Mac!NoBody}]
      /\ \A m \in Memo \ {post.id} : memos'[m] = memos[m]
  BY <1>1, <1>3, StoredType
<1>6. \A m \in Memo : memo_metadata[m] # Mac!NoBody => memos'[m] = memo_metadata[m]
  BY <1>1, <1>5 DEF MacInv, Mac!New
<1>7. serving # FALSE
  BY <1>2, NoPostIs DEF MacInv
<1>8. MacInv'
  BY <1>1, <1>4, <1>5, <1>6, <1>7, <1>9, ZenonT(30) DEF MacInv
<1>. QED
  BY <1>1, <1>4, <1>8 DEF Kept

(* Every step of the handler keeps what it was asked to store,             *)
LEMMA HandlerKeeps ==
    ASSUME MacInv, Mac!Handler
    PROVE  MacInv' /\ Kept /\ post' \in Posts /\ UNCHANGED <<post.id, post.body>>
BY RefusalKeeps, DuplicateKeeps, StoreKeeps, StoreFailsKeeps DEF Mac!Handler

(* and the request ends with its answer.                                   *)
LEMMA AnsweredKeeps ==
    ASSUME MacInv, Mac!Answered
    PROVE  MacInv' /\ UNCHANGED <<memos, memo_metadata>>
<1>1. /\ post' = Mac!NoPost
      /\ UNCHANGED <<memos, memo_metadata, memo_notes, memo_done, memo_queue, serving,
                     memo_dropped>>
  BY DEF Mac!Answered, Mac!stored, Mac!results
<1>2. Stored'
  BY <1>1, NoPostIs DEF Stored
<1>. QED
  BY <1>1, <1>2 DEF MacInv

-----------------------------------------------------------------------------
(* What the worker pushes are notes.                                       *)
LEMMA PushedType ==
    ASSUME MacInv, NEW m \in Memo
    PROVE  Mac!Pushed(m) \in [Memo -> Carried \cup {Mac!NoBody}]
BY DEF MacInv, Mac!Pushed

(* The worker takes a memo off the queue and writes it into the notebook,  *)
(* or fails.                                                               *)
LEMMA ProcessKeeps ==
    ASSUME MacInv, NEW m \in memo_queue, Mac!Process(m) \/ Mac!ProcessingFails(m)
    PROVE  MacInv' /\ UNCHANGED <<post, memos, memo_metadata>>
<1>1. /\ UNCHANGED <<post, memos, memo_metadata, serving>>
      /\ memo_queue' = memo_queue \ {m} /\ memo_notes' \in {memo_notes, Mac!Pushed(m)}
      /\ memo_done' \in {memo_done, memo_done \cup {m}}
      /\ memo_dropped' \in {memo_dropped, memo_dropped \cup {m}}
  BY DEF Mac!Process, Mac!ProcessingFails, Mac!stored
<1>2. memo_notes' \in [Memo -> Carried \cup {Mac!NoBody}] /\ m \in Memo
  BY <1>1, PushedType DEF MacInv
<1>3. MacInv'
  BY <1>1, <1>2 DEF MacInv, Stored
<1>. QED
  BY <1>1, <1>3

(* The server stops: what is on the disk stays.                            *)
LEMMA CrashKeeps ==
    ASSUME MacInv, Mac!Crash
    PROVE  MacInv' /\ Kept
<1>1. /\ serving' = FALSE /\ post' = Mac!NoPost /\ memo_queue' = {}
      /\ memo_notes' \in {memo_notes} \cup {Mac!Pushed(m) : m \in memo_queue}
      /\ UNCHANGED <<memo_done, memo_dropped>>
  BY DEF Mac!Crash
<1>2. memo_notes' \in [Memo -> Carried \cup {Mac!NoBody}]
  BY <1>1, PushedType DEF MacInv
<1>3. /\ memos' \in [Memo -> Carried \cup {Mac!NoBody}]
      /\ memo_metadata' \in [Memo -> Carried \cup {Mac!NoBody}]
      /\ \A m \in Memo : memo_metadata'[m] # Mac!NoBody => memos'[m] = memo_metadata'[m]
      /\ Kept
  <2>1. CASE UNCHANGED <<memos, memo_metadata>>
    BY <2>1 DEF MacInv, Kept
  <2>2. CASE Mac!New /\ Mac!MemoIs("empty") /\ UNCHANGED memo_metadata
    <3>1. "empty" \in Parts
      BY DEF Parts
    <3>2. /\ memos' \in [Memo -> Carried \cup {Mac!NoBody}]
          /\ \A m \in Memo \ {post.id} : memos'[m] = memos[m]
      BY <2>2, <3>1, StoredType
    <3>. QED
      BY <2>2, <3>2 DEF MacInv, Mac!New, Kept
  <2>3. CASE Mac!New /\ Mac!MemoIs(post.body.part) /\ Mac!MetadataIsWritten
    <3>1. post \in Posts
      BY <2>3, NoPostIs DEF MacInv, Mac!New, Mac!Accepted
    <3>2. post.body.part \in Parts /\ post.id \in Memo /\ post.body \in Carried
      BY <3>1 DEF Posts, Carried
    <3>3. /\ memos' \in [Memo -> Carried \cup {Mac!NoBody}]
          /\ \A m \in Memo \ {post.id} : memos'[m] = memos[m]
          /\ memos'[post.id] = post.body
      BY <2>3, <3>2, StoredType
    <3>4. /\ memo_metadata' \in [Memo -> Carried \cup {Mac!NoBody}]
          /\ \A m \in Memo \ {post.id} : memo_metadata'[m] = memo_metadata[m]
          /\ memo_metadata'[post.id] = post.body
      BY <2>3, <3>2 DEF MacInv, Mac!MetadataIsWritten
    <3>5. memo_metadata[post.id] = Mac!NoBody
      BY <2>3 DEF Mac!New
    <3>. QED
      BY <3>3, <3>4, <3>5 DEF MacInv, Kept
  <2>. QED
    BY <2>1, <2>2, <2>3 DEF Mac!Crash, Mac!stored
<1>4. Stored'
  BY <1>1, NoPostIs DEF Stored
<1>. QED
  BY <1>1, <1>2, <1>3, <1>4 DEF MacInv

(* The server starts and queues what has no note.                          *)
LEMMA StartKeeps ==
    ASSUME MacInv, Mac!Start
    PROVE  MacInv' /\ UNCHANGED <<post, memos, memo_metadata>>
<1>1. /\ UNCHANGED <<post, memos, memo_metadata, memo_notes, memo_done>>
      /\ serving' = TRUE /\ memo_queue' = Mac!Scanned /\ memo_dropped' = {}
  BY DEF Mac!Start, Mac!stored, Mac!results
<1>2. Mac!Scanned \subseteq Memo
  BY DEF Mac!Scanned
<1>. QED
  BY <1>1, <1>2 DEF MacInv, Stored

-----------------------------------------------------------------------------
(* What a step of the phone does to what the receiver knows.               *)
TextsStay == \A m \in Typed : texts'[m] = texts[m]
NoneIsLetGo ==
    \A m \in saved' \ early' :
        m \notin Phone!Pending' => m \in saved \ early /\ m \notin Phone!Pending
Goes == TextsStay /\ NoneIsLetGo
UploadStays == cur = 0 \/ (cur' = cur /\ body' = body)

MemoInv == PhoneInv /\ MacInv /\ WaitInv /\ NoMemoLost

(* Nothing is let go of while the files stay,                              *)
LEMMA FilesStay ==
    ASSUME UNCHANGED <<texts, saved, files>>, early \subseteq early'
    PROVE  Goes
<1>1. Phone!Pending' = Phone!Pending
  BY PendingStays
<1>. QED
  BY <1>1 DEF Goes, TextsStay, NoneIsLetGo

(* none while a memo is typed and saved,                                   *)
LEMMA CaptureGoes ==
    ASSUME PhoneInv, Phone!CaptureMemo \/ Phone!Ui
    PROVE  PhoneInv' /\ Goes /\ UploadStays
<1>1. CASE Phone!CaptureMemo
  <2>1. /\ PhoneInv' /\ UNCHANGED <<saved, cur, body, early>>
        /\ \A m \in Typed : texts'[m] = texts[m]
        /\ Phone!Pending \subseteq Phone!Pending'
    BY <1>1, CaptureMemoKeeps
  <2>. QED
    BY <2>1 DEF Goes, TextsStay, NoneIsLetGo, UploadStays
<1>2. CASE Phone!WritePart
  <2>1. /\ PhoneInv' /\ UNCHANGED <<texts, saved, cur, body, early>>
        /\ Phone!Pending \subseteq Phone!Pending'
    BY <1>2, WritePartKeeps
  <2>. QED
    BY <2>1 DEF Goes, TextsStay, NoneIsLetGo, UploadStays
<1>3. CASE Phone!SaveDone
  <2>1. /\ PhoneInv' /\ UNCHANGED <<texts, cur, body, early>>
        /\ Phone!Pending' = Phone!Pending
        /\ \A m \in saved' \ early : m \in saved \/ m \in Phone!Pending
    BY <1>3, SaveDoneKeeps
  <2>. QED
    BY <2>1 DEF Goes, TextsStay, NoneIsLetGo, UploadStays
<1>4. CASE Phone!RequestSync
  <2>1. PhoneInv' /\ UNCHANGED <<texts, saved, files, cur, body, early>>
    BY <1>4, RequestSyncKeeps
  <2>. QED
    BY <2>1, FilesStay DEF UploadStays
<1>. QED
  BY <1>1, <1>2, <1>3, <1>4 DEF Phone!Ui

(* none while a sync begins, reads or ends,                                *)
LEMMA SyncGoes ==
    ASSUME PhoneInv,
           \/ Phone!Resume \/ Phone!SaveFails \/ Phone!Destroy \/ Phone!WorkerRuns
           \/ Phone!WorkerSucceeds \/ Phone!WorkerStopped \/ Phone!SyncBegin
           \/ Phone!ReadMemo \/ Phone!SyncEnd
    PROVE  PhoneInv' /\ Goes /\ UploadStays
<1>1. /\ PhoneInv' /\ UNCHANGED <<texts, saved, files>> /\ early \subseteq early'
      /\ cur = 0 \/ (cur' = cur /\ body' = body)
  <2>1. CASE Phone!Resume
    <3>1. UNCHANGED <<texts, saved, files, cur, body, early>>
      BY <2>1 DEF Phone!Resume, Phone!capture, Phone!syncing
    <3>. QED
      BY <2>1, <3>1, ResumeKeeps
  <2>2. CASE Phone!SaveFails
    BY <2>2, SaveFailsKeeps
  <2>3. CASE Phone!Destroy
    BY <2>3, DestroyKeeps
  <2>4. CASE Phone!WorkerRuns
    BY <2>4, WorkerRunsKeeps
  <2>5. CASE Phone!WorkerStopped
    BY <2>5, WorkerStoppedKeeps
  <2>6. CASE Phone!SyncBegin
    BY <2>6, SyncBeginKeeps
  <2>7. CASE Phone!ReadMemo
    BY <2>7, ReadMemoKeeps
  <2>8. CASE Phone!SyncEnd
    BY <2>8, SyncEndKeeps
  <2>9. CASE Phone!WorkerSucceeds
    BY <2>9, WorkerSucceedsKeeps
  <2>. QED
    BY <2>1, <2>2, <2>3, <2>4, <2>5, <2>6, <2>7, <2>8, <2>9
<1>. QED
  BY <1>1, FilesStay DEF UploadStays

(* and none when an upload fails or the process dies.                      *)
LEMMA EndGoes ==
    ASSUME PhoneInv, Phone!SyncFails \/ Phone!Kill
    PROVE  PhoneInv' /\ Goes
<1>1. PhoneInv' /\ UNCHANGED <<texts, saved, files, early>>
  BY SyncFailsKeeps, KillKeeps
<1>. QED
  BY <1>1, FilesStay

-----------------------------------------------------------------------------
(* What the phone let go of stays whole in the files of the server while   *)
(* the server keeps what it has.                                           *)
LEMMA KeptIsWhole ==
    ASSUME PhoneInv, MacInv, NoMemoLost, Goes, MacInv', Kept
    PROVE  NoMemoLost'
<1>1. SUFFICES ASSUME NEW m \in saved' \ early', m \notin Phone!Pending'
               PROVE  memos'[m] = Whole(m)' /\ memo_metadata'[m] = Whole(m)'
  BY DEF NoMemoLost
<1>2. m \in saved \ early /\ m \notin Phone!Pending
  BY <1>1 DEF Goes, NoneIsLetGo
<1>3. m \in Typed /\ m \in Memo
  BY <1>2, PendingMemos DEF PhoneInv, TypedInv
<1>4. memo_metadata[m] = Whole(m) /\ Whole(m)' = Whole(m)
  BY <1>2, <1>3 DEF NoMemoLost, Goes, TextsStay, Whole
<1>5. Whole(m) # Mac!NoBody
  BY <1>3 DEF Typed, Whole, Mac!NoBody
<1>6. memo_metadata'[m] = memo_metadata[m] /\ memo_metadata[m] # Mac!NoBody
  BY <1>3, <1>4, <1>5 DEF Kept
<1>7. memos'[m] = memo_metadata'[m]
  BY <1>3, <1>6 DEF MacInv
<1>. QED
  BY <1>4, <1>6, <1>7

(* The server keeps it while nothing happens there.                        *)
LEMMA StoredStays ==
    ASSUME MacInv, UNCHANGED <<post, memos, memo_metadata, memo_done, memo_queue, memo_notes,
                               serving, memo_dropped>>
    PROVE  MacInv' /\ Kept
BY DEF MacInv, Stored, Kept

(* The upload that is waited for stays the same while neither side touches *)
(* it.                                                                     *)
LEMMA WaitsOn ==
    ASSUME PhoneInv, WaitInv, TextsStay, UploadStays, UNCHANGED <<post, waiting>>,
           upsets' \in 0 .. MaxUpsets
    PROVE  WaitInv'
<1>1. waiting = TRUE => /\ cur' = cur /\ body' = body /\ texts'[cur] = texts[cur]
  BY DEF PhoneInv, SyncInv, TypedInv, WaitInv, TextsStay, UploadStays
<1>. QED
  BY <1>1 DEF WaitInv

(* A step of the phone while the receiver does nothing                     *)
LEMMA PhoneAlone ==
    ASSUME MemoInv, PhoneInv', Goes, UploadStays, UNCHANGED <<macVars, waiting>>,
           upsets' \in 0 .. MaxUpsets
    PROVE  MemoInv'
<1>1. MacInv' /\ Kept /\ UNCHANGED post
  BY StoredStays DEF MemoInv, macVars
<1>2. NoMemoLost'
  BY <1>1, KeptIsWhole DEF MemoInv
<1>3. WaitInv'
  BY <1>1, WaitsOn DEF MemoInv, Goes
<1>. QED
  BY <1>1, <1>2, <1>3 DEF MemoInv

(* ... and one that ends the wait                                          *)
LEMMA WaitEnds ==
    ASSUME MemoInv, PhoneInv', Goes, MacInv', Kept, waiting' = FALSE, upsets' \in 0 .. MaxUpsets
    PROVE  MemoInv'
<1>1. NoMemoLost'
  BY KeptIsWhole DEF MemoInv
<1>2. WaitInv'
  BY DEF WaitInv
<1>. QED
  BY <1>1, <1>2 DEF MemoInv

(* The phone is as it was while its variables are.                         *)
LEMMA PhoneStays ==
    ASSUME PhoneInv, UNCHANGED phoneVars
    PROVE  PhoneInv'
<1>1. UNCHANGED <<texts, files, saved, ui, open, tasks, work, holder, todo, cur, body, skipped,
                  early>>
  BY DEF phoneVars
<1>2. Typed' = Typed /\ Phone!Newest' = Phone!Newest /\ Phone!Pending' = Phone!Pending
  BY <1>1, TypedStays, PendingStays
<1>3. TypedInv'
  BY <1>1, <1>2 DEF PhoneInv, TypedInv
<1>4. SyncInv'
  BY <1>1, <1>2 DEF PhoneInv, SyncInv
<1>5. WholeInv'
  BY <1>1, <1>2 DEF PhoneInv, WholeInv
<1>6. ListInv'
  BY <1>1, <1>2 DEF PhoneInv, ListInv
<1>7. RetryIsScheduled'
  BY <1>1, <1>2 DEF PhoneInv, RetryIsScheduled
<1>. QED
  BY <1>3, <1>4, <1>5, <1>6, <1>7 DEF PhoneInv

(* A step of the receiver that leaves the phone alone                      *)
LEMMA MacAlone ==
    ASSUME MemoInv, MacInv', Kept, UNCHANGED <<phoneVars, waiting>>, upsets' \in 0 .. MaxUpsets,
           waiting = TRUE => post' \in Posts /\ post'.id = post.id /\ post'.body = post.body
    PROVE  MemoInv'
<1>1. UNCHANGED <<texts, files, saved, ui, open, tasks, work, holder, todo, cur, body, skipped,
                  early>>
  BY DEF phoneVars
<1>3. PhoneInv'
  BY PhoneStays DEF MemoInv
<1>4. Goes
  BY <1>1, FilesStay
<1>5. NoMemoLost'
  BY <1>4, KeptIsWhole DEF MemoInv
<1>6. WaitInv'
  BY <1>1 DEF MemoInv, WaitInv
<1>. QED
  BY <1>3, <1>5, <1>6 DEF MemoInv

(* One more mishap is still within the bound.                              *)
LEMMA UpsetCounts ==
    ASSUME WaitInv, Upset
    PROVE  upsets' \in 0 .. MaxUpsets
BY MemoAssumption DEF WaitInv, Upset, MemoAssumption

(* The phone sends what it has read, and waits.                            *)
LEMMA ConnectKeeps ==
    ASSUME MemoInv, Connect
    PROVE  MemoInv'
<1>1. /\ cur # 0 /\ waiting' = TRUE /\ UNCHANGED <<phoneVars, upsets>>
      /\ Mac!PostMemo(cur, [kind |-> texts[cur], part |-> body])
  <2>1. cur # 0 /\ waiting' = TRUE /\ UNCHANGED <<phoneVars, upsets>>
    BY DEF Connect
  <2>2. Mac!PostMemo(cur, [kind |-> texts[cur], part |-> body])
    BY DEF Connect
  <2>. QED
    BY <2>1, <2>2
<1>2. cur \in Typed /\ cur \in Memo /\ body \in Parts
  BY <1>1, PendingMemos DEF MemoInv, PhoneInv, TypedInv, SyncInv
<1>3. [kind |-> texts[cur], part |-> body] \in Carried
  BY <1>2 DEF MemoInv, PhoneInv, TypedInv, Typed, Carried
<1>4. /\ MacInv' /\ Kept /\ post' \in Posts /\ post'.id = cur
      /\ post'.body = [kind |-> texts[cur], part |-> body]
  BY <1>1, <1>2, <1>3, PostMemoKeeps DEF MemoInv
<1>5. UNCHANGED <<texts, files, saved, ui, open, tasks, work, holder, todo, cur, body, skipped,
                  early>>
  BY <1>1 DEF phoneVars
<1>6. WaitInv'
  BY <1>1, <1>4, <1>5 DEF MemoInv, WaitInv
<1>7. PhoneInv'
  BY <1>1, PhoneStays DEF MemoInv
<1>8. Goes
  BY <1>5, FilesStay
<1>9. NoMemoLost'
  BY <1>4, <1>8, KeptIsWhole DEF MemoInv
<1>. QED
  BY <1>4, <1>6, <1>7, <1>9 DEF MemoInv

(* What is let go of was whole, and the receiver said that it has it.      *)
LEMMA DeliveredKeeps ==
    ASSUME MemoInv, Delivered
    PROVE  MemoInv'
<1>1. /\ waiting = TRUE /\ post.status \in {200, 201} /\ Mac!Answered /\ waiting' = FALSE
      /\ Phone!UploadOk /\ UNCHANGED upsets
  <2>1. waiting /\ waiting \in BOOLEAN
    BY DEF Delivered, MemoInv, WaitInv
  <2>2. /\ post.status \in {200, 201} /\ Mac!Answered /\ waiting' = FALSE
        /\ Phone!UploadOk /\ UNCHANGED upsets
    BY DEF Delivered
  <2>. QED
    BY <2>1, <2>2
<1>2. MacInv' /\ UNCHANGED <<memos, memo_metadata>>
  BY <1>1, AnsweredKeeps DEF MemoInv
<1>3. /\ PhoneInv' /\ cur \in Phone!Pending /\ UNCHANGED <<texts, saved, early>>
      /\ Phone!Pending' = Phone!Pending \ {cur}
  BY <1>1, UploadOkKeeps DEF MemoInv
<1>4. memo_metadata[cur] = [kind |-> texts[cur], part |-> body]
  BY <1>1 DEF MemoInv, MacInv, Stored, WaitInv
<1>5. cur \in saved \ early => memo_metadata[cur] = Whole(cur)
  BY <1>4 DEF MemoInv, PhoneInv, WholeInv, Whole
<1>6. cur \in Memo /\ memo_metadata[cur] # Mac!NoBody
  <2>1. cur \in Typed /\ cur \in Memo
    BY <1>3, PendingMemos DEF MemoInv, PhoneInv, TypedInv
  <2>. QED
    BY <2>1, <1>4 DEF Typed, Mac!NoBody
<1>7. memos[cur] = memo_metadata[cur]
  BY <1>6 DEF MemoInv, MacInv
<1>8. NoMemoLost'
  <2>1. SUFFICES ASSUME NEW m \in saved \ early, m \notin Phone!Pending'
                 PROVE  memos[m] = Whole(m) /\ memo_metadata[m] = Whole(m)
    BY <1>2, <1>3 DEF NoMemoLost, Whole
  <2>2. CASE m = cur
    BY <2>2, <2>1, <1>5, <1>7
  <2>3. CASE m # cur
    BY <2>3, <2>1, <1>3 DEF MemoInv, NoMemoLost
  <2>. QED
    BY <2>2, <2>3
<1>9. WaitInv'
  BY <1>1 DEF MemoInv, WaitInv
<1>. QED
  BY <1>2, <1>3, <1>8, <1>9 DEF MemoInv

(* A step of the phone alone,                                              *)
LEMMA PhoneNextKeeps ==
    ASSUME MemoInv,
           \/ Use \/ Capture \/ SaveFails \/ Close \/ WorkerRuns \/ WorkerStopped \/ PhoneStops
           \/ SyncBegin \/ ReadMemo \/ SyncEnd \/ NoUpload
    PROVE  MemoInv'
<1>. USE DEF MemoInv
<1>1. CASE Use \/ Capture
  <2>1. PhoneInv' /\ Goes /\ UploadStays /\ UNCHANGED <<macVars, waiting, upsets>>
    BY <1>1, CaptureGoes, SyncGoes DEF Use, Capture, Alone
  <2>2. upsets' \in 0 .. MaxUpsets
    BY <2>1 DEF WaitInv
  <2>. QED
    BY <2>1, <2>2, PhoneAlone
<1>2. CASE SaveFails \/ Close \/ WorkerStopped
  <2>1. PhoneInv' /\ Goes /\ UploadStays /\ UNCHANGED <<macVars, waiting>> /\ Upset
    BY <1>2, SyncGoes DEF SaveFails, Close, WorkerStopped
  <2>2. upsets' \in 0 .. MaxUpsets
    BY <2>1, UpsetCounts
  <2>. QED
    BY <2>1, <2>2, PhoneAlone
<1>3. CASE WorkerRuns \/ SyncBegin \/ ReadMemo \/ SyncEnd
  <2>1. PhoneInv' /\ Goes /\ UploadStays /\ UNCHANGED <<macVars, waiting, upsets>>
    BY <1>3, SyncGoes DEF WorkerRuns, SyncBegin, ReadMemo, SyncEnd, Alone
  <2>2. upsets' \in 0 .. MaxUpsets
    BY <2>1 DEF WaitInv
  <2>. QED
    BY <2>1, <2>2, PhoneAlone
<1>4. CASE PhoneStops
  <2>1. PhoneInv' /\ Goes /\ UNCHANGED macVars /\ waiting' = FALSE /\ Upset
    BY <1>4, EndGoes DEF PhoneStops
  <2>2. MacInv' /\ Kept /\ upsets' \in 0 .. MaxUpsets
    BY <2>1, StoredStays, UpsetCounts DEF macVars
  <2>. QED
    BY <2>1, <2>2, WaitEnds
<1>5. CASE NoUpload
  <2>1. PhoneInv' /\ Goes /\ UNCHANGED <<macVars, waiting, upsets>> /\ ~ waiting
    BY <1>5, EndGoes DEF NoUpload, Alone
  <2>2. MacInv' /\ Kept
    BY <2>1, StoredStays DEF macVars
  <2>3. waiting' = FALSE /\ upsets' \in 0 .. MaxUpsets
    BY <2>1 DEF WaitInv
  <2>. QED
    BY <2>1, <2>2, <2>3, WaitEnds
<1>. QED
  BY <1>1, <1>2, <1>3, <1>4, <1>5

(* and one of the server, or of the network, keep the invariant.           *)
LEMMA MacNextKeeps ==
    ASSUME MemoInv, NotDelivered \/ GiveUp \/ ReceiveMemo \/ MacWorks \/ NotNoted \/ MacStops
    PROVE  MemoInv'
<1>. USE DEF MemoInv
<1>1. CASE NotDelivered
  <2>1. PhoneInv' /\ Goes /\ waiting' = FALSE /\ UNCHANGED upsets
    BY <1>1, EndGoes DEF NotDelivered
  <2>2. MacInv' /\ Kept
    BY <1>1, AnsweredKeeps DEF NotDelivered, Kept
  <2>3. upsets' \in 0 .. MaxUpsets
    BY <2>1 DEF WaitInv
  <2>. QED
    BY <2>1, <2>2, <2>3, WaitEnds
<1>2. CASE GiveUp
  <2>1. PhoneInv' /\ Goes /\ waiting' = FALSE /\ UNCHANGED <<macVars, upsets>>
    BY <1>2, EndGoes DEF GiveUp
  <2>2. MacInv' /\ Kept
    BY <2>1, StoredStays DEF macVars
  <2>3. upsets' \in 0 .. MaxUpsets
    BY <2>1 DEF WaitInv
  <2>. QED
    BY <2>1, <2>2, <2>3, WaitEnds
<1>3. CASE ReceiveMemo
  <2>1. UNCHANGED <<phoneVars, waiting, upsets>>
    BY <1>3 DEF ReceiveMemo, Serve
  <2>2. upsets' \in 0 .. MaxUpsets
    BY <2>1 DEF WaitInv
  <2>3. CASE Mac!Handler
    <3>1. MacInv' /\ Kept /\ post' \in Posts /\ UNCHANGED <<post.id, post.body>>
      BY <2>3, HandlerKeeps
    <3>. QED
      BY <3>1, <2>1, <2>2, MacAlone
  <2>4. CASE ~ waiting /\ Mac!Answered
    <3>1. MacInv' /\ Kept
      BY <2>4, AnsweredKeeps DEF Kept
    <3>2. waiting # TRUE
      BY <2>4
    <3>. QED
      BY <3>1, <3>2, <2>1, <2>2, MacAlone
  <2>. QED
    BY <1>3, <2>3, <2>4 DEF ReceiveMemo, Serve
<1>4. CASE MacWorks \/ NotNoted
  <2>1. MacInv' /\ UNCHANGED <<post, memos, memo_metadata>>
    BY <1>4, StartKeeps, ProcessKeeps DEF MacWorks, NotNoted, Serve
  <2>2. UNCHANGED <<phoneVars, waiting>>
    BY <1>4 DEF MacWorks, NotNoted, Serve
  <2>3. upsets' \in 0 .. MaxUpsets
    BY <1>4, UpsetCounts DEF MacWorks, NotNoted, Serve, WaitInv
  <2>4. waiting = TRUE => post' \in Posts
    BY <2>1 DEF WaitInv
  <2>. QED
    BY <2>1, <2>2, <2>3, <2>4, MacAlone DEF Kept
<1>5. CASE MacStops
  <2>1. Mac!Crash /\ Upset /\ waiting' = FALSE
    BY <1>5 DEF MacStops
  <2>2. MacInv' /\ Kept /\ upsets' \in 0 .. MaxUpsets
    BY <2>1, CrashKeeps, UpsetCounts
  <2>3. CASE waiting
    <3>1. PhoneInv' /\ Goes
      BY <1>5, <2>3, EndGoes DEF MacStops
    <3>. QED
      BY <3>1, <2>1, <2>2, WaitEnds
  <2>4. CASE ~ waiting
    <3>1. UNCHANGED phoneVars
      BY <1>5, <2>4 DEF MacStops
    <3>2. UNCHANGED <<texts, saved, files, early>>
      BY <3>1 DEF phoneVars
    <3>3. PhoneInv' /\ Goes
      BY <3>1, <3>2, PhoneStays, FilesStay
    <3>. QED
      BY <3>3, <2>1, <2>2, WaitEnds
  <2>. QED
    BY <2>3, <2>4
<1>. QED
  BY <1>1, <1>2, <1>3, <1>4, <1>5

(* It holds at the start,                                                  *)
LEMMA MemoInvInit == MemoInit => MemoInv
<1>1. SUFFICES ASSUME MemoInit PROVE MemoInv
  OBVIOUS
<1>2. /\ texts = [m \in Memo |-> "none"] /\ files = [m \in Memo |-> "none"] /\ saved = {}
      /\ ui = "idle" /\ open = FALSE /\ tasks = 0 /\ work = "none"
      /\ holder = "none" /\ todo = {} /\ cur = 0 /\ body = "none"
      /\ skipped = {} /\ early = {}
  BY <1>1 DEF MemoInit, Phone!PhoneInit
<1>3. Typed = {} /\ Phone!Pending = {}
  BY <1>2 DEF Typed, Phone!Pending
<1>4. Phone!Newest = 0
  BY <1>3, NewestOf, FS_EmptySet
<1>5. TypedInv
  <2>1. texts \in [Memo -> Kind \cup {"none"}] /\ files \in [Memo -> Parts \cup {"none"}]
    BY <1>2
  <2>2. Phone!Newest \in Nat /\ Typed = 1 .. Phone!Newest
    BY <1>3, <1>4
  <2>. QED
    BY <1>2, <1>3, <2>1, <2>2 DEF TypedInv
<1>6. SyncInv
  BY <1>2, <1>3 DEF SyncInv
<1>7. WholeInv
  BY <1>2, <1>3 DEF WholeInv
<1>8. ListInv /\ RetryIsScheduled /\ NoMemoLost
  BY <1>2, <1>3 DEF ListInv, RetryIsScheduled, NoMemoLost
<1>9. MacInv
  <2>1. /\ post = Mac!NoPost
        /\ memos = [m \in Memo |-> Mac!NoBody] /\ memo_metadata = [m \in Memo |-> Mac!NoBody]
        /\ memo_done = {} /\ memo_queue = {} /\ memo_notes = [m \in Memo |-> Mac!NoBody]
        /\ serving = TRUE /\ memo_dropped = {}
    BY <1>1 DEF MemoInit, Mac!MacInit
  <2>2. Stored
    BY <2>1, NoPostIs DEF Stored
  <2>. QED
    BY <2>1, <2>2 DEF MacInv
<1>10. WaitInv
  <2>1. waiting = FALSE /\ upsets = 0
    BY <1>1 DEF MemoInit
  <2>2. waiting \in BOOLEAN /\ waiting # TRUE
    BY <2>1
  <2>3. upsets \in 0 .. MaxUpsets
    BY <2>1, MemoAssumption DEF MemoAssumption
  <2>. QED
    BY <2>2, <2>3, Zenon DEF WaitInv
<1>. QED
  BY <1>5, <1>6, <1>7, <1>8, <1>9, <1>10 DEF MemoInv, PhoneInv

(* every step keeps it,                                                    *)
LEMMA MemoInvNext == MemoInv /\ [MemoNext]_memoVars => MemoInv'
<1>1. SUFFICES ASSUME MemoInv, [MemoNext]_memoVars PROVE MemoInv'
  OBVIOUS
<1>2. CASE UNCHANGED memoVars
  <2>1. UNCHANGED <<phoneVars, macVars, waiting, upsets>>
    BY <1>2 DEF memoVars
  <2>2. UNCHANGED <<texts, saved, files, early, cur, body>> /\ upsets' \in 0 .. MaxUpsets
    BY <1>1, <2>1 DEF phoneVars, MemoInv, WaitInv
  <2>3. PhoneInv' /\ Goes /\ UploadStays
    BY <1>1, <2>1, <2>2, PhoneStays, FilesStay DEF MemoInv, UploadStays
  <2>. QED
    BY <1>1, <2>1, <2>2, <2>3, PhoneAlone
<1>. QED
  BY <1>1, <1>2, PhoneNextKeeps, MacNextKeeps, ConnectKeeps, DeliveredKeeps DEF MemoNext

(* so it always holds.                                                     *)
LEMMA MemoInvariant == MemoSpec => []MemoInv
BY MemoInvInit, MemoInvNext, PTL DEF MemoSpec

-----------------------------------------------------------------------------
(* Types, for every set of memos and any number of mishaps.                *)
THEOREM MemoTypesCorrect == MemoSpec => []MemoTypeOK
<1>1. ASSUME MemoInv PROVE MemoTypeOK
  <2>1. Phone!PhoneTypeOK
    <3>1. /\ texts \in [Memo -> Kind \cup {"none"}]
          /\ files \in [Memo -> {"none", "empty", "some", "all"}]
      BY <1>1 DEF MemoInv, PhoneInv, TypedInv, Parts
    <3>2. /\ saved \subseteq Memo /\ skipped \subseteq saved /\ early \subseteq Memo
          /\ ui \in {"idle", "write", "enqueue"} /\ open \in BOOLEAN
          /\ ui # "idle" => open
      <4>1. /\ saved \subseteq Memo /\ skipped \subseteq saved /\ early \subseteq Memo
            /\ ui \in {"idle", "write", "enqueue"} /\ open \in BOOLEAN
        BY <1>1, PendingMemos DEF MemoInv, PhoneInv, TypedInv, ListInv
      <4>2. ui # "idle" => open = TRUE
        BY <1>1 DEF MemoInv, PhoneInv, TypedInv
      <4>. QED
        BY <4>1, <4>2, Zenon
    <3>3. /\ tasks \in Nat
          /\ work \in {"none", "enqueued", "running", "returned"}
          /\ holder \in {"none", "task", "worker"}
          /\ holder = "task" => tasks > 0
          /\ holder = "worker" => work = "running"
          /\ todo \subseteq Phone!Pending /\ cur \in Phone!Pending \cup {0}
          /\ holder = "none" => cur = 0 /\ todo = {}
      BY <1>1 DEF MemoInv, PhoneInv, SyncInv
    <3>4. (cur # 0) = (body # "none")
      BY <1>1 DEF MemoInv, PhoneInv, SyncInv, Parts
    <3>. QED
      BY <3>1, <3>2, <3>3, <3>4, Zenon DEF Phone!PhoneTypeOK
  <2>2. Mac!MacTypeOK
    <3>1. Carried = Mac!Bodies \ {Mac!NoBody} /\ Carried \cup {Mac!NoBody} = Mac!Bodies
      BY NothingIsCarried DEF Carried, Parts, Mac!Bodies
    <3>2. Posts = [pc : {"check", "answer"}, id : Memo, body : Mac!Bodies \ {Mac!NoBody},
                   status : {0, 200, 201, 400, 409, 500}]
      BY <3>1, Zenon DEF Posts, Answers
    <3>3. ~ serving => post = Mac!NoPost /\ memo_queue = {}
      BY <1>1 DEF MemoInv, MacInv
    <3>4. /\ post = Mac!NoPost \/ post \in Posts
          /\ memos \in [Memo -> Mac!Bodies] /\ memo_metadata \in [Memo -> Mac!Bodies]
          /\ memo_notes \in [Memo -> Mac!Bodies] /\ memo_done \subseteq Memo
          /\ memo_queue \subseteq Memo /\ memo_dropped \subseteq Memo /\ serving \in BOOLEAN
      BY <1>1, <3>1 DEF MemoInv, MacInv
    <3>. QED
      BY <3>2, <3>3, <3>4, ZenonT(30) DEF Mac!MacTypeOK
  <2>3. waiting \in BOOLEAN /\ upsets \in 0 .. MaxUpsets
    BY <1>1 DEF MemoInv, WaitInv
  <2>4. waiting => cur # 0 /\ post.id = cur
    BY <1>1 DEF MemoInv, WaitInv
  <2>. QED
    BY <2>1, <2>2, <2>3, <2>4 DEF MemoTypeOK
<1>. QED
  BY <1>1, MemoInvariant, PTL

(* A memo that was saved whole is on the phone, or whole in the files of   *)
(* the server: MainActivity says it is safe once savePending returned, and *)
(* a file is deleted only after its memo was answered as kept, whatever is *)
(* killed or lost meanwhile.                                               *)
THEOREM NoSavedMemoIsLost == MemoSpec => []NoMemoLost
<1>1. MemoInv => NoMemoLost
  BY DEF MemoInv
<1>. QED
  BY <1>1, MemoInvariant, PTL

(* While a saved memo waits, somebody is about to ask for a sync, or the   *)
(* work is enqueued, or a sync that will see the memo is under way         *)
(* (MemoSyncWorker, MainActivity).                                         *)
THEOREM SavedMemosHaveARequest == MemoSpec => []RetryIsScheduled
<1>1. MemoInv => RetryIsScheduled
  BY DEF MemoInv, PhoneInv
<1>. QED
  BY <1>1, MemoInvariant, PTL

-----------------------------------------------------------------------------
(* What is queued is stored, and a note is what was stored.                *)
QueuedInv ==
    /\ \A m \in memo_queue : memo_metadata[m] # Mac!NoBody
    /\ \A m \in Memo : memo_notes[m] # Mac!NoBody => memo_notes[m] = memo_metadata[m]

(* What the notebook has of a memo that the phone let go of is all of it.  *)
NotesAreWhole ==
    \A m \in saved \ early :
        m \notin Phone!Pending /\ memo_notes[m] # Mac!NoBody => memo_notes[m] = Whole(m)

(* Queues and notes stay in step with what is stored: while a step keeps   *)
(* the metadata and the notes,                                             *)
LEMMA QueuedStays ==
    ASSUME MacInv, QueuedInv, Kept, memo_notes' = memo_notes, memo_queue' \subseteq Memo,
           \A m \in memo_queue' : m \in memo_queue \/ memo_metadata'[m] # Mac!NoBody
    PROVE  QueuedInv'
<1>1. \A m \in Memo : memo_notes[m] # Mac!NoBody => memo_metadata'[m] = memo_notes[m]
  BY DEF QueuedInv, Kept
<1>2. \A m \in memo_queue : memo_metadata'[m] # Mac!NoBody
  BY DEF QueuedInv, Kept, MacInv
<1>. QED
  BY <1>1, <1>2 DEF QueuedInv

(* while the worker pushes one,                                            *)
LEMMA PushedIsStored ==
    ASSUME MacInv, QueuedInv, NEW m \in memo_queue
    PROVE  \A k \in Memo : Mac!Pushed(m)[k] # Mac!NoBody => Mac!Pushed(m)[k] = memo_metadata[k]
<1>1. m \in Memo /\ memos[m] = memo_metadata[m]
  BY DEF MacInv, QueuedInv
<1>. QED
  BY <1>1 DEF MacInv, QueuedInv, Mac!Pushed

(* while the handler stores one,                                           *)
LEMMA HandlerQueues ==
    ASSUME MacInv, QueuedInv, Mac!Handler
    PROVE  QueuedInv'
<1>1. MacInv' /\ Kept /\ memo_notes' = memo_notes
  BY HandlerKeeps DEF Mac!Handler, Mac!Reject, Mac!Conflict, Mac!Duplicate, Mac!Store,
     Mac!StoreFails, Mac!results
<1>2. ASSUME NEW m \in memo_queue', m \notin memo_queue
      PROVE  memo_metadata'[m] # Mac!NoBody
  <2>1. Mac!Duplicate \/ Mac!Store
    BY <1>2 DEF Mac!Handler, Mac!Reject, Mac!Conflict, Mac!StoreFails
  <2>2. post \in Posts
    BY <2>1, NoPostIs DEF MacInv, Mac!Duplicate, Mac!Store, Mac!New, Mac!Accepted
  <2>3. m = post.id /\ m \in Memo /\ post.body # Mac!NoBody
    BY <1>2, <2>1, <2>2, NothingIsCarried DEF Mac!Duplicate, Mac!Store, Posts
  <2>4. memo_metadata'[m] = post.body
    BY <2>1, <2>3 DEF MacInv, Mac!Duplicate, Mac!Store, Mac!MetadataIsWritten, Mac!stored
  <2>. QED
    BY <2>3, <2>4
<1>. QED
  BY <1>1, <1>2, QueuedStays DEF MacInv

(* and so in every step of the server.                                     *)
LEMMA MacQueues ==
    ASSUME MacInv, QueuedInv, MacWorks \/ NotNoted \/ Mac!Crash
    PROVE  QueuedInv'
<1>1. CASE Mac!Start
  <2>1. UNCHANGED <<memo_metadata, memo_notes>> /\ memo_queue' = Mac!Scanned
    BY <1>1 DEF Mac!Start, Mac!stored, Mac!results
  <2>. QED
    BY <2>1, QueuedStays DEF Mac!Scanned, Kept
<1>2. ASSUME NEW m \in memo_queue, Mac!Process(m) \/ Mac!ProcessingFails(m) PROVE QueuedInv'
  <2>1. /\ UNCHANGED memo_metadata /\ memo_queue' = memo_queue \ {m}
        /\ memo_notes' \in {memo_notes, Mac!Pushed(m)}
    BY <1>2 DEF Mac!Process, Mac!ProcessingFails, Mac!stored
  <2>. QED
    BY <2>1, PushedIsStored DEF QueuedInv
<1>3. CASE Mac!Crash
  <2>1. MacInv' /\ Kept /\ memo_queue' = {}
    BY <1>3, CrashKeeps DEF Mac!Crash
  <2>2. \A k \in Memo : memo_notes'[k] # Mac!NoBody => memo_notes'[k] = memo_metadata[k]
    BY <1>3, PushedIsStored DEF QueuedInv, Mac!Crash
  <2>. QED
    BY <2>1, <2>2 DEF QueuedInv, Kept
<1>. QED
  BY <1>1, <1>2, <1>3 DEF MacWorks, NotNoted, Serve

(* Every step of the whole keeps it.                                       *)
LEMMA QueuedNext == MemoInv /\ QueuedInv /\ [MemoNext]_memoVars => QueuedInv'
<1>1. SUFFICES ASSUME MemoInv, QueuedInv, [MemoNext]_memoVars PROVE QueuedInv'
  OBVIOUS
<1>2. CASE UNCHANGED <<memo_metadata, memo_queue, memo_notes>>
  BY <1>1, <1>2 DEF QueuedInv
<1>3. CASE Mac!Handler
  BY <1>1, <1>3, HandlerQueues DEF MemoInv
<1>4. CASE MacWorks \/ NotNoted \/ Mac!Crash
  BY <1>1, <1>4, MacQueues DEF MemoInv
<1>5. CASE Mac!Answered \/ \E m \in Memo, b \in Carried : Mac!PostMemo(m, b)
  BY <1>2, <1>5 DEF Mac!Answered, Mac!PostMemo, Mac!stored, Mac!results
<1>6. CASE UNCHANGED macVars \/ UNCHANGED memoVars
  BY <1>2, <1>6 DEF macVars, memoVars
<1>7. CASE Connect
  BY <1>2, <1>7 DEF Connect, Mac!PostMemo, Mac!stored, Mac!results
<1>. QED
  BY <1>1, <1>3, <1>4, <1>5, <1>6, <1>7
     DEF MemoNext, Use, Capture, SaveFails, Close, WorkerRuns, WorkerStopped, PhoneStops, SyncBegin,
         ReadMemo, SyncEnd, NoUpload, Delivered, NotDelivered, GiveUp, ReceiveMemo, MacStops, Alone,
         Serve

(* A memo that was saved whole, gone from the phone and written to the     *)
(* notebook, is there whole (process_memo).                                *)
THEOREM DeliveredNotesAreWhole == MemoSpec => []NotesAreWhole
<1>1. MemoInit => QueuedInv
  BY DEF MemoInit, Mac!MacInit, QueuedInv
<1>2. MemoInv /\ QueuedInv => NotesAreWhole
  BY PendingMemos DEF MemoInv, PhoneInv, TypedInv, QueuedInv, NoMemoLost, NotesAreWhole
<1>. QED
  BY <1>1, <1>2, QueuedNext, MemoInvariant, PTL DEF MemoSpec

-----------------------------------------------------------------------------
(* Prompts: the lists, the order and the cache of PromptTerms.             *)

(* A value made step by step: G[n] makes the next one of the one before.   *)
Made(G, x0, f, n) == f[0] = x0 /\ \A i \in 1 .. n : f[i] = G[i][f[i - 1]]

(* What is made up to one step can be made up to the next.                 *)
LEMMA MadeNext ==
    ASSUME NEW N \in Nat, NEW X, NEW x0 \in X, NEW G \in [1 .. N -> [X -> X]], NEW n \in 1 .. N,
           NEW f \in [0 .. n - 1 -> X], Made(G, x0, f, n - 1)
    PROVE  \E h \in [0 .. n -> X] : Made(G, x0, h, n)
<1>1. n - 1 \in 0 .. n - 1 /\ n # 0 /\ 0 \in 0 .. n - 1 /\ n \in 0 .. n
  OBVIOUS
<1>2. G[n][f[n - 1]] \in X
  BY <1>1
<1>3. PICK h \in [0 .. n -> X] : h = [i \in 0 .. n |-> IF i = n THEN G[n][f[n - 1]] ELSE f[i]]
  <2>1. \A i \in 0 .. n : i # n => i \in 0 .. n - 1
    OBVIOUS
  <2>2. \A i \in 0 .. n : (IF i = n THEN G[n][f[n - 1]] ELSE f[i]) \in X
    BY <2>1, <1>2
  <2>. QED
    BY <2>2
<1>4. h[n] = G[n][f[n - 1]] /\ \A i \in 0 .. n - 1 : h[i] = f[i]
  <2>1. \A i \in 0 .. n - 1 : i \in 0 .. n /\ i # n
    OBVIOUS
  <2>2. \A i \in 0 .. n : h[i] = IF i = n THEN G[n][f[n - 1]] ELSE f[i]
    BY <1>3
  <2>. QED
    BY <2>1, <2>2, <1>1
<1>5. ASSUME NEW i \in 1 .. n PROVE h[i] = G[i][h[i - 1]]
  <2>1. CASE i = n
    BY <2>1, <1>1, <1>4
  <2>2. CASE i # n
    <3>1. i \in 1 .. n - 1 /\ i \in 0 .. n - 1 /\ i - 1 \in 0 .. n - 1
      BY <2>2
    <3>. QED
      BY <3>1, <1>4 DEF Made
  <2>. QED
    BY <2>1, <2>2
<1>. QED
  BY <1>1, <1>4, <1>5 DEF Made

(* Every such value is there.                                              *)
LEMMA MadeUpTo ==
    ASSUME NEW N \in Nat, NEW X, NEW x0 \in X, NEW G \in [1 .. N -> [X -> X]]
    PROVE  \E f \in [0 .. N -> X] : Made(G, x0, f, N)
<1>. DEFINE S == {n \in 0 .. N : \E f \in [0 .. n -> X] : Made(G, x0, f, n)}
<1>1. 0 \in S
  <2>1. [i \in 0 .. 0 |-> x0] \in [0 .. 0 -> X] /\ 0 \in 0 .. N
    OBVIOUS
  <2>2. Made(G, x0, [i \in 0 .. 0 |-> x0], 0)
    BY DEF Made
  <2>. QED
    BY <2>1, <2>2
<1>2. ASSUME NEW n \in 1 .. N, n - 1 \in S PROVE n \in S
  <2>1. PICK f \in [0 .. n - 1 -> X] : Made(G, x0, f, n - 1)
    BY <1>2
  <2>2. n \in 0 .. N
    OBVIOUS
  <2>. QED
    BY <2>1, <2>2, MadeNext
<1>3. N \in 0 .. N
  OBVIOUS
<1>. HIDE DEF S
<1>4. N \in S
  BY <1>1, <1>2, <1>3, FromZero
<1>. QED
  BY <1>4 DEF S

(* What is made by these steps is made of X.                               *)
LEMMA MadeIs ==
    ASSUME NEW N \in Nat, NEW X, NEW G \in [1 .. N -> [X -> X]], NEW f,
           f[0] \in X, \A n \in 1 .. N : f[n - 1] \in X => f[n] = G[n][f[n - 1]]
    PROVE  \A n \in 0 .. N : f[n] \in X
<1>. DEFINE S == {n \in 0 .. N : f[n] \in X}
<1>1. 0 \in S
  OBVIOUS
<1>2. ASSUME NEW n \in 1 .. N, n - 1 \in S PROVE n \in S
  <2>1. n \in 0 .. N /\ f[n - 1] \in X
    BY <1>2
  <2>2. G[n][f[n - 1]] \in X
    BY <2>1
  <2>. QED
    BY <2>1, <2>2
<1>. HIDE DEF S
<1>3. \A n \in 0 .. N : n \in S
  BY <1>1, <1>2, FromZero
<1>. QED
  BY <1>3 DEF S

-----------------------------------------------------------------------------
Lists == [terms : Seq(Terms), chars : Nat, full : BOOLEAN]
LengthType == Length \in [Terms -> Nat \ {0}]

(* Every term has a length that is not 0.                                  *)
LEMMA TermsHaveALength == LengthType
BY PromptAssumption DEF PromptAssumption, LengthType

(* A term more is a list again.                                            *)
LEMMA AddTermType ==
    ASSUME NEW list \in Lists, NEW t \in Terms, NEW max_terms \in Nat, NEW max_chars \in Nat
    PROVE  AddTerm(list, t, max_terms, max_chars) \in Lists
<1>1. list.terms \in Seq(Terms) /\ list.chars \in Nat /\ list.full \in BOOLEAN
  BY DEF Lists
<1>2. Append(list.terms, t) \in Seq(Terms)
  BY <1>1
<1>. DEFINE extra == Length[t] + (IF list.terms = << >> THEN 0 ELSE 1)
<1>3. list.chars + extra \in Nat
  BY <1>1, TermsHaveALength DEF LengthType
<1>. HIDE DEF extra
<1>4. [list EXCEPT !.terms = Append(@, t), !.chars = @ + extra] \in Lists
  BY <1>2, <1>3 DEF Lists
<1>5. [list EXCEPT !.full = TRUE] \in Lists
  BY DEF Lists
<1>. QED
  BY <1>4, <1>5 DEF AddTerm, extra

(* Fill: one term after the other.                                         *)
LEMMA FillSteps ==
    ASSUME NEW terms \in Seq(Terms), NEW max_terms \in Nat, NEW max_chars \in Nat
    PROVE  \E f \in [0 .. Len(terms) -> Lists] :
              /\ f[0] = NoTerms
              /\ \A n \in 1 .. Len(terms) :
                    f[n] = AddTerm(f[n - 1], terms[n], max_terms, max_chars)
              /\ Fill(terms, max_terms, max_chars) = f[Len(terms)].terms
<1>. DEFINE N == Len(terms)
            G == [n \in 1 .. N |-> [x \in Lists |-> AddTerm(x, terms[n], max_terms, max_chars)]]
            Def(f) ==
              f = [n \in 0 .. N |->
                      IF n = 0 THEN NoTerms
                      ELSE AddTerm(f[n - 1], terms[n], max_terms, max_chars)]
<1>1. N \in Nat /\ NoTerms \in Lists /\ \A n \in 1 .. N : terms[n] \in Terms
  BY DEF NoTerms, Lists
<1>2. \A n \in 1 .. N, x \in Lists : AddTerm(x, terms[n], max_terms, max_chars) \in Lists
  BY <1>1, AddTermType
<1>3. G \in [1 .. N -> [Lists -> Lists]]
  BY <1>2
<1>4. \A n \in 1 .. N, x \in Lists : G[n][x] = AddTerm(x, terms[n], max_terms, max_chars)
  BY <1>2
<1>. HIDE DEF N, G
<1>5. PICK g \in [0 .. N -> Lists] : Made(G, NoTerms, g, N)
  BY <1>1, <1>3, MadeUpTo
<1>6. Def(g)
  <2>1. ASSUME NEW n \in 0 .. N
        PROVE  g[n] = IF n = 0 THEN NoTerms
                      ELSE AddTerm(g[n - 1], terms[n], max_terms, max_chars)
    <3>1. CASE n = 0
      BY <3>1, <1>5 DEF Made
    <3>2. CASE n # 0
      <4>1. n \in 1 .. N /\ n - 1 \in 0 .. N
        BY <3>2, <1>1
      <4>. QED
        BY <3>2, <4>1, <1>4, <1>5 DEF Made
    <3>. QED
      BY <3>1, <3>2
  <2>. QED
    BY <2>1
<1>7. Fill(terms, max_terms, max_chars) = (CHOOSE f : Def(f))[N].terms
  BY Zenon DEF Fill, N
<1>8. Def(CHOOSE f : Def(f))
  <2>. HIDE DEF Def
  <2>. QED
    BY <1>6
<1>9. PICK f : f = (CHOOSE e : Def(e))
  OBVIOUS
<1>10. Def(f) /\ Fill(terms, max_terms, max_chars) = f[N].terms
  <2>. HIDE DEF Def
  <2>1. Def(f)
    BY <1>8, <1>9, Zenon
  <2>2. Fill(terms, max_terms, max_chars) = f[N].terms
    BY <1>7, <1>9, Zenon
  <2>. QED
    BY <2>1, <2>2
<1>11. f[0] = NoTerms /\ \A n \in 1 .. N : f[n] = AddTerm(f[n - 1], terms[n], max_terms, max_chars)
  <2>1. \A n \in 0 .. N :
           f[n] = IF n = 0 THEN NoTerms ELSE AddTerm(f[n - 1], terms[n], max_terms, max_chars)
    BY <1>10
  <2>2. 0 \in 0 .. N /\ \A n \in 1 .. N : n \in 0 .. N /\ n # 0
    BY <1>1
  <2>. QED
    BY <2>1, <2>2
<1>12. f = [n \in 0 .. N |-> f[n]]
  <2>1. DOMAIN f = 0 .. N /\ f = [n \in DOMAIN f |-> f[n]]
    BY <1>10 DEF Def
  <2>. QED
    BY <2>1
<1>13. \A n \in 1 .. N : f[n - 1] \in Lists => f[n] = G[n][f[n - 1]]
  <2>1. ASSUME NEW n \in 1 .. N, NEW x \in Lists, x = f[n - 1] PROVE f[n] = G[n][x]
    BY <2>1, <1>4, <1>11
  <2>. QED
    BY <2>1
<1>14. f \in [0 .. N -> Lists]
  <2>1. f[0] \in Lists
    BY <1>1, <1>11
  <2>2. \A n \in 0 .. N : f[n] \in Lists
    BY <1>1, <1>3, <1>13, <2>1, MadeIs, Zenon
  <2>. QED
    BY <1>12, <2>2
<1>. QED
  BY <1>10, <1>11, <1>14 DEF N

(* What is kept of a list is of the set; of no list, nothing.              *)
LEMMA OnlyType ==
    ASSUME NEW S, NEW T, NEW list \in Seq(S)
    PROVE  Only(list, T) \in Seq(T) /\ (Len(list) = 0 => Only(list, T) = << >>)
<1>. DEFINE N == Len(list)
            next(x, n) == IF list[n] \in T THEN Append(x, list[n]) ELSE x
            G == [n \in 1 .. N |-> [x \in Seq(T) |-> next(x, n)]]
            Def(f) == f = [n \in 0 .. N |-> IF n = 0 THEN << >> ELSE next(f[n - 1], n)]
<1>1. N \in Nat /\ << >> \in Seq(T) /\ \A n \in 1 .. N : list[n] \in S
  OBVIOUS
<1>2. \A n \in 1 .. N, x \in Seq(T) : next(x, n) \in Seq(T)
  OBVIOUS
<1>3. G \in [1 .. N -> [Seq(T) -> Seq(T)]]
  BY <1>2
<1>4. \A n \in 1 .. N, x \in Seq(T) : G[n][x] = next(x, n)
  BY <1>2
<1>. HIDE DEF N, G
<1>5. PICK g \in [0 .. N -> Seq(T)] : Made(G, << >>, g, N)
  BY <1>1, <1>3, MadeUpTo
<1>6. Def(g)
  <2>1. ASSUME NEW n \in 0 .. N PROVE g[n] = IF n = 0 THEN << >> ELSE next(g[n - 1], n)
    <3>1. CASE n = 0
      BY <3>1, <1>5 DEF Made
    <3>2. CASE n # 0
      <4>1. n \in 1 .. N /\ n - 1 \in 0 .. N
        BY <3>2, <1>1
      <4>. QED
        BY <3>2, <4>1, <1>4, <1>5 DEF Made
    <3>. QED
      BY <3>1, <3>2
  <2>. QED
    BY <2>1
<1>7. Only(list, T) = (CHOOSE f : Def(f))[N]
  BY Zenon DEF Only, N
<1>8. Def(CHOOSE f : Def(f))
  <2>. HIDE DEF Def
  <2>. QED
    BY <1>6
<1>9. PICK f : f = (CHOOSE e : Def(e))
  OBVIOUS
<1>10. Def(f) /\ Only(list, T) = f[N]
  <2>. HIDE DEF Def
  <2>1. Def(f)
    BY <1>8, <1>9, Zenon
  <2>2. Only(list, T) = f[N]
    BY <1>7, <1>9, Zenon
  <2>. QED
    BY <2>1, <2>2
<1>11. f[0] = << >> /\ \A n \in 1 .. N : f[n] = next(f[n - 1], n)
  <2>1. \A n \in 0 .. N : f[n] = IF n = 0 THEN << >> ELSE next(f[n - 1], n)
    BY <1>10
  <2>2. 0 \in 0 .. N /\ \A n \in 1 .. N : n \in 0 .. N /\ n # 0
    BY <1>1
  <2>. QED
    BY <2>1, <2>2
<1>12. f = [n \in 0 .. N |-> f[n]]
  <2>1. DOMAIN f = 0 .. N /\ f = [n \in DOMAIN f |-> f[n]]
    BY <1>10 DEF Def
  <2>. QED
    BY <2>1
<1>13. \A n \in 1 .. N : f[n - 1] \in Seq(T) => f[n] = G[n][f[n - 1]]
  <2>1. ASSUME NEW n \in 1 .. N, NEW x \in Seq(T), x = f[n - 1] PROVE f[n] = G[n][x]
    BY <2>1, <1>4, <1>11
  <2>. QED
    BY <2>1
<1>14. f \in [0 .. N -> Seq(T)]
  <2>1. f[0] \in Seq(T)
    BY <1>1, <1>11
  <2>2. \A n \in 0 .. N : f[n] \in Seq(T)
    BY <1>1, <1>3, <1>13, <2>1, MadeIs, Zenon
  <2>. QED
    BY <1>12, <2>2
<1>15. Only(list, T) = f[N]
  BY <1>10
<1>16. Only(list, T) \in Seq(T)
  BY <1>1, <1>14, <1>15
<1>17. Len(list) = 0 => Only(list, T) = << >>
  BY <1>11, <1>15 DEF N
<1>. QED
  BY <1>16, <1>17

(* Cost: one length after the other.                                       *)
LEMMA CostSteps ==
    ASSUME NEW terms \in Seq(Terms)
    PROVE  \E f \in [0 .. Len(terms) -> Nat] :
              /\ f[0] = 0 /\ \A n \in 1 .. Len(terms) : f[n] = f[n - 1] + Length[terms[n]]
              /\ Cost(terms) = f[Len(terms)] + Greater(0, Len(terms) - 1)
<1>. DEFINE N == Len(terms)
            G == [n \in 1 .. N |-> [x \in Nat |-> x + Length[terms[n]]]]
            Def(f) == f = [n \in 0 .. N |-> IF n = 0 THEN 0 ELSE f[n - 1] + Length[terms[n]]]
<1>1. N \in Nat /\ 0 \in Nat /\ \A n \in 1 .. N : terms[n] \in Terms
  OBVIOUS
<1>2. \A n \in 1 .. N, x \in Nat : x + Length[terms[n]] \in Nat
  BY <1>1, TermsHaveALength DEF LengthType
<1>3. G \in [1 .. N -> [Nat -> Nat]]
  BY <1>2
<1>4. \A n \in 1 .. N, x \in Nat : G[n][x] = x + Length[terms[n]]
  BY <1>2
<1>. HIDE DEF N, G
<1>5. PICK g \in [0 .. N -> Nat] : Made(G, 0, g, N)
  BY <1>1, <1>3, MadeUpTo
<1>6. Def(g)
  <2>1. ASSUME NEW n \in 0 .. N PROVE g[n] = IF n = 0 THEN 0 ELSE g[n - 1] + Length[terms[n]]
    <3>1. CASE n = 0
      BY <3>1, <1>5 DEF Made
    <3>2. CASE n # 0
      <4>1. n \in 1 .. N /\ n - 1 \in 0 .. N
        BY <3>2, <1>1
      <4>. QED
        BY <3>2, <4>1, <1>4, <1>5 DEF Made
    <3>. QED
      BY <3>1, <3>2
  <2>. QED
    BY <2>1
<1>7. Cost(terms) = (CHOOSE f : Def(f))[N] + Greater(0, N - 1)
  BY Zenon DEF Cost, N
<1>8. Def(CHOOSE f : Def(f))
  <2>. HIDE DEF Def
  <2>. QED
    BY <1>6
<1>9. PICK f : f = (CHOOSE e : Def(e))
  OBVIOUS
<1>10. Def(f) /\ Cost(terms) = f[N] + Greater(0, N - 1)
  <2>. HIDE DEF Def
  <2>1. Def(f)
    BY <1>8, <1>9, Zenon
  <2>2. Cost(terms) = f[N] + Greater(0, N - 1)
    BY <1>7, <1>9, Zenon
  <2>. QED
    BY <2>1, <2>2
<1>11. f[0] = 0 /\ \A n \in 1 .. N : f[n] = f[n - 1] + Length[terms[n]]
  <2>1. \A n \in 0 .. N : f[n] = IF n = 0 THEN 0 ELSE f[n - 1] + Length[terms[n]]
    BY <1>10
  <2>2. 0 \in 0 .. N /\ \A n \in 1 .. N : n \in 0 .. N /\ n # 0
    BY <1>1
  <2>. QED
    BY <2>1, <2>2
<1>12. f = [n \in 0 .. N |-> f[n]]
  <2>1. DOMAIN f = 0 .. N /\ f = [n \in DOMAIN f |-> f[n]]
    BY <1>10 DEF Def
  <2>. QED
    BY <2>1
<1>13. \A n \in 1 .. N : f[n - 1] \in Nat => f[n] = G[n][f[n - 1]]
  <2>1. ASSUME NEW n \in 1 .. N, NEW x \in Nat, x = f[n - 1] PROVE f[n] = G[n][x]
    BY <2>1, <1>4, <1>11
  <2>. QED
    BY <2>1
<1>14. f \in [0 .. N -> Nat]
  <2>1. f[0] \in Nat
    BY <1>1, <1>11
  <2>2. \A n \in 0 .. N : f[n] \in Nat
    BY <1>1, <1>3, <1>13, <2>1, MadeIs, Zenon
  <2>. QED
    BY <1>12, <2>2
<1>. QED
  BY <1>10, <1>11, <1>14 DEF N

(* The delimiter takes a character before every term but the first.        *)
LEMMA CostIs ==
    /\ Cost(<< >>) = 0
    /\ \A p \in Seq(Terms) : Cost(p) \in Nat
    /\ \A p \in Seq(Terms), t \in Terms :
          Cost(Append(p, t)) = Cost(p) + Length[t] + (IF p = << >> THEN 0 ELSE 1)
<1>1. Cost(<< >>) = 0
  <2>1. << >> \in Seq(Terms) /\ Len(<< >>) = 0
    OBVIOUS
  <2>2. PICK f : f[0] = 0 /\ Cost(<< >>) = f[0] + Greater(0, 0 - 1)
    BY <2>1, CostSteps
  <2>. QED
    BY <2>2 DEF Greater
<1>2. ASSUME NEW p \in Seq(Terms) PROVE Cost(p) \in Nat
  <2>1. PICK f \in [0 .. Len(p) -> Nat] : Cost(p) = f[Len(p)] + Greater(0, Len(p) - 1)
    BY CostSteps
  <2>2. Len(p) \in 0 .. Len(p) /\ Len(p) \in Nat
    OBVIOUS
  <2>3. f[Len(p)] \in Nat
    BY <2>1, <2>2
  <2>. QED
    BY <2>1, <2>2, <2>3 DEF Greater
<1>3. ASSUME NEW p \in Seq(Terms), NEW t \in Terms
      PROVE  Cost(Append(p, t)) = Cost(p) + Length[t] + (IF p = << >> THEN 0 ELSE 1)
  <2>. DEFINE N == Len(p)
              q == Append(p, t)
  <2>1. N \in Nat /\ q \in Seq(Terms) /\ Len(q) = N + 1 /\ q[N + 1] = t
        /\ \A n \in 1 .. N : q[n] = p[n] /\ p[n] \in Terms
    OBVIOUS
  <2>2. PICK f \in [0 .. N -> Nat] :
           /\ f[0] = 0 /\ \A n \in 1 .. N : f[n] = f[n - 1] + Length[p[n]]
           /\ Cost(p) = f[N] + Greater(0, N - 1)
    BY CostSteps
  <2>. HIDE DEF q
  <2>3. PICK g \in [0 .. N + 1 -> Nat] :
           /\ g[0] = 0 /\ \A n \in 1 .. N + 1 : g[n] = g[n - 1] + Length[q[n]]
           /\ Cost(q) = g[N + 1] + Greater(0, N)
    <3>1. PICK g \in [0 .. Len(q) -> Nat] :
             /\ g[0] = 0 /\ \A n \in 1 .. Len(q) : g[n] = g[n - 1] + Length[q[n]]
             /\ Cost(q) = g[Len(q)] + Greater(0, Len(q) - 1)
      BY <2>1, CostSteps
    <3>2. Len(q) - 1 = N
      BY <2>1
    <3>. QED
      BY <2>1, <3>1, <3>2
  <2>. HIDE DEF N
  <2>. DEFINE S == {n \in 0 .. N : f[n] = g[n]}
  <2>4. 0 \in S
    BY <2>1, <2>2, <2>3
  <2>5. ASSUME NEW n \in 1 .. N, n - 1 \in S PROVE n \in S
    <3>1. n \in 0 .. N /\ n \in 1 .. N + 1 /\ f[n - 1] = g[n - 1]
      BY <2>1, <2>5
    <3>2. f[n] = f[n - 1] + Length[p[n]] /\ g[n] = g[n - 1] + Length[p[n]]
      BY <2>1, <2>2, <2>3, <3>1
    <3>. QED
      BY <3>1, <3>2
  <2>6. N \in S
    <3>. HIDE DEF S
    <3>1. N \in 0 .. N
      BY <2>1
    <3>. QED
      BY <2>1, <2>4, <2>5, <3>1, FromZero
  <2>7. Cost(q) = f[N] + Length[t] + Greater(0, N)
    <3>1. N + 1 \in 1 .. N + 1 /\ (N + 1) - 1 = N
      BY <2>1
    <3>2. g[N + 1] = g[N] + Length[q[N + 1]]
      BY <2>3, <3>1
    <3>3. g[N] = f[N]
      BY <2>6 DEF S
    <3>4. q[N + 1] = t
      BY <2>1
    <3>. QED
      BY <2>3, <3>2, <3>3, <3>4
  <2>8. f[N] \in Nat /\ Length[t] \in Nat
    BY <2>1, <2>2, TermsHaveALength DEF LengthType
  <2>9. (p = << >>) <=> (N = 0)
    BY DEF N
  <2>10. Greater(0, N) = Greater(0, N - 1) + (IF N = 0 THEN 0 ELSE 1)
    BY <2>1 DEF Greater
  <2>11. Greater(0, N - 1) \in Nat
    BY <2>1 DEF Greater
  <2>. QED
    BY <2>2, <2>7, <2>8, <2>9, <2>10, <2>11 DEF q
<1>. QED
  BY <1>1, <1>2, <1>3

-----------------------------------------------------------------------------
(* The first occurrences among the first terms.                            *)
LEMMA FirstsAre ==
    ASSUME NEW terms, NEW n \in Nat
    PROVE  /\ IsFiniteSet(Firsts(terms, n)) /\ Cardinality(Firsts(terms, n)) \in Nat
           /\ \A i \in Firsts(terms, n) : /\ i \in 1 .. n /\ i \in Firsts(terms, i)
                                          /\ Firsts(terms, i) \subseteq Firsts(terms, n)
           /\ n = 0 => Firsts(terms, n) = {}
<1>1. Firsts(terms, n) \subseteq 1 .. n /\ IsFiniteSet(1 .. n)
  BY FS_Interval DEF Firsts
<1>2. IsFiniteSet(Firsts(terms, n))
  BY <1>1, FS_Subset
<1>3. Cardinality(Firsts(terms, n)) \in Nat
  BY <1>2, FS_CardinalityType
<1>4. \A i \in Firsts(terms, n) : /\ i \in 1 .. n /\ i \in Firsts(terms, i)
                                  /\ Firsts(terms, i) \subseteq Firsts(terms, n)
  BY DEF Firsts
<1>. QED
  BY <1>1, <1>2, <1>3, <1>4

(* The next term is a first occurrence exactly when it was not there       *)
(* before.                                                                 *)
LEMMA FirstsNext ==
    ASSUME NEW terms, NEW n \in Nat \ {0}
    PROVE  LET seen == {terms[i] : i \in 1 .. n - 1} IN
           /\ terms[n] \in seen => Firsts(terms, n) = Firsts(terms, n - 1)
           /\ terms[n] \notin seen =>
                 /\ n \in Firsts(terms, n) /\ Firsts(terms, n) = Firsts(terms, n - 1) \cup {n}
                 /\ Cardinality(Firsts(terms, n)) = Cardinality(Firsts(terms, n - 1)) + 1
<1>. DEFINE seen == {terms[i] : i \in 1 .. n - 1}
<1>1. ASSUME terms[n] \in seen PROVE Firsts(terms, n) = Firsts(terms, n - 1)
  BY <1>1 DEF Firsts
<1>2. ASSUME terms[n] \notin seen
      PROVE  /\ n \in Firsts(terms, n) /\ Firsts(terms, n) = Firsts(terms, n - 1) \cup {n}
             /\ Cardinality(Firsts(terms, n)) = Cardinality(Firsts(terms, n - 1)) + 1
  <2>1. n \in Firsts(terms, n) /\ Firsts(terms, n) = Firsts(terms, n - 1) \cup {n}
    BY <1>2 DEF Firsts
  <2>2. n - 1 \in Nat /\ n \notin Firsts(terms, n - 1)
    BY DEF Firsts
  <2>3. IsFiniteSet(Firsts(terms, n - 1))
    BY <2>2, FirstsAre
  <2>. QED
    BY <2>1, <2>2, <2>3, FS_AddElement
<1>. QED
  BY <1>1, <1>2

-----------------------------------------------------------------------------
(* A list that holds the first n terms, each once, and no more.            *)
Holds(p, terms, n) == IsCut(p, terms, n) /\ Range(p) = {terms[i] : i \in 1 .. n}

(* Of no terms, the empty list holds all;                                  *)
LEMMA HoldsNone ==
    ASSUME NEW terms
    PROVE  Holds(<< >>, terms, 0)
<1>1. Firsts(terms, 0) = {} /\ Len(<< >>) = 0
  BY FirstsAre
<1>2. Cardinality(Firsts(terms, 0)) = 0
  BY <1>1, FS_EmptySet
<1>3. Range(<< >>) = {}
  BY DEF Range
<1>. QED
  BY <1>1, <1>2, <1>3 DEF Holds, IsCut

(* of a term that is in it, nothing more is needed;                        *)
LEMMA HoldsOld ==
    ASSUME NEW terms \in Seq(Terms), NEW n \in 1 .. Len(terms), NEW p \in Seq(Terms),
           Holds(p, terms, n - 1), terms[n] \in Range(p)
    PROVE  Holds(p, terms, n)
<1>1. terms[n] \in {terms[i] : i \in 1 .. n - 1} /\ n \in Nat \ {0}
  BY DEF Holds
<1>2. Firsts(terms, n) = Firsts(terms, n - 1)
  BY <1>1, FirstsNext
<1>3. {terms[i] : i \in 1 .. n} = {terms[i] : i \in 1 .. n - 1} \cup {terms[n]}
  OBVIOUS
<1>. QED
  BY <1>1, <1>2, <1>3 DEF Holds, IsCut

(* of a new one, to append it is enough.                                   *)
LEMMA HoldsNew ==
    ASSUME NEW terms \in Seq(Terms), NEW n \in 1 .. Len(terms), NEW p \in Seq(Terms),
           Holds(p, terms, n - 1), terms[n] \notin Range(p)
    PROVE  Holds(Append(p, terms[n]), terms, n)
<1>. DEFINE q == Append(p, terms[n])
<1>1. n \in Nat \ {0} /\ n - 1 \in Nat /\ terms[n] \notin {terms[i] : i \in 1 .. n - 1}
      /\ terms[n] \in Terms
  BY DEF Holds
<1>2. /\ n \in Firsts(terms, n) /\ Firsts(terms, n) = Firsts(terms, n - 1) \cup {n}
      /\ Cardinality(Firsts(terms, n)) = Cardinality(Firsts(terms, n - 1)) + 1
  BY <1>1, FirstsNext
<1>3. /\ Len(q) = Len(p) + 1 /\ Len(p) \in Nat /\ q[Len(p) + 1] = terms[n]
      /\ \A k \in 1 .. Len(p) : q[k] = p[k]
  BY <1>1
<1>4. Len(p) = Cardinality(Firsts(terms, n - 1))
      /\ \A i \in Firsts(terms, n - 1) : p[Cardinality(Firsts(terms, i))] = terms[i]
  BY DEF Holds, IsCut
<1>5. ASSUME NEW i \in Firsts(terms, n - 1) PROVE Cardinality(Firsts(terms, i)) \in 1 .. Len(p)
  <2>1. i \in Nat /\ i \in Firsts(terms, i) /\ Firsts(terms, i) \subseteq Firsts(terms, n - 1)
    BY <1>1, FirstsAre
  <2>2. IsFiniteSet(Firsts(terms, n - 1)) /\ Cardinality(Firsts(terms, i)) \in Nat
        /\ IsFiniteSet(Firsts(terms, i))
    BY <1>1, <2>1, FirstsAre
  <2>3. Cardinality(Firsts(terms, i)) <= Cardinality(Firsts(terms, n - 1))
    BY <2>1, <2>2, FS_Subset
  <2>4. Cardinality(Firsts(terms, i)) # 0
    BY <2>1, <2>2, FS_EmptySet
  <2>. QED
    BY <1>3, <1>4, <2>2, <2>3, <2>4
<1>. HIDE DEF q
<1>6. ASSUME NEW i \in Firsts(terms, n) PROVE q[Cardinality(Firsts(terms, i))] = terms[i]
  <2>1. CASE i = n
    BY <2>1, <1>2, <1>3, <1>4
  <2>2. CASE i # n
    BY <2>2, <1>2, <1>3, <1>4, <1>5
  <2>. QED
    BY <2>1, <2>2
<1>7. Range(q) = {terms[i] : i \in 1 .. n}
  <2>1. Range(q) = Range(p) \cup {terms[n]}
    <3>1. DOMAIN q = 1 .. Len(p) + 1 /\ DOMAIN p = 1 .. Len(p)
      BY <1>1 DEF q
    <3>2. Range(q) = {q[k] : k \in 1 .. Len(p) + 1} /\ Range(p) = {p[k] : k \in 1 .. Len(p)}
      BY <3>1 DEF Range
    <3>3. \A k \in 1 .. Len(p) + 1 : k \in 1 .. Len(p) \/ k = Len(p) + 1
      BY <1>3
    <3>4. Len(p) + 1 \in 1 .. Len(p) + 1 /\ \A k \in 1 .. Len(p) : k \in 1 .. Len(p) + 1
      BY <1>3
    <3>. QED
      BY <3>2, <3>3, <3>4, <1>3
  <2>2. {terms[i] : i \in 1 .. n} = {terms[i] : i \in 1 .. n - 1} \cup {terms[n]}
    OBVIOUS
  <2>. QED
    BY <2>1, <2>2 DEF Holds
<1>8. IsCut(q, terms, n)
  BY <1>2, <1>3, <1>4, <1>6 DEF IsCut
<1>. QED
  BY <1>7, <1>8 DEF Holds, q

(* What is left out when a list is full: a term that is new and too long.  *)
TooMuch(p, terms, n, max_terms, max_chars) ==
    n < Len(terms) => /\ n + 1 \in Firsts(terms, n + 1)
                      /\ ~Fits(Append(p, terms[n + 1]), max_terms, max_chars)

(* The list after n terms.                                                 *)
After(list, terms, n, max_terms, max_chars) ==
    /\ list.chars = Cost(list.terms) /\ Fits(list.terms, max_terms, max_chars)
    /\ list.full = FALSE => Holds(list.terms, terms, n)
    /\ list.full = TRUE =>
          \E m \in 0 .. n - 1 : /\ Holds(list.terms, terms, m)
                                /\ TooMuch(list.terms, terms, m, max_terms, max_chars)

(* add_term keeps this.                                                    *)
LEMMA AfterNext ==
    ASSUME NEW terms \in Seq(Terms), NEW n \in 1 .. Len(terms), NEW max_terms \in Nat,
           NEW max_chars \in Nat, NEW list \in Lists,
           After(list, terms, n - 1, max_terms, max_chars)
    PROVE  After(AddTerm(list, terms[n], max_terms, max_chars), terms, n, max_terms, max_chars)
<1>. DEFINE t == terms[n]
            next == AddTerm(list, t, max_terms, max_chars)
            extra == Length[t] + (IF list.terms = << >> THEN 0 ELSE 1)
<1>1. list.terms \in Seq(Terms) /\ list.chars \in Nat /\ list.full \in BOOLEAN /\ t \in Terms
  BY DEF Lists
<1>2. CASE list.full = TRUE
  <2>1. next = list
    BY <1>2 DEF AddTerm
  <2>2. \A m \in 0 .. (n - 1) - 1 : m \in 0 .. n - 1
    OBVIOUS
  <2>. HIDE DEF next
  <2>. QED
    BY <1>2, <2>1, <2>2 DEF After, next
<1>3. CASE list.full = FALSE /\ t \in Range(list.terms)
  <2>1. next = list
    BY <1>3 DEF AddTerm
  <2>2. Holds(list.terms, terms, n)
    BY <1>1, <1>3, HoldsOld DEF After
  <2>. HIDE DEF next
  <2>. QED
    BY <1>3, <2>1, <2>2 DEF After, next
<1>4. CASE list.full = FALSE /\ t \notin Range(list.terms)
  <2>1. Cost(Append(list.terms, t)) = list.chars + extra /\ extra \in Nat
    <3>1. Cost(Append(list.terms, t))
             = Cost(list.terms) + Length[t] + (IF list.terms = << >> THEN 0 ELSE 1)
      BY <1>1, CostIs
    <3>2. list.chars = Cost(list.terms)
      BY DEF After
    <3>3. Length[t] \in Nat
      BY <1>1, TermsHaveALength DEF LengthType
    <3>. QED
      BY <1>1, <3>1, <3>2, <3>3
  <2>2. Len(Append(list.terms, t)) = Len(list.terms) + 1 /\ Len(list.terms) \in Nat
    BY <1>1
  <2>3. Holds(list.terms, terms, n - 1)
    BY <1>4 DEF After
  <2>. HIDE DEF extra
  <2>4. CASE Len(list.terms) >= max_terms \/ list.chars + extra > max_chars
    <3>1. next = [list EXCEPT !.full = TRUE]
      BY <1>4, <2>4 DEF AddTerm, extra
    <3>2. next.terms = list.terms /\ next.chars = list.chars /\ next.full = TRUE
      BY <3>1 DEF Lists
    <3>3. ~Fits(Append(list.terms, t), max_terms, max_chars)
      BY <1>1, <2>1, <2>2, <2>4 DEF Fits
    <3>4. n \in Firsts(terms, n)
      BY <1>4, <2>3, FirstsNext DEF Holds
    <3>5. TooMuch(list.terms, terms, n - 1, max_terms, max_chars)
      <4>1. (n - 1) + 1 = n
        OBVIOUS
      <4>. QED
        BY <4>1, <3>3, <3>4 DEF TooMuch
    <3>6. n - 1 \in 0 .. n - 1
      OBVIOUS
    <3>. HIDE DEF next
    <3>7. \E m \in 0 .. n - 1 : /\ Holds(next.terms, terms, m)
                                /\ TooMuch(next.terms, terms, m, max_terms, max_chars)
      BY <2>3, <3>2, <3>5, <3>6
    <3>8. next.chars = Cost(next.terms) /\ Fits(next.terms, max_terms, max_chars)
      BY <3>2 DEF After
    <3>. QED
      BY <3>2, <3>7, <3>8 DEF After, next
  <2>5. CASE ~ (Len(list.terms) >= max_terms \/ list.chars + extra > max_chars)
    <3>1. next = [list EXCEPT !.terms = Append(list.terms, t), !.chars = list.chars + extra]
      BY <1>4, <2>5 DEF AddTerm, extra
    <3>2. next.terms = Append(list.terms, t) /\ next.chars = list.chars + extra
          /\ next.full = FALSE
      BY <1>4, <3>1 DEF Lists
    <3>3. Fits(Append(list.terms, t), max_terms, max_chars)
      BY <1>1, <2>1, <2>2, <2>5 DEF Fits
    <3>4. Holds(Append(list.terms, t), terms, n)
      BY <1>1, <1>4, <2>3, HoldsNew
    <3>. HIDE DEF next
    <3>. QED
      BY <2>1, <3>2, <3>3, <3>4 DEF After, next
  <2>. QED
    BY <2>4, <2>5
<1>. QED
  BY <1>1, <1>2, <1>3, <1>4

(* Fill cuts its terms where the budget ends, no sooner and no later.      *)
LEMMA FillIs ==
    ASSUME NEW terms \in Seq(Terms), NEW max_terms \in Nat, NEW max_chars \in Nat
    PROVE  /\ Fill(terms, max_terms, max_chars) \in Seq(Terms)
           /\ Fits(Fill(terms, max_terms, max_chars), max_terms, max_chars)
           /\ \E n \in 0 .. Len(terms) :
                 /\ Holds(Fill(terms, max_terms, max_chars), terms, n)
                 /\ TooMuch(Fill(terms, max_terms, max_chars), terms, n, max_terms, max_chars)
<1>. DEFINE N == Len(terms)
<1>1. PICK f \in [0 .. N -> Lists] :
         /\ f[0] = NoTerms
         /\ \A n \in 1 .. N : f[n] = AddTerm(f[n - 1], terms[n], max_terms, max_chars)
         /\ Fill(terms, max_terms, max_chars) = f[N].terms
  BY FillSteps
<1>. DEFINE S == {n \in 0 .. N : After(f[n], terms, n, max_terms, max_chars)}
<1>2. N \in Nat
  OBVIOUS
<1>. HIDE DEF N
<1>3. 0 \in S
  <2>1. NoTerms.terms = << >> /\ NoTerms.chars = 0 /\ NoTerms.full = FALSE
    BY DEF NoTerms
  <2>2. Fits(<< >>, max_terms, max_chars)
    BY CostIs DEF Fits
  <2>3. After(NoTerms, terms, 0, max_terms, max_chars)
    BY <2>1, <2>2, CostIs, HoldsNone DEF After
  <2>. QED
    BY <1>1, <1>2, <2>3
<1>4. ASSUME NEW n \in 1 .. N, n - 1 \in S PROVE n \in S
  <2>1. n \in 0 .. N /\ n - 1 \in 0 .. N /\ f[n - 1] \in Lists
    BY <1>1, <1>2
  <2>2. After(f[n], terms, n, max_terms, max_chars)
    BY <1>1, <1>4, <2>1, AfterNext DEF N
  <2>. QED
    BY <2>1, <2>2
<1>5. After(f[N], terms, N, max_terms, max_chars) /\ f[N] \in Lists
  <2>1. N \in 0 .. N
    BY <1>2
  <2>2. N \in S
    <3>. HIDE DEF S
    <3>. QED
      BY <1>2, <1>3, <1>4, <2>1, FromZero
  <2>. QED
    BY <1>1, <2>1, <2>2
<1>6. f[N].terms \in Seq(Terms) /\ f[N].full \in BOOLEAN
  BY <1>5 DEF Lists
<1>7. \E n \in 0 .. N : /\ Holds(f[N].terms, terms, n)
                        /\ TooMuch(f[N].terms, terms, n, max_terms, max_chars)
  <2>1. CASE f[N].full = FALSE
    <3>1. Holds(f[N].terms, terms, N) /\ N \in 0 .. N
      BY <1>2, <1>5, <2>1 DEF After
    <3>2. TooMuch(f[N].terms, terms, N, max_terms, max_chars)
      BY <1>2 DEF TooMuch, N
    <3>. QED
      BY <3>1, <3>2
  <2>2. CASE f[N].full = TRUE
    <3>1. \A m \in 0 .. N - 1 : m \in 0 .. N
      BY <1>2
    <3>. QED
      BY <1>5, <2>2, <3>1 DEF After
  <2>. QED
    BY <1>6, <2>1, <2>2
<1>8. Fits(f[N].terms, max_terms, max_chars)
  BY <1>5 DEF After
<1>. QED
  BY <1>1, <1>6, <1>7, <1>8 DEF N

(* This is what a list cut to a budget should be.                          *)
LEMMA FillIsLongest ==
    ASSUME NEW terms \in Seq(Terms), NEW max_terms \in Nat, NEW max_chars \in Nat
    PROVE  IsLongestPrefix(Fill(terms, max_terms, max_chars), terms, max_terms, max_chars)
BY FillIs DEF IsLongestPrefix, Holds, TooMuch

-----------------------------------------------------------------------------
(* The order of tuples: the first difference decides.                      *)
Lex(a, b) == \E k \in 1 .. 5 : a[k] > b[k] /\ \A l \in 1 .. k - 1 : a[l] = b[l]
IntKey(a) == \A k \in 1 .. 5 : a[k] \in Int

(* Nothing comes before itself,                                            *)
LEMMA LexIsStrict ==
    ASSUME NEW a, IntKey(a)
    PROVE  ~ Lex(a, a)
BY DEF IntKey, Lex

(* what comes before one comes before all after that one,                  *)
LEMMA LexIsTransitive ==
    ASSUME NEW a, NEW b, NEW c, IntKey(a), IntKey(b), IntKey(c), Lex(a, b), Lex(b, c)
    PROVE  Lex(a, c)
<1>1. PICK k \in 1 .. 5 : a[k] > b[k] /\ \A l \in 1 .. k - 1 : a[l] = b[l]
  BY DEF Lex
<1>2. PICK m \in 1 .. 5 : b[m] > c[m] /\ \A l \in 1 .. m - 1 : b[l] = c[l]
  BY DEF Lex
<1>3. a[k] \in Int /\ b[k] \in Int /\ c[k] \in Int /\ a[m] \in Int /\ b[m] \in Int /\ c[m] \in Int
  BY DEF IntKey
<1>4. CASE k <= m
  <2>1. a[k] > c[k] /\ \A l \in 1 .. k - 1 : a[l] = c[l]
    <3>1. b[k] >= c[k]
      BY <1>2, <1>3, <1>4
    <3>2. \A l \in 1 .. k - 1 : l \in 1 .. m - 1
      BY <1>4
    <3>. QED
      BY <1>1, <1>2, <1>3, <3>1, <3>2
  <2>. QED
    BY <2>1 DEF Lex
<1>5. CASE m < k
  <2>1. a[m] > c[m] /\ \A l \in 1 .. m - 1 : a[l] = c[l]
    <3>1. m \in 1 .. k - 1 /\ \A l \in 1 .. m - 1 : l \in 1 .. k - 1
      BY <1>5
    <3>. QED
      BY <1>1, <1>2, <3>1
  <2>. QED
    BY <2>1 DEF Lex
<1>. QED
  BY <1>4, <1>5

(* and of two that differ one comes first.                                 *)
LEMMA LexIsTotal ==
    ASSUME NEW a, NEW b, IntKey(a), IntKey(b), NEW d \in 1 .. 5, a[d] # b[d]
    PROVE  Lex(a, b) \/ Lex(b, a)
<1>. DEFINE D == {k \in 1 .. 5 : a[k] # b[k]}
<1>1. PICK k \in D : \A l \in D : k <= l
  <2>1. D \in SUBSET Nat /\ d \in D
    OBVIOUS
  <2>. HIDE DEF D
  <2>. QED
    BY <2>1, LeastNumber
<1>2. \A l \in 1 .. k - 1 : a[l] = b[l]
  <2>1. \A l \in 1 .. k - 1 : l \in 1 .. 5 /\ ~ (k <= l)
    OBVIOUS
  <2>. QED
    BY <1>1, <2>1
<1>3. k \in 1 .. 5 /\ (a[k] > b[k] \/ b[k] > a[k])
  BY <1>1 DEF IntKey
<1>. QED
  BY <1>2, <1>3 DEF Lex

-----------------------------------------------------------------------------
(* The members of a finite set in a strict total order R are numbered by   *)
(* how many come before.                                                   *)
Earlier(C, R, i) == {j \in C : <<j, i>> \in R}
Orders(R, C) ==
    /\ \A i \in C : <<i, i>> \notin R
    /\ \A i, j, k \in C : <<i, j>> \in R /\ <<j, k>> \in R => <<i, k>> \in R
    /\ \A i, j \in C : i # j => <<i, j>> \in R \/ <<j, i>> \in R

(* Who comes first has fewer before it.                                    *)
LEMMA EarlierGrows ==
    ASSUME NEW C, IsFiniteSet(C), NEW R, Orders(R, C), NEW i \in C, NEW j \in C, <<i, j>> \in R
    PROVE  Cardinality(Earlier(C, R, i)) < Cardinality(Earlier(C, R, j))
<1>1. /\ Earlier(C, R, i) \subseteq Earlier(C, R, j)
      /\ i \in Earlier(C, R, j) /\ i \notin Earlier(C, R, i)
  BY DEF Earlier, Orders
<1>2. IsFiniteSet(Earlier(C, R, i)) /\ IsFiniteSet(Earlier(C, R, j))
  <2>1. Earlier(C, R, i) \subseteq C /\ Earlier(C, R, j) \subseteq C
    BY DEF Earlier
  <2>. QED
    BY <2>1, FS_Subset
<1>3. /\ Cardinality(Earlier(C, R, i)) <= Cardinality(Earlier(C, R, j))
      /\ Cardinality(Earlier(C, R, i)) # Cardinality(Earlier(C, R, j))
  BY <1>1, <1>2, FS_Subset
<1>4. Cardinality(Earlier(C, R, i)) \in Nat /\ Cardinality(Earlier(C, R, j)) \in Nat
  BY <1>2, FS_CardinalityType
<1>. QED
  BY <1>3, <1>4

(* No place is taken twice.                                                *)
LEMMA PlacesDiffer ==
    ASSUME NEW C, IsFiniteSet(C), NEW R, Orders(R, C), NEW i \in C, NEW j \in C,
           Cardinality(Earlier(C, R, i)) = Cardinality(Earlier(C, R, j))
    PROVE  i = j
<1>. DEFINE a == Cardinality(Earlier(C, R, i))
            b == Cardinality(Earlier(C, R, j))
<1>1. a \in Nat /\ b \in Nat
  <2>1. Earlier(C, R, i) \subseteq C /\ Earlier(C, R, j) \subseteq C
    BY DEF Earlier
  <2>2. IsFiniteSet(Earlier(C, R, i)) /\ IsFiniteSet(Earlier(C, R, j))
    BY <2>1, FS_Subset
  <2>. QED
    BY <2>2, FS_CardinalityType
<1>2. ~ (a < b) /\ ~ (b < a)
  BY <1>1
<1>3. <<i, j>> \notin R
  BY <1>2, EarlierGrows
<1>4. <<j, i>> \notin R
  BY <1>2, EarlierGrows
<1>. QED
  BY <1>3, <1>4 DEF Orders

(* The places are below the number of members.                             *)
LEMMA PlacesAreBelow ==
    ASSUME NEW C, IsFiniteSet(C), NEW R, Orders(R, C), NEW i \in C
    PROVE  Cardinality(Earlier(C, R, i)) \in 0 .. Cardinality(C) - 1
<1>1. Earlier(C, R, i) \subseteq C /\ i \notin Earlier(C, R, i)
  BY DEF Earlier, Orders
<1>2. /\ Cardinality(Earlier(C, R, i)) <= Cardinality(C)
      /\ Cardinality(Earlier(C, R, i)) # Cardinality(C)
      /\ IsFiniteSet(Earlier(C, R, i))
  BY <1>1, FS_Subset
<1>3. Cardinality(Earlier(C, R, i)) \in Nat /\ Cardinality(C) \in Nat
  BY <1>2, FS_CardinalityType
<1>. QED
  BY <1>2, <1>3

(* Every place is taken.                                                   *)
LEMMA EveryPlaceIsTaken ==
    ASSUME NEW C, IsFiniteSet(C), NEW R, Orders(R, C), NEW k \in 0 .. Cardinality(C) - 1
    PROVE  \E i \in C : Cardinality(Earlier(C, R, i)) = k
<1>. DEFINE n == Cardinality(C)
            f == [i \in C |-> Cardinality(Earlier(C, R, i))]
            I == {f[i] : i \in C}
<1>1. n \in Nat
  BY FS_CardinalityType
<1>2. ASSUME NEW i \in C PROVE f[i] \in 0 .. n - 1
  BY PlacesAreBelow
<1>3. ASSUME NEW i \in C, NEW j \in C, f[i] = f[j] PROVE i = j
  BY <1>3, PlacesDiffer
<1>4. f \in Bijection(C, I)
  <2>1. f \in [C -> I]
    OBVIOUS
  <2>2. \A y \in I : \E i \in C : f[i] = y
    OBVIOUS
  <2>. HIDE DEF f, I
  <2>. QED
    BY <1>3, <2>1, <2>2 DEF Bijection, Injection, Surjection, IsInjective
<1>5. Cardinality(I) = n
  <2>. HIDE DEF f, I
  <2>. QED
    BY <1>4, FS_Bijection DEF ExistsBijection
<1>6. I \subseteq 0 .. n - 1
  <2>. HIDE DEF f
  <2>. QED
    BY <1>2
<1>7. IsFiniteSet(0 .. n - 1) /\ Cardinality(0 .. n - 1) = n
  BY <1>1, FS_Interval
<1>8. I = 0 .. n - 1
  <2>. HIDE DEF I, n
  <2>. QED
    BY <1>5, <1>6, <1>7, FS_Subset
<1>9. k \in I
  BY <1>8
<1>. QED
  BY <1>9

-----------------------------------------------------------------------------
(* The candidates, in their order.                                         *)
LEMMA CandidatesAre ==
    ASSUME NEW entities \in Seq(Entities)
    PROVE  /\ Candidates(entities) \subseteq DOMAIN entities /\ IsFiniteSet(Candidates(entities))
           /\ \A i \in Candidates(entities) : entities[i] \in Entities /\ i \in Int
<1>1. DOMAIN entities = 1 .. Len(entities) /\ Len(entities) \in Nat
  OBVIOUS
<1>2. IsFiniteSet(1 .. Len(entities))
  BY <1>1, FS_Interval
<1>3. Candidates(entities) \subseteq DOMAIN entities
  BY DEF Candidates
<1>4. IsFiniteSet(Candidates(entities))
  BY <1>1, <1>2, <1>3, FS_Subset
<1>. QED
  BY <1>1, <1>3, <1>4

(* The keys of the sort are numbers, the last of them the place of the     *)
(* entity: no two are the same.                                            *)
LEMMA KeysAreNumbers ==
    ASSUME NEW entities \in Seq(Entities), NEW i \in Candidates(entities)
    PROVE  IntKey(Key(entities, i)) /\ Key(entities, i)[5] = -i
<1>. DEFINE e == entities[i]
<1>1. e \in Entities /\ i \in Int
  BY CandidatesAre
<1>2. e.last_seen \in Int /\ e.mention_count \in Int /\ e.name \in Int
  <2>1. Terms \subseteq Nat
    BY PromptAssumption DEF PromptAssumption
  <2>. HIDE DEF e
  <2>2. e.last_seen \in Nat /\ e.mention_count \in Int /\ e.name \in Terms
    BY <1>1 DEF Entities
  <2>3. e.last_seen \in Int
    BY <2>2
  <2>4. \A t \in Terms : t \in Int
    BY <2>1
  <2>5. e.name \in Int
    BY <2>2, <2>4, Zenon
  <2>. QED
    BY <2>2, <2>3, <2>5
<1>. DEFINE recent == IF IsRecent(e) THEN 1 ELSE 0
<1>3. recent \in Int
  OBVIOUS
<1>4. Key(entities, i) = <<recent, e.last_seen, e.mention_count, e.name, -i>>
  BY DEF Key
<1>. HIDE DEF e, recent
<1>. QED
  BY <1>1, <1>2, <1>3, <1>4 DEF IntKey

Sorting(entities) ==
    {p \in Candidates(entities) \X Candidates(entities) : Before(entities, p[1], p[2])}

(* It compares the keys,                                                   *)
LEMMA SortingIs ==
    ASSUME NEW entities, NEW i \in Candidates(entities), NEW j \in Candidates(entities)
    PROVE  <<i, j>> \in Sorting(entities) <=> Lex(Key(entities, i), Key(entities, j))
<1>1. Before(entities, i, j) <=> Lex(Key(entities, i), Key(entities, j))
  BY Zenon DEF Before, Lex
<1>2. <<i, j>> \in Sorting(entities) <=> Before(entities, i, j)
  BY DEF Sorting
<1>. QED
  BY <1>1, <1>2

(* so it is a strict total order.                                          *)
LEMMA SortingOrders ==
    ASSUME NEW entities \in Seq(Entities)
    PROVE  Orders(Sorting(entities), Candidates(entities))
<1>. DEFINE C == Candidates(entities)
            R == Sorting(entities)
            key(i) == Key(entities, i)
<1>1. \A i \in C : IntKey(key(i)) /\ key(i)[5] = -i /\ i \in Int
  BY KeysAreNumbers, CandidatesAre
<1>2. \A i, j \in C : <<i, j>> \in R <=> Lex(key(i), key(j))
  BY SortingIs
<1>. HIDE DEF C, R, key
<1>3. \A i \in C : <<i, i>> \notin R
  BY <1>1, <1>2, LexIsStrict
<1>4. \A i, j, k \in C : <<i, j>> \in R /\ <<j, k>> \in R => <<i, k>> \in R
  BY <1>1, <1>2, LexIsTransitive
<1>5. ASSUME NEW i \in C, NEW j \in C, i # j PROVE <<i, j>> \in R \/ <<j, i>> \in R
  <2>1. key(i)[5] # key(j)[5] /\ 5 \in 1 .. 5
    BY <1>1, <1>5
  <2>. QED
    BY <1>1, <1>2, <2>1, LexIsTotal
<1>. QED
  BY <1>3, <1>4, <1>5 DEF Orders, C, R

(* The rank of a candidate: all are ranked, in the order of their keys.    *)
LEMMA RankedIs ==
    ASSUME NEW entities \in Seq(Entities)
    PROVE  LET n == Cardinality(Candidates(entities))  ranked == Ranked(entities) IN
           /\ n \in Nat /\ ranked \in [1 .. n -> Candidates(entities)]
           /\ \A i \in Candidates(entities) : \E k \in 1 .. n : ranked[k] = i
           /\ \A k, l \in 1 .. n : Before(entities, ranked[k], ranked[l]) => k < l
<1>. DEFINE C == Candidates(entities)
            R == Sorting(entities)
            n == Cardinality(C)
            ranked == Ranked(entities)
            place(i) == Cardinality(Earlier(C, R, i))
<1>1. IsFiniteSet(C) /\ Orders(R, C) /\ n \in Nat
  BY CandidatesAre, SortingOrders, FS_CardinalityType
<1>2. \A i \in C : {j \in C : Before(entities, j, i)} = Earlier(C, R, i)
  BY DEF Sorting, Earlier
<1>3. ranked = [k \in 1 .. n |->
                   CHOOSE i \in C : Cardinality({j \in C : Before(entities, j, i)}) = k - 1]
  BY DEF Ranked
<1>4. ASSUME NEW k \in 1 .. n PROVE ranked[k] \in C /\ place(ranked[k]) = k - 1
  <2>1. ranked[k] = CHOOSE i \in C : Cardinality({j \in C : Before(entities, j, i)}) = k - 1
    BY <1>3
  <2>2. k - 1 \in 0 .. n - 1
    BY <1>1
  <2>. HIDE DEF C, R, n, ranked
  <2>3. \E i \in C : place(i) = k - 1
    BY <1>1, <2>2, EveryPlaceIsTaken DEF n
  <2>4. \E i \in C : Cardinality({j \in C : Before(entities, j, i)}) = k - 1
    BY <1>2, <2>3
  <2>5. ranked[k] \in C /\ Cardinality({j \in C : Before(entities, j, ranked[k])}) = k - 1
    BY <2>1, <2>4
  <2>. QED
    BY <1>2, <2>5
<1>5. ranked \in [1 .. n -> C]
  <2>1. ranked = [k \in 1 .. n |-> ranked[k]]
    BY <1>3
  <2>. HIDE DEF ranked, C, n
  <2>. QED
    BY <1>4, <2>1
<1>6. ASSUME NEW i \in C PROVE \E k \in 1 .. n : ranked[k] = i
  <2>. HIDE DEF C, R, n, ranked
  <2>1. place(i) \in 0 .. n - 1
    BY <1>1, PlacesAreBelow DEF n
  <2>2. place(i) + 1 \in 1 .. n /\ (place(i) + 1) - 1 = place(i)
    BY <1>1, <2>1
  <2>3. ranked[place(i) + 1] \in C /\ place(ranked[place(i) + 1]) = place(i)
    BY <1>4, <2>2
  <2>4. ranked[place(i) + 1] = i
    BY <1>1, <2>3, PlacesDiffer
  <2>. QED
    BY <2>2, <2>4
<1>7. ASSUME NEW k \in 1 .. n, NEW l \in 1 .. n, Before(entities, ranked[k], ranked[l])
      PROVE  k < l
  <2>1. <<ranked[k], ranked[l]>> \in R
    BY <1>4, <1>7 DEF Sorting
  <2>. HIDE DEF C, R, n, ranked
  <2>2. place(ranked[k]) < place(ranked[l])
    BY <1>1, <1>4, <2>1, EarlierGrows
  <2>3. k - 1 < l - 1
    BY <1>4, <2>2
  <2>. QED
    BY <1>1, <2>3
<1>. QED
  BY <1>1, <1>5, <1>6, <1>7

(* What is better comes before.                                            *)
LEMMA BetterIsBefore ==
    ASSUME NEW entities \in Seq(Entities), NEW i \in Candidates(entities),
           NEW j \in Candidates(entities), Better(entities[i], entities[j])
    PROVE  Before(entities, i, j)
<1>. DEFINE a == Key(entities, i)
            b == Key(entities, j)
<1>1. /\ a[1] = (IF IsRecent(entities[i]) THEN 1 ELSE 0) /\ a[2] = entities[i].last_seen
      /\ a[3] = entities[i].mention_count
  BY DEF Key
<1>2. /\ b[1] = (IF IsRecent(entities[j]) THEN 1 ELSE 0) /\ b[2] = entities[j].last_seen
      /\ b[3] = entities[j].mention_count
  BY DEF Key
<1>3. \/ a[1] > b[1]
      \/ a[1] = b[1] /\ a[2] > b[2]
      \/ a[1] = b[1] /\ a[2] = b[2] /\ a[3] > b[3]
  <2>. HIDE DEF a, b
  <2>. QED
    BY <1>1, <1>2 DEF Better
<1>4. Lex(a, b)
  <2>. HIDE DEF a, b
  <2>1. CASE a[1] > b[1]
    BY <2>1 DEF Lex
  <2>2. CASE a[1] = b[1] /\ a[2] > b[2]
    BY <2>2 DEF Lex
  <2>3. CASE a[1] = b[1] /\ a[2] = b[2] /\ a[3] > b[3]
    BY <2>3 DEF Lex
  <2>. QED
    BY <1>3, <2>1, <2>2, <2>3
<1>. QED
  BY <1>4, Zenon DEF Before, Lex

-----------------------------------------------------------------------------
(* FlattenSeq: the parts, one after the other.                             *)
LEMMA FlattenSteps ==
    ASSUME NEW X, NEW N \in Nat, NEW F \in [1 .. N -> Seq(X)]
    PROVE  \E f \in [0 .. N -> Seq(X)] :
              /\ f[0] = << >> /\ \A n \in 1 .. N : f[n] = f[n - 1] \o F[n]
              /\ f[N] = FlattenSeq(F)
<1>. DEFINE G == [n \in 1 .. N |-> [x \in Seq(X) |-> x \o F[n]]]
            Def(g) == g = [i \in 1 .. N |-> IF i = 1 THEN F[i] ELSE g[i - 1] \o F[i]]
<1>1. \A n \in 1 .. N, x \in Seq(X) : x \o F[n] \in Seq(X)
  OBVIOUS
<1>2. G \in [1 .. N -> [Seq(X) -> Seq(X)]]
  BY <1>1
<1>3. \A n \in 1 .. N, x \in Seq(X) : G[n][x] = x \o F[n]
  BY <1>1
<1>4. << >> \in Seq(X) /\ Len(F) = N /\ DOMAIN F = 1 .. N
  OBVIOUS
<1>. HIDE DEF G
<1>5. PICK f \in [0 .. N -> Seq(X)] : Made(G, << >>, f, N)
  BY <1>2, <1>4, MadeUpTo
<1>6. f[0] = << >>
  BY <1>5 DEF Made
<1>7. ASSUME NEW n \in 1 .. N PROVE f[n] = f[n - 1] \o F[n]
  <2>1. n - 1 \in 0 .. N
    OBVIOUS
  <2>. QED
    BY <1>3, <1>5, <2>1 DEF Made
<1>8. ASSUME 1 \in 1 .. N PROVE f[1] = F[1]
  <2>1. f[1] = f[0] \o F[1]
    <3>1. f[1] = f[1 - 1] \o F[1]
      BY <1>7, <1>8, Zenon
    <3>2. 1 - 1 = 0
      OBVIOUS
    <3>. QED
      BY <3>1, <3>2, Zenon
  <2>2. F[1] \in Seq(X)
    BY <1>8
  <2>. QED
    BY <1>6, <2>1, <2>2
<1>9. f[N] = FlattenSeq(F)
  <2>1. CASE N = 0
    <3>1. F = << >>
      BY <1>4, <2>1
    <3>2. FlattenSeq(F) = F
      BY <1>4, <2>1, Zenon DEF FlattenSeq
    <3>. QED
      BY <1>6, <2>1, <3>1, <3>2
  <2>2. CASE N # 0
    <3>1. FlattenSeq(F) = (CHOOSE g : Def(g))[N]
      BY <1>4, <2>2, Zenon DEF FlattenSeq
    <3>2. PICK h : h = [i \in 1 .. N |-> f[i]]
      OBVIOUS
    <3>3. \A i \in 1 .. N : h[i] = f[i] /\ (i # 1 => i - 1 \in 1 .. N)
      BY <3>2
    <3>4. ASSUME NEW i \in 1 .. N PROVE h[i] = IF i = 1 THEN F[i] ELSE h[i - 1] \o F[i]
      <4>1. CASE i = 1
        BY <1>8, <3>3, <4>1
      <4>2. CASE i # 1
        BY <1>7, <3>3, <4>2
      <4>. QED
        BY <4>1, <4>2
    <3>5. Def(h)
      <4>1. h = [i \in 1 .. N |-> h[i]]
        BY <3>2
      <4>. QED
        BY <3>4, <4>1
    <3>6. Def(CHOOSE g : Def(g))
      <4>. HIDE DEF Def
      <4>. QED
        BY <3>5
    <3>7. PICK e : e = (CHOOSE g : Def(g))
      OBVIOUS
    <3>8. Def(e) /\ FlattenSeq(F) = e[N]
      <4>. HIDE DEF Def
      <4>1. Def(e)
        BY <3>6, <3>7, Zenon
      <4>2. FlattenSeq(F) = e[N]
        BY <3>1, <3>7, Zenon
      <4>. QED
        BY <4>1, <4>2
    <3>9. \A i \in 1 .. N : e[i] = IF i = 1 THEN F[i] ELSE e[i - 1] \o F[i]
      BY <3>8
    <3>. DEFINE S == {n \in 0 .. N : n = 0 \/ e[n] = f[n]}
    <3>10. 0 \in S
      OBVIOUS
    <3>11. ASSUME NEW n \in 1 .. N, n - 1 \in S PROVE n \in S
      <4>1. CASE n = 1
        <5>1. e[n] = F[n] /\ n \in 0 .. N
          BY <3>9, <4>1
        <5>2. f[n] = F[n]
          BY <1>8, <4>1
        <5>. QED
          BY <5>1, <5>2
      <4>2. CASE n # 1
        <5>1. e[n] = e[n - 1] \o F[n] /\ f[n] = f[n - 1] \o F[n]
          BY <1>7, <3>9, <4>2
        <5>2. e[n - 1] = f[n - 1]
          BY <3>11, <4>2
        <5>3. e[n] = f[n] /\ n \in 0 .. N
          BY <5>1, <5>2
        <5>. QED
          BY <5>3
      <4>. QED
        BY <4>1, <4>2
    <3>12. N \in S
      <4>1. N \in 0 .. N
        OBVIOUS
      <4>. HIDE DEF S
      <4>. QED
        BY <3>10, <3>11, <4>1, FromZero
    <3>. QED
      BY <2>2, <3>8, <3>12
  <2>. QED
    BY <2>1, <2>2
<1>. QED
  BY <1>6, <1>7, <1>9

(* What is in a joined list: all of the parts; and before any of it, all   *)
(* of the parts before the one it is from.                                 *)
Holding(list, F, n) ==
    /\ \A m \in 1 .. n : \A x \in Range(F[m]) : \E p \in 1 .. Len(list) : list[p] = x
    /\ \A p \in 1 .. Len(list) :
          \E m \in 1 .. n :
             /\ list[p] \in Range(F[m])
             /\ \A l \in 1 .. m - 1 : \A x \in Range(F[l]) : \E q \in 1 .. p - 1 : list[q] = x
    /\ n > 0 /\ F[1] # << >> => Len(list) > 0 /\ list[1] = F[1][1]

(* One part more keeps this.                                               *)
LEMMA HoldingNext ==
    ASSUME NEW X, NEW N \in Nat, NEW F \in [1 .. N -> Seq(X)], NEW n \in 1 .. N,
           NEW list \in Seq(X), Holding(list, F, n - 1)
    PROVE  (n - 1 = 0 /\ list # << >>) \/ Holding(list \o F[n], F, n)
<1>. DEFINE a == Len(list)
            part == F[n]
            next == list \o part
<1>1. part \in Seq(X) /\ a \in Nat /\ Len(part) \in Nat
  OBVIOUS
<1>2. /\ next \in Seq(X) /\ Len(next) = a + Len(part)
      /\ \A p \in 1 .. a : next[p] = list[p]
      /\ \A p \in 1 .. Len(part) : next[a + p] = part[p]
  BY <1>1
<1>3. Range(part) = {part[p] : p \in 1 .. Len(part)}
  <2>1. DOMAIN part = 1 .. Len(part)
    BY <1>1
  <2>. QED
    BY <2>1 DEF Range
<1>. HIDE DEF a, part, next
<1>4. ASSUME NEW m \in 1 .. n - 1, NEW x \in Range(F[m]) PROVE \E p \in 1 .. a : next[p] = x
  <2>1. PICK p \in 1 .. a : list[p] = x
    BY DEF Holding, a
  <2>. QED
    BY <1>2, <2>1
<1>5. ASSUME NEW m \in 1 .. n, NEW x \in Range(F[m])
      PROVE  \E p \in 1 .. Len(next) : next[p] = x
  <2>1. CASE m = n
    <3>1. x \in Range(part)
      BY <2>1 DEF part
    <3>2. PICK p \in 1 .. Len(part) : part[p] = x
      BY <1>3, <3>1
    <3>3. a + p \in 1 .. Len(next)
      BY <1>1, <1>2
    <3>. QED
      BY <1>2, <3>2, <3>3
  <2>2. CASE m # n
    <3>1. m \in 1 .. n - 1
      BY <2>2
    <3>2. PICK p \in 1 .. a : next[p] = x
      BY <1>4, <3>1
    <3>3. p \in 1 .. Len(next)
      BY <1>1, <1>2
    <3>. QED
      BY <3>2, <3>3
  <2>. QED
    BY <2>1, <2>2
<1>6. ASSUME NEW p \in 1 .. Len(next)
      PROVE  \E m \in 1 .. n :
                /\ next[p] \in Range(F[m])
                /\ \A l \in 1 .. m - 1 : \A x \in Range(F[l]) : \E q \in 1 .. p - 1 : next[q] = x
  <2>1. CASE p \in 1 .. a
    <3>1. PICK m \in 1 .. n - 1 :
             /\ list[p] \in Range(F[m])
             /\ \A l \in 1 .. m - 1 : \A x \in Range(F[l]) : \E q \in 1 .. p - 1 : list[q] = x
      BY <2>1 DEF Holding, a
    <3>2. ASSUME NEW l \in 1 .. m - 1, NEW x \in Range(F[l])
          PROVE  \E q \in 1 .. p - 1 : next[q] = x
      <4>1. PICK q \in 1 .. p - 1 : list[q] = x
        BY <3>1
      <4>2. q \in 1 .. a
        BY <1>1, <2>1
      <4>. QED
        BY <1>2, <4>1, <4>2
    <3>3. m \in 1 .. n /\ next[p] \in Range(F[m])
      BY <1>2, <2>1, <3>1
    <3>. QED
      BY <3>2, <3>3
  <2>2. CASE p \notin 1 .. a
    <3>1. PICK r \in 1 .. Len(part) : p = a + r
      <4>1. p - a \in 1 .. Len(part) /\ p = a + (p - a)
        BY <1>1, <1>2, <2>2
      <4>. QED
        BY <4>1
    <3>2. next[p] \in Range(F[n])
      BY <1>2, <1>3, <3>1 DEF part
    <3>3. ASSUME NEW l \in 1 .. n - 1, NEW x \in Range(F[l])
          PROVE  \E q \in 1 .. p - 1 : next[q] = x
      <4>1. PICK q \in 1 .. a : next[q] = x
        BY <1>4
      <4>2. q \in 1 .. p - 1
        BY <1>1, <3>1
      <4>. QED
        BY <4>1, <4>2
    <3>4. n \in 1 .. n
      OBVIOUS
    <3>. QED
      BY <3>2, <3>3, <3>4
  <2>. QED
    BY <2>1, <2>2
<1>7. ASSUME F[1] # << >>, n = 1 => list = << >> PROVE Len(next) > 0 /\ next[1] = F[1][1]
  <2>1. CASE n = 1
    <3>1. a = 0 /\ part = F[1]
      BY <1>7, <2>1 DEF a, part
    <3>2. Len(part) # 0
      BY <1>1, <1>7, <3>1
    <3>3. 1 \in 1 .. Len(part) /\ a + 1 = 1
      BY <1>1, <3>1, <3>2
    <3>. QED
      BY <1>1, <1>2, <3>1, <3>2, <3>3
  <2>2. CASE n # 1
    <3>1. a > 0 /\ list[1] = F[1][1]
      BY <1>7, <2>2 DEF Holding, a
    <3>2. 1 \in 1 .. a
      BY <1>1, <3>1
    <3>. QED
      BY <1>1, <1>2, <3>1, <3>2
  <2>. QED
    BY <2>1, <2>2
<1>8. ASSUME n = 1 => list = << >> PROVE Holding(next, F, n)
  BY <1>5, <1>6, <1>7, <1>8 DEF Holding
<1>9. CASE n = 1 /\ list # << >>
  BY <1>9
<1>10. CASE ~ (n = 1 /\ list # << >>)
  BY <1>8, <1>10 DEF next, part
<1>. QED
  BY <1>9, <1>10

(* So it is of all parts.                                                  *)
LEMMA FlattenHolds ==
    ASSUME NEW X, NEW N \in Nat, NEW F \in [1 .. N -> Seq(X)]
    PROVE  FlattenSeq(F) \in Seq(X) /\ Holding(FlattenSeq(F), F, N)
<1>1. PICK f \in [0 .. N -> Seq(X)] :
         /\ f[0] = << >> /\ \A n \in 1 .. N : f[n] = f[n - 1] \o F[n]
         /\ f[N] = FlattenSeq(F)
  BY FlattenSteps, ZenonT(40)
<1>. DEFINE S == {n \in 0 .. N : Holding(f[n], F, n)}
<1>2. 0 \in S
  <2>1. Len(<< >>) = 0
    OBVIOUS
  <2>2. Holding(<< >>, F, 0)
    BY <2>1 DEF Holding
  <2>. QED
    BY <1>1, <2>2
<1>3. ASSUME NEW n \in 1 .. N, n - 1 \in S PROVE n \in S
  <2>1. n - 1 \in 0 .. N /\ f[n - 1] \in Seq(X) /\ Holding(f[n - 1], F, n - 1)
    BY <1>3
  <2>2. n - 1 = 0 => f[n - 1] = << >>
    BY <1>1
  <2>3. Holding(f[n - 1] \o F[n], F, n)
    BY <2>1, <2>2, HoldingNext
  <2>4. f[n] = f[n - 1] \o F[n]
    BY <1>1, Zenon
  <2>5. Holding(f[n], F, n) /\ n \in 0 .. N
    BY <2>3, <2>4
  <2>. QED
    BY <2>5
<1>4. N \in 0 .. N
  OBVIOUS
<1>5. N \in S
  <2>. HIDE DEF S
  <2>. QED
    BY <1>2, <1>3, <1>4, FromZero
<1>. QED
  BY <1>1, <1>4, <1>5

-----------------------------------------------------------------------------
(* The names of an entity: its own name first.                             *)
LEMMA NamesOfIs ==
    ASSUME NEW e \in Entities, NEW aliases
    PROVE  /\ NamesOf(e, aliases) \in Seq(Terms) /\ NamesOf(e, aliases) # << >>
           /\ NamesOf(e, aliases)[1] = e.name /\ e.name \in Range(NamesOf(e, aliases))
<1>. DEFINE rest == IF aliases THEN Only(e.aliases, Clean) ELSE << >>
<1>1. e.name \in Terms /\ e.aliases \in Seq(Terms)
  BY DEF Entities
<1>2. Only(e.aliases, Clean) \in Seq(Clean)
  BY <1>1, OnlyType
<1>3. Clean \subseteq Terms
  BY DEF Clean
<1>4. rest \in Seq(Terms)
  <2>1. Only(e.aliases, Clean) \in Seq(Terms)
    BY <1>2, <1>3
  <2>2. << >> \in Seq(Terms)
    OBVIOUS
  <2>. QED
    BY <2>1, <2>2
<1>5. NamesOf(e, aliases) = <<e.name>> \o rest
  BY DEF NamesOf
<1>. HIDE DEF rest
<1>6. PICK names : names = <<e.name>> \o rest
  OBVIOUS
<1>7. names \in Seq(Terms) /\ Len(names) = 1 + Len(rest) /\ names[1] = e.name /\ Len(rest) \in Nat
  BY <1>1, <1>4, <1>6
<1>8. names # << >> /\ 1 \in DOMAIN names
  BY <1>7
<1>9. names[1] \in Range(names)
  BY <1>8 DEF Range
<1>. QED
  BY <1>5, <1>6, <1>7, <1>8, <1>9

NamesOfRanked(entities, aliases) ==
    [k \in DOMAIN Ranked(entities) |-> NamesOf(entities[Ranked(entities)[k]], aliases)]

(* The names of the candidates, in the order of these.                     *)
LEMMA NamesAre ==
    ASSUME NEW entities \in Seq(Entities), NEW aliases
    PROVE  LET n == Cardinality(Candidates(entities)) IN
           /\ NamesOfRanked(entities, aliases) \in [1 .. n -> Seq(Terms)]
           /\ Names(entities, aliases) \in Seq(Terms)
           /\ Holding(Names(entities, aliases), NamesOfRanked(entities, aliases), n)
<1>. DEFINE n == Cardinality(Candidates(entities))
            F == NamesOfRanked(entities, aliases)
<1>1. n \in Nat /\ Ranked(entities) \in [1 .. n -> Candidates(entities)]
  BY RankedIs
<1>2. DOMAIN Ranked(entities) = 1 .. n
  BY <1>1
<1>3. ASSUME NEW k \in 1 .. n PROVE NamesOf(entities[Ranked(entities)[k]], aliases) \in Seq(Terms)
  <2>1. Ranked(entities)[k] \in Candidates(entities)
    BY <1>1
  <2>2. entities[Ranked(entities)[k]] \in Entities
    BY <2>1, CandidatesAre
  <2>. QED
    BY <2>2, NamesOfIs
<1>4. F \in [1 .. n -> Seq(Terms)]
  BY <1>2, <1>3 DEF NamesOfRanked
<1>5. Names(entities, aliases) = FlattenSeq(F)
  BY Zenon DEF Names, NamesOfRanked
<1>. HIDE DEF n, F
<1>6. FlattenSeq(F) \in Seq(Terms) /\ Holding(FlattenSeq(F), F, n)
  BY <1>1, <1>4, FlattenHolds
<1>. QED
  BY <1>4, <1>5, <1>6 DEF n, F

(* The cut keeps the best.                                                 *)
LEMMA SelectedAreTheBest ==
    ASSUME NEW entities \in Seq(Entities), NEW aliases
    PROVE  /\ SelectEntityTerms(entities, aliases) \in Seq(Terms)
           /\ IsBest(SelectEntityTerms(entities, aliases), entities, aliases)
<1>. DEFINE C == Candidates(entities)
            n == Cardinality(C)
            ranked == Ranked(entities)
            names == Names(entities, aliases)
            F == NamesOfRanked(entities, aliases)
            chosen == SelectEntityTerms(entities, aliases)
            best(i, others) == \A j \in others : ~Better(entities[j], entities[i])
            left_out == {j \in C : entities[j].name \notin Range(chosen)}
<1>1. /\ n \in Nat /\ ranked \in [1 .. n -> C]
      /\ \A i \in C : \E k \in 1 .. n : ranked[k] = i
      /\ \A k, l \in 1 .. n : Before(entities, ranked[k], ranked[l]) => k < l
  BY RankedIs
<1>2. names \in Seq(Terms) /\ Holding(names, F, n)
  BY NamesAre
<1>3. \A k \in 1 .. n : F[k] = NamesOf(entities[ranked[k]], aliases)
  <2>1. DOMAIN ranked = 1 .. n
    BY <1>1
  <2>. QED
    BY <2>1 DEF NamesOfRanked
<1>4. \A i \in C : entities[i] \in Entities
  BY CandidatesAre
<1>5. \A k, l \in 1 .. n : Better(entities[ranked[k]], entities[ranked[l]]) => k < l
  <2>1. \A i, j \in C : Better(entities[i], entities[j]) => Before(entities, i, j)
    BY BetterIsBefore
  <2>2. \A k \in 1 .. n : ranked[k] \in C
    BY <1>1
  <2>. HIDE DEF ranked, n, C
  <2>. QED
    BY <1>1, <2>1, <2>2
<1>6. \A k \in 1 .. n : /\ entities[ranked[k]].name \in Range(F[k]) /\ F[k] # << >>
                        /\ F[k][1] = entities[ranked[k]].name
  <2>1. \A k \in 1 .. n : ranked[k] \in C
    BY <1>1
  <2>. HIDE DEF ranked, n, C, F
  <2>. QED
    BY <1>3, <1>4, <2>1, NamesOfIs
<1>7. /\ chosen \in Seq(Terms)
      /\ \E m \in 0 .. Len(names) :
            /\ Range(chosen) = {names[p] : p \in 1 .. m}
            /\ TooMuch(chosen, names, m, EntityMaxTerms, EntityMaxChars)
  <2>1. EntityMaxTerms \in Nat /\ EntityMaxChars \in Nat
    BY PromptAssumption DEF PromptAssumption
  <2>2. chosen = Fill(names, EntityMaxTerms, EntityMaxChars)
    BY DEF SelectEntityTerms
  <2>. HIDE DEF names, chosen
  <2>. QED
    BY <1>2, <2>1, <2>2, FillIs DEF Holds
<1>. HIDE DEF ranked, n, C, F, names, chosen
<1>8. PICK m \in 0 .. Len(names) :
         /\ Range(chosen) = {names[p] : p \in 1 .. m}
         /\ TooMuch(chosen, names, m, EntityMaxTerms, EntityMaxChars)
  BY <1>7
<1>9. Len(names) \in Nat
  BY <1>2
<1>10. ASSUME NEW t \in Range(chosen)
       PROVE  \E i \in C : t \in Range(NamesOf(entities[i], aliases)) /\ best(i, left_out)
  <2>1. PICK p \in 1 .. m : t = names[p]
    BY <1>8
  <2>2. p \in 1 .. Len(names) /\ \A q \in 1 .. p - 1 : q \in 1 .. m
    BY <1>9
  <2>3. PICK k \in 1 .. n :
           /\ names[p] \in Range(F[k])
           /\ \A l \in 1 .. k - 1 : \A x \in Range(F[l]) : \E q \in 1 .. p - 1 : names[q] = x
    BY <1>2, <2>2 DEF Holding
  <2>4. ASSUME NEW j \in left_out, Better(entities[j], entities[ranked[k]]) PROVE FALSE
    <3>1. j \in C /\ entities[j].name \notin Range(chosen)
      OBVIOUS
    <3>2. PICK l \in 1 .. n : ranked[l] = j
      BY <1>1, <3>1
    <3>3. l < k
      BY <1>5, <2>4, <3>2
    <3>4. l \in 1 .. k - 1
      BY <3>3
    <3>5. PICK q \in 1 .. p - 1 : names[q] = entities[j].name
      BY <1>6, <2>3, <3>2, <3>4
    <3>6. names[q] \in Range(chosen)
      BY <1>8, <2>2
    <3>. QED
      BY <3>1, <3>5, <3>6
  <2>5. ranked[k] \in C /\ t \in Range(NamesOf(entities[ranked[k]], aliases))
    BY <1>1, <1>3, <2>1, <2>3
  <2>. QED
    BY <2>4, <2>5
<1>11. ASSUME chosen = << >>, C # {}
       PROVE  \E i \in C : best(i, C) /\ ~Fits(<<entities[i].name>>, EntityMaxTerms, EntityMaxChars)
  <2>1. PICK k \in 1 .. n : TRUE
    BY <1>1, <1>11
  <2>2. 1 \in 1 .. n /\ n > 0
    BY <1>1, <2>1
  <2>3. Len(names) > 0 /\ names[1] = entities[ranked[1]].name
    BY <1>2, <1>6, <2>2 DEF Holding
  <2>4. m = 0
    <3>1. Range(chosen) = {}
      BY <1>11 DEF Range
    <3>2. ASSUME m # 0 PROVE FALSE
      <4>1. 1 \in 1 .. m
        BY <1>9, <3>2
      <4>. QED
        BY <1>8, <3>1, <4>1
    <3>. QED
      BY <3>2
  <2>5. ~Fits(Append(<< >>, names[1]), EntityMaxTerms, EntityMaxChars)
    <3>1. TooMuch(<< >>, names, 0, EntityMaxTerms, EntityMaxChars) /\ 0 + 1 = 1
      BY <1>8, <1>11, <2>4
    <3>. QED
      BY <2>3, <3>1 DEF TooMuch
  <2>6. Append(<< >>, names[1]) = <<names[1]>>
    OBVIOUS
  <2>7. ASSUME NEW j \in C, Better(entities[j], entities[ranked[1]]) PROVE FALSE
    <3>1. PICK l \in 1 .. n : ranked[l] = j
      BY <1>1
    <3>2. l < 1
      BY <1>5, <2>2, <2>7, <3>1
    <3>. QED
      BY <3>2
  <2>8. ranked[1] \in C
    BY <1>1, <2>2
  <2>. QED
    BY <2>3, <2>5, <2>6, <2>7, <2>8
<1>12. IsBest(chosen, entities, aliases)
  BY <1>10, <1>11, Zenon DEF IsBest, C
<1>. QED
  BY <1>7, <1>12 DEF chosen

-----------------------------------------------------------------------------
PromptTypes ==
    /\ index \in Indexes /\ manual \in Dictionaries /\ now \in Nat /\ failed \in Int
    /\ cache \in [terms : Seq(Terms), expires_at : Int]
    /\ read \in [index : Indexes \cup {NoIndex}, at : Int]

(* Terms that are not of an index come with it out of date: what is in the *)
(* cache runs out after a success or after a failure.                      *)
ExpiryInv ==
    cache.terms # << >> => \/ cache.expires_at = read.at + Lifetime
                           \/ cache.expires_at = failed + RetryAfter

PromptInv ==
    /\ PromptTypes /\ ExpiryInv
    /\ VocabularyIsTheBest /\ PromptIsLongestPrefix /\ VocabularyIsFresh

(* The lifetimes are a minute at least.                                    *)
LEMMA Minutes == Lifetime \in Int /\ RetryAfter \in Int /\ Lifetime > 0 /\ RetryAfter > 0
BY PromptAssumption DEF PromptAssumption, Lifetime, RetryAfter, Greater, Lesser

(* Any prompt that is built is the longest.                                *)
LEMMA BuiltIsLongest ==
    ASSUME NEW lines \in Dictionaries, NEW auto \in Seq(Terms)
    PROVE  IsLongestPrefix(Fill(LoadDictionaryTerms(lines) \o auto, PromptMaxTerms, PromptMaxChars),
                           LoadDictionaryTerms(lines) \o auto, PromptMaxTerms, PromptMaxChars)
<1>1. lines \in Seq(Terms \cup {Blank}) /\ PromptMaxTerms \in Nat /\ PromptMaxChars \in Nat
  BY PromptAssumption DEF PromptAssumption
<1>2. LoadDictionaryTerms(lines) \in Seq(Terms)
  BY <1>1, OnlyType DEF LoadDictionaryTerms
<1>3. LoadDictionaryTerms(lines) \o auto \in Seq(Terms)
  BY <1>2
<1>. QED
  BY <1>1, <1>3, FillIsLongest

(* And what was built of nothing, too.                                     *)
LEMMA NothingIsLongest ==
    IsLongestPrefix(<< >>, LoadDictionaryTerms(<< >>) \o << >>, PromptMaxTerms, PromptMaxChars)
<1>1. PromptMaxTerms \in Nat /\ PromptMaxChars \in Nat
  BY PromptAssumption DEF PromptAssumption
<1>2. << >> \in Seq(Terms) /\ Len(<< >>) = 0
  OBVIOUS
<1>3. LoadDictionaryTerms(<< >>) = << >>
  BY <1>2, OnlyType DEF LoadDictionaryTerms
<1>4. LoadDictionaryTerms(<< >>) \o << >> = << >>
  BY <1>2, <1>3
<1>5. IsCut(<< >>, << >>, 0)
  BY HoldsNone DEF Holds
<1>6. Fits(<< >>, PromptMaxTerms, PromptMaxChars)
  BY <1>1, <1>2, CostIs DEF Fits
<1>7. 0 \in 0 .. Len(<< >>) /\ ~ (0 < Len(<< >>))
  BY <1>2
<1>8. IsLongestPrefix(<< >>, << >>, PromptMaxTerms, PromptMaxChars)
  BY <1>5, <1>6, <1>7 DEF IsLongestPrefix
<1>. QED
  BY <1>4, <1>8

(* So it is for any index that can be read.                                *)
LEMMA SelectedIs ==
    ASSUME NEW entities \in Indexes \cup {NoIndex}
    PROVE  /\ SelectEntityTerms(entities, include_aliases) \in Seq(Terms)
           /\ IsBest(SelectEntityTerms(entities, include_aliases), entities, include_aliases)
<1>1. entities \in Seq(Entities)
  <2>1. NoIndex \in Seq(Entities)
    BY DEF NoIndex
  <2>2. \A e \in Indexes : e \in Seq(Entities)
    BY PromptAssumption DEF PromptAssumption
  <2>. QED
    BY <2>1, <2>2
<1>. QED
  BY <1>1, SelectedAreTheBest

(* The invariant holds at the start,                                       *)
LEMMA PromptStart == PromptInit => PromptInv
<1>. SUFFICES ASSUME PromptInit PROVE PromptInv
  OBVIOUS
<1>1. cache.terms = << >> /\ cache.expires_at = 0 /\ read.index = << >> /\ read.at = Never
      /\ prompt.terms = << >> /\ prompt.manual = << >> /\ prompt.auto = << >>
  BY DEF PromptInit, NoIndex
<1>2. PromptTypes
  <2>1. << >> \in Seq(Terms) /\ Never \in Int
    BY DEF Never
  <2>. QED
    BY <2>1 DEF PromptInit, PromptTypes
<1>3. Candidates(<< >>) = {} /\ Range(<< >>) = {}
  BY DEF Candidates, Range
<1>4. IsBest(<< >>, << >>, include_aliases)
  BY <1>3 DEF IsBest
<1>5. VocabularyIsTheBest
  BY <1>1, <1>4 DEF VocabularyIsTheBest
<1>6. PromptIsLongestPrefix
  BY <1>1, NothingIsLongest DEF PromptIsLongestPrefix
<1>7. ExpiryInv /\ VocabularyIsFresh
  BY <1>1 DEF ExpiryInv, VocabularyIsFresh
<1>. QED
  BY <1>2, <1>5, <1>6, <1>7 DEF PromptInv

(* A step that builds a prompt of a vocabulary, and how old that may be.   *)
LEMMA BuildIs ==
    ASSUME NEW auto \in Seq(Terms), NEW at \in Int, PromptTypes, failed' \in Int, Build(auto, at),
           auto # << >> => now - at < Lifetime \/ now - failed' < RetryAfter
    PROVE  PromptIsLongestPrefix' /\ VocabularyIsFresh'
<1>1. /\ prompt'.terms = Fill(LoadDictionaryTerms(manual) \o auto, PromptMaxTerms, PromptMaxChars)
      /\ prompt'.manual = manual /\ prompt'.auto = auto
      /\ prompt'.built = now /\ prompt'.read = at /\ prompt'.failed = failed'
  BY DEF Build
<1>2. manual \in Dictionaries
  BY DEF PromptTypes
<1>3. PromptIsLongestPrefix'
  BY <1>1, <1>2, BuiltIsLongest DEF PromptIsLongestPrefix
<1>4. VocabularyIsFresh'
  BY <1>1 DEF VocabularyIsFresh
<1>. QED
  BY <1>3, <1>4

(* and every step keeps it.                                                *)
LEMMA PromptSteps == PromptInv /\ [PromptNext]_promptVars => PromptInv'
<1>. SUFFICES ASSUME PromptInv, [PromptNext]_promptVars PROVE PromptInv'
  OBVIOUS
<1>1. /\ index \in Indexes /\ manual \in Dictionaries /\ now \in Nat /\ failed \in Int
      /\ cache.terms \in Seq(Terms) /\ cache.expires_at \in Int
      /\ read.index \in Indexes \cup {NoIndex} /\ read.at \in Int
      /\ Lifetime \in Int /\ RetryAfter \in Int /\ Lifetime > 0 /\ RetryAfter > 0
  BY Minutes DEF PromptInv, PromptTypes
<1>2. CASE FromCache
  <2>1. UNCHANGED <<sources, now, cache, read, failed>> /\ Build(cache.terms, read.at)
        /\ now < cache.expires_at
    BY <1>1, <1>2 DEF FromCache, Expired
  <2>2. PromptTypes' /\ ExpiryInv' /\ VocabularyIsTheBest'
    BY <2>1 DEF PromptInv, PromptTypes, ExpiryInv, VocabularyIsTheBest, sources
  <2>3. cache.terms # << >> => now - read.at < Lifetime \/ now - failed' < RetryAfter
    <3>1. failed' = failed
      BY <2>1
    <3>. QED
      BY <1>1, <2>1, <3>1 DEF PromptInv, ExpiryInv
  <2>4. failed' \in Int
    BY <1>1, <2>1
  <2>5. PromptIsLongestPrefix' /\ VocabularyIsFresh'
    BY <1>1, <2>1, <2>3, <2>4, BuildIs DEF PromptInv
  <2>. QED
    BY <2>2, <2>5 DEF PromptInv
<1>3. ASSUME Refresh \/ RefreshUnwritten
      PROVE  /\ PromptTypes' /\ VocabularyIsTheBest'
             /\ Loaded \in Indexes \cup {NoIndex}
             /\ SelectEntityTerms(Loaded, include_aliases) \in Seq(Terms)
  <2>1. Loaded \in Indexes \cup {NoIndex}
    BY <1>1 DEF Loaded
  <2>2. /\ SelectEntityTerms(Loaded, include_aliases) \in Seq(Terms)
        /\ IsBest(SelectEntityTerms(Loaded, include_aliases), Loaded, include_aliases)
    BY <2>1, SelectedIs
  <2>3. /\ UNCHANGED <<sources, now>> /\ failed' \in {failed, now}
        /\ read' = [index |-> Loaded, at |-> now]
        /\ \E t \in {now + Lifetime, now + RetryAfter} :
              cache' = [terms |-> SelectEntityTerms(Loaded, include_aliases), expires_at |-> t]
    BY <1>3 DEF Refresh, RefreshUnwritten
  <2>4. cache'.terms = SelectEntityTerms(Loaded, include_aliases) /\ read'.index = Loaded
        /\ include_aliases' = include_aliases
    BY <2>3 DEF sources
  <2>5. VocabularyIsTheBest'
    BY <2>2, <2>4 DEF VocabularyIsTheBest
  <2>6. PromptTypes'
    <3>1. PICK terms : terms = SelectEntityTerms(Loaded, include_aliases)
      OBVIOUS
    <3>2. cache' \in [terms : Seq(Terms), expires_at : Int]
      BY <1>1, <2>2, <2>3, <3>1
    <3>3. read' \in [index : Indexes \cup {NoIndex}, at : Int]
      BY <1>1, <2>1, <2>3
    <3>4. index' = index /\ manual' = manual /\ now' = now /\ failed' \in Int
      BY <1>1, <2>3 DEF sources
    <3>. QED
      BY <1>1, <3>2, <3>3, <3>4 DEF PromptTypes
  <2>. QED
    BY <2>1, <2>2, <2>5, <2>6
<1>4. CASE Refresh
  <2>. DEFINE terms == SelectEntityTerms(Loaded, include_aliases)
  <2>1. /\ read' = [index |-> Loaded, at |-> now] /\ failed' = failed
        /\ cache' = [terms |-> terms, expires_at |-> now + Lifetime] /\ Build(terms, now)
    BY <1>4 DEF Refresh
  <2>2. terms \in Seq(Terms) /\ PromptTypes' /\ VocabularyIsTheBest'
    BY <1>3, <1>4
  <2>. HIDE DEF terms
  <2>3. ExpiryInv'
    <3>1. read'.at = now /\ cache'.expires_at = now + Lifetime
      BY <2>1
    <3>. QED
      BY <3>1 DEF ExpiryInv
  <2>4. PromptIsLongestPrefix' /\ VocabularyIsFresh'
    <3>1. now - now < Lifetime /\ failed' \in Int /\ now \in Int
      BY <1>1, <2>1
    <3>. QED
      BY <2>1, <2>2, <3>1, BuildIs DEF PromptInv
  <2>. QED
    BY <2>2, <2>3, <2>4 DEF PromptInv
<1>5. ASSUME failed' = now, Build(cache.terms, read.at)
      PROVE  PromptIsLongestPrefix' /\ VocabularyIsFresh'
  <2>1. now - failed' < RetryAfter /\ failed' \in Int
    BY <1>1, <1>5
  <2>. QED
    BY <1>1, <1>5, <2>1, BuildIs DEF PromptInv
<1>6. CASE RefreshUnwritten
  <2>1. /\ failed' = now /\ Build(cache.terms, read.at)
        /\ cache' = [terms |-> SelectEntityTerms(Loaded, include_aliases),
                     expires_at |-> now + RetryAfter]
    BY <1>6 DEF RefreshUnwritten
  <2>2. ExpiryInv'
    <3>1. cache'.expires_at = failed' + RetryAfter
      BY <2>1
    <3>. QED
      BY <3>1 DEF ExpiryInv
  <2>. QED
    BY <1>3, <1>5, <1>6, <2>1, <2>2 DEF PromptInv
<1>7. CASE RefreshFails
  <2>1. /\ cache' = [cache EXCEPT !.expires_at = now + RetryAfter] /\ failed' = now /\ read' = read
        /\ Build(cache.terms, read.at) /\ UNCHANGED <<sources, now>>
    BY <1>7 DEF RefreshFails
  <2>2. cache \in [terms : Seq(Terms), expires_at : Int] /\ now + RetryAfter \in Int
    BY <1>1 DEF PromptInv, PromptTypes
  <2>3. cache'.terms = cache.terms /\ cache'.expires_at = now + RetryAfter
        /\ cache' \in [terms : Seq(Terms), expires_at : Int]
    BY <2>1, <2>2
  <2>4. PromptTypes'
    BY <1>1, <2>1, <2>3 DEF PromptInv, PromptTypes, sources
  <2>5. ExpiryInv'
    BY <2>1, <2>3 DEF ExpiryInv
  <2>6. VocabularyIsTheBest'
    BY <2>1, <2>3 DEF PromptInv, VocabularyIsTheBest, sources
  <2>. QED
    BY <1>5, <2>1, <2>4, <2>5, <2>6 DEF PromptInv
<1>8. ASSUME UNCHANGED <<include_aliases, cache, read, failed>>
      PROVE  ExpiryInv' /\ VocabularyIsTheBest'
  BY <1>8 DEF PromptInv, ExpiryInv, VocabularyIsTheBest
<1>9. ASSUME UNCHANGED prompt PROVE PromptIsLongestPrefix' /\ VocabularyIsFresh'
  BY <1>9 DEF PromptInv, PromptIsLongestPrefix, VocabularyIsFresh
<1>10. CASE SourcesChange
  <2>1. /\ UNCHANGED <<include_aliases, now, cache, read, failed, prompt>>
        /\ index' \in Indexes /\ manual' \in Dictionaries
    BY <1>1, <1>10 DEF SourcesChange
  <2>2. PromptTypes'
    BY <2>1 DEF PromptInv, PromptTypes
  <2>. QED
    BY <1>8, <1>9, <2>1, <2>2 DEF PromptInv
<1>11. CASE Tick
  <2>1. UNCHANGED <<include_aliases, index, manual, cache, read, failed, prompt>> /\ now' \in Nat
    BY <1>1, <1>11 DEF Tick, sources
  <2>2. PromptTypes'
    BY <2>1 DEF PromptInv, PromptTypes
  <2>. QED
    BY <1>8, <1>9, <2>1, <2>2 DEF PromptInv
<1>12. CASE Restart
  <2>1. /\ cache' = [terms |-> << >>, expires_at |-> 0] /\ read' = [index |-> NoIndex, at |-> Never]
        /\ failed' = Never /\ UNCHANGED <<sources, now, prompt>>
    BY <1>12 DEF Restart
  <2>2. << >> \in Seq(Terms) /\ Never \in Int
    BY DEF Never
  <2>3. PromptTypes'
    BY <1>1, <2>1, <2>2 DEF PromptTypes, sources
  <2>4. cache'.terms = << >> /\ read'.index = << >> /\ include_aliases' = include_aliases
    BY <2>1 DEF sources, NoIndex
  <2>5. Candidates(<< >>) = {} /\ Range(<< >>) = {}
    BY DEF Candidates, Range
  <2>6. IsBest(<< >>, << >>, include_aliases)
    BY <2>5 DEF IsBest
  <2>7. VocabularyIsTheBest'
    BY <2>4, <2>6 DEF VocabularyIsTheBest
  <2>8. ExpiryInv'
    BY <2>4 DEF ExpiryInv
  <2>. QED
    BY <1>9, <2>1, <2>3, <2>7, <2>8 DEF PromptInv
<1>13. CASE UNCHANGED promptVars
  <2>1. UNCHANGED <<include_aliases, index, manual, now, cache, read, failed, prompt>>
    BY <1>13 DEF promptVars
  <2>2. PromptTypes'
    BY <2>1 DEF PromptInv, PromptTypes
  <2>. QED
    BY <1>8, <1>9, <2>1, <2>2 DEF PromptInv
<1>. QED
  BY <1>2, <1>4, <1>6, <1>7, <1>10, <1>11, <1>12, <1>13 DEF PromptNext

(* The prompt is cut where both budgets end (_merge_prompt_terms).         *)
THEOREM PromptsAreLongest == PromptSpec => []PromptIsLongestPrefix
<1>1. PromptInv => PromptIsLongestPrefix
  BY DEF PromptInv
<1>. QED
  BY <1>1, PromptStart, PromptSteps, PTL DEF PromptSpec

(* The vocabulary is the best of the index that was read last.             *)
THEOREM VocabulariesAreTheBest == PromptSpec => []VocabularyIsTheBest
<1>1. PromptInv => VocabularyIsTheBest
  BY DEF PromptInv
<1>. QED
  BY <1>1, PromptStart, PromptSteps, PTL DEF PromptSpec

(* And no older than its lifetime, but for the failures.                   *)
THEOREM VocabulariesAreFresh == PromptSpec => []VocabularyIsFresh
<1>1. PromptInv => VocabularyIsFresh
  BY DEF PromptInv
<1>. QED
  BY <1>1, PromptStart, PromptSteps, PTL DEF PromptSpec
=============================================================================
