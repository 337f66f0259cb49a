------------------------------ MODULE Receiver ------------------------------
(***************************************************************************)
(* The receiver on the Mac, local-receiver/app.py: requests that store a   *)
(* recording run in threads of their own, one worker thread transcribes    *)
(* what is queued and pushes a note to the notebook repository.            *)
(*                                                                         *)
(* A request is a slot that goes through receive_recording() line by line  *)
(* where another thread could see the difference.  Requests that fail the  *)
(* checks on token, id, type and size change nothing and are left out.     *)
(* ffmpeg, whisper and the GitHub API are external: the text of a          *)
(* recording is named by its audio, Torn audio may still give some text,   *)
(* and a PUT may succeed though its answer is lost.                        *)
(***************************************************************************)
EXTENDS Integers, FiniteSets, SequencesExt

CONSTANTS Id, Data,
          Silent,           \* audio in which no speech is found
          Torn,             \* a file opened for writing and not yet written
          Nothing,          \* no file
          Request,          \* slots for requests
          PowerLoss,        \* whether what was not fsynced may be lost
          MaxSends,         \* bound: requests sent
          MaxCrashes        \* bound: stops of the receiver

(* RECORDING_ID_RE bounds the length of an id.                             *)
ASSUME ReceiverAssumption ==
    /\ IsFiniteSet(Id) /\ Silent \subseteq Data /\ Torn \notin Data /\ Nothing \notin Data \cup {Torn}
    /\ PowerLoss \in BOOLEAN /\ MaxSends \in Nat /\ MaxCrashes \in Nat

VARIABLES req,              \* request slots
          recordings,       \* recordings/<id>.ogg
          metadata,         \* metadata/<id>.json
          tmp,              \* metadata/.<id>.json.tmp, one name for all requests
          transcripts,      \* transcripts/<id>.txt
          notes,            \* notes/<id>.md
          done,             \* ids with a done/<id>.json
          queue,            \* _processing_queue
          worker,           \* what _processing_worker_loop is doing
          notebook,         \* files of the notebook repository
          up,               \* the receiver runs
          clock,            \* time: received_at of the last recording
          sends, crashes,
          forgotten,        \* history: ids whose files a power loss took, of each kind
          unheard,          \* history: ids found silent while their audio was torn
          accepted,         \* history: recordings answered 200 or 201
          dropped           \* history: ids dropped since the start

disk == <<recordings, metadata, tmp, forgotten>>
results == <<transcripts, notes, done, notebook, unheard>>
receiverVars == <<req, disk, results, queue, worker, up, clock, sends, crashes, accepted, dropped>>

Free == [pc |-> "free"]
NoMeta == [data |-> Nothing, at |-> 0]
Idle == [pc |-> "idle"]

ReceiverInit ==
    /\ req = [r \in Request |-> Free]
    /\ recordings = [i \in Id |-> Nothing]
    /\ metadata = [i \in Id |-> NoMeta] /\ tmp = [i \in Id |-> NoMeta]
    /\ transcripts = [i \in Id |-> Nothing] /\ notes = [i \in Id |-> NoMeta]
    /\ done = {} /\ queue = <<>> /\ worker = Idle /\ notebook = {}
    /\ up = TRUE /\ clock = 0 /\ sends = 0 /\ crashes = 0
    /\ forgotten = [metadata |-> {}, transcript |-> {}, note |-> {}]
    /\ unheard = {} /\ accepted = {} /\ dropped = {}

-----------------------------------------------------------------------------
(* receive_recording                                                       *)
Send(r, i, d) ==
    /\ up /\ req[r] = Free /\ sends < MaxSends
    /\ req' = [req EXCEPT ![r] = [pc |-> "lookup", id |-> i, data |-> d, at |-> 0, status |-> 0]]
    /\ sends' = sends + 1
    /\ UNCHANGED <<disk, results, queue, worker, up, clock, crashes, accepted, dropped>>

Goto(r, pc) == req' = [req EXCEPT ![r].pc = pc]
Answer(r, status) == req' = [req EXCEPT ![r].pc = "answer", ![r].status = status]

(* Mutant: a repeated upload is stored again.                              *)
LookupNeverFinds(r) ==
    /\ req[r].pc = "lookup"
    /\ clock' = clock + 1
    /\ req' = [req EXCEPT ![r].pc = "open", ![r].at = clock', ![r].status = 201]
    /\ UNCHANGED <<disk, results, queue, worker, up, sends, crashes, accepted, dropped>>

(* read_metadata and the comparison of the digests; received_at is taken   *)
Lookup(r) ==
    /\ req[r].pc = "lookup"
    /\ LET m == metadata[req[r].id]
       IN  IF m = NoMeta
           THEN /\ clock' = clock + 1
                /\ req' = [req EXCEPT ![r].pc = "open", ![r].at = clock', ![r].status = 201]
           ELSE /\ UNCHANGED clock
                /\ IF m.data = req[r].data
                   THEN req' = [req EXCEPT ![r].pc = "enqueue", ![r].status = 200]
                   ELSE Answer(r, 409)
    /\ UNCHANGED <<disk, results, queue, worker, up, sends, crashes, accepted, dropped>>

(* store_recording_durably: open() truncates, then write and fsync         *)
Open(r) ==
    /\ req[r].pc = "open"
    /\ recordings' = [recordings EXCEPT ![req[r].id] = Torn]
    /\ Goto(r, "write")
    /\ UNCHANGED <<metadata, tmp, forgotten, results, queue, worker, up, clock, sends, crashes,
                   accepted, dropped>>

Write(r) ==
    /\ req[r].pc = "write"
    /\ recordings' = [recordings EXCEPT ![req[r].id] = req[r].data]
    /\ Goto(r, "tmp")
    /\ UNCHANGED <<metadata, tmp, forgotten, results, queue, worker, up, clock, sends, crashes,
                   accepted, dropped>>

(* write_metadata: atomic_write_text writes the temporary file, not synced, *)
(* and renames it, which fails when another request has renamed it first.   *)
WriteTmp(r) ==
    /\ req[r].pc = "tmp"
    /\ tmp' = [tmp EXCEPT ![req[r].id] = [data |-> req[r].data, at |-> req[r].at]]
    /\ Goto(r, "replace")
    /\ UNCHANGED <<recordings, metadata, forgotten, results, queue, worker, up, clock, sends,
                   crashes, accepted, dropped>>

Replace(r) ==
    /\ req[r].pc = "replace" /\ tmp[req[r].id] # NoMeta
    /\ LET i == req[r].id
       IN  /\ metadata' = [metadata EXCEPT ![i] = tmp[i]]
           /\ tmp' = [tmp EXCEPT ![i] = NoMeta]
    /\ Goto(r, "enqueue")
    /\ UNCHANGED <<recordings, forgotten, results, queue, worker, up, clock, sends, crashes,
                   accepted, dropped>>

(* Mutant: an error while storing is swallowed.                            *)
StoreFailsIgnored(r) ==
    /\ req[r].pc \in {"open", "write", "tmp", "replace"}
    /\ Goto(r, "enqueue")
    /\ UNCHANGED <<disk, results, queue, worker, up, clock, sends, crashes, accepted, dropped>>

(* An exception, so an answer 500: the disk is full, the rename failed      *)
StoreFails(r) ==
    /\ req[r].pc \in {"open", "write", "tmp", "replace"}
    /\ Answer(r, 500)
    /\ UNCHANGED <<disk, results, queue, worker, up, clock, sends, crashes, accepted, dropped>>

Enqueue(r) ==
    /\ req[r].pc = "enqueue"
    /\ queue' = Append(queue, req[r].id)
    /\ Goto(r, "answer")
    /\ UNCHANGED <<disk, results, worker, up, clock, sends, crashes, accepted, dropped>>

(* The answer is on its way.                                               *)
Answered(r) ==
    /\ req[r].pc = "answer"
    /\ req' = [req EXCEPT ![r] = Free]
    /\ accepted' = IF req[r].status \in {200, 201}
                   THEN accepted \cup {[id |-> req[r].id, data |-> req[r].data]} ELSE accepted
    /\ UNCHANGED <<disk, results, queue, worker, up, clock, sends, crashes, dropped>>

Handler(r) == \/ Lookup(r) \/ Open(r) \/ Write(r) \/ WriteTmp(r) \/ Replace(r)
              \/ StoreFails(r) \/ Enqueue(r)

-----------------------------------------------------------------------------
(* process_recording_async, in the one worker thread                       *)
Take ==
    /\ up /\ worker = Idle /\ queue # <<>>
    /\ worker' = [pc |-> "listen", id |-> Head(queue), at |-> metadata[Head(queue)].at]
    /\ queue' = Tail(queue)
    /\ UNCHANGED <<req, disk, results, up, clock, sends, crashes, accepted, dropped>>

(* Mutant: the transcript is made anew every time.                         *)
TranscribeAgain ==
    /\ worker.pc = "listen"
    /\ recordings[worker.id] \notin Silent \cup {Nothing}
    /\ transcripts' = [transcripts EXCEPT ![worker.id] = recordings[worker.id]]
    /\ worker' = [worker EXCEPT !.pc = "render"]
    /\ UNCHANGED <<req, disk, notes, done, notebook, unheard, queue, up, clock, sends, crashes,
                   accepted, dropped>>

(* An existing transcript is used; otherwise whisper hears what the file   *)
(* holds now.                                                              *)
Transcribe ==
    /\ worker.pc = "listen"
    /\ \/ /\ transcripts[worker.id] # Nothing
          /\ UNCHANGED transcripts
       \/ /\ transcripts[worker.id] = Nothing
          /\ recordings[worker.id] \notin Silent \cup {Nothing}
          /\ transcripts' = [transcripts EXCEPT ![worker.id] = recordings[worker.id]]
    /\ worker' = [worker EXCEPT !.pc = "render"]
    /\ UNCHANGED <<req, disk, notes, done, notebook, unheard, queue, up, clock, sends, crashes,
                   accepted, dropped>>

(* An empty transcript, of silence or of what was written so far; it is    *)
(* taken for the last word either way.                                     *)
NoSpeech ==
    /\ worker.pc = "listen"
    /\ transcripts[worker.id] = Nothing /\ recordings[worker.id] \in Silent \cup {Torn}
    /\ done' = done \cup {worker.id}
    /\ unheard' = IF recordings[worker.id] = Torn THEN unheard \cup {worker.id} ELSE unheard
    /\ worker' = Idle
    /\ UNCHANGED <<req, disk, transcripts, notes, notebook, queue, up, clock, sends, crashes,
                   accepted, dropped>>

Render ==
    /\ worker.pc = "render"
    /\ notes' = IF notes[worker.id] # NoMeta THEN notes
                ELSE [notes EXCEPT ![worker.id] =
                         [data |-> transcripts[worker.id], at |-> worker.at]]
    /\ worker' = [worker EXCEPT !.pc = "push"]
    /\ UNCHANGED <<req, disk, transcripts, done, notebook, unheard, queue, up, clock, sends,
                   crashes, accepted, dropped>>

(* push_to_mynotebook: the file is named by received_at and id; an existing *)
(* one is left alone.                                                       *)
Pushed ==
    IF \E n \in notebook : n.id = worker.id /\ n.at = worker.at THEN notebook
    ELSE notebook \cup {[id |-> worker.id, at |-> worker.at, text |-> notes[worker.id].data]}

Push ==
    /\ worker.pc = "push"
    /\ notebook' = Pushed
    /\ worker' = [worker EXCEPT !.pc = "finish"]
    /\ UNCHANGED <<req, disk, transcripts, notes, done, unheard, queue, up, clock, sends,
                   crashes, accepted, dropped>>

Finish ==
    /\ worker.pc = "finish"
    /\ done' = done \cup {worker.id}
    /\ worker' = Idle
    /\ UNCHANGED <<req, disk, transcripts, notes, notebook, unheard, queue, up, clock, sends,
                   crashes, accepted, dropped>>

(* Mutant: a failure writes the done marker.                               *)
ProcessingFailsDone ==
    /\ worker # Idle
    /\ done' = done \cup {worker.id}
    /\ worker' = Idle
    /\ UNCHANGED <<req, disk, transcripts, notes, notebook, unheard, queue, up, clock, sends,
                   crashes, accepted, dropped>>

(* Any step raises; the exception is logged and the recording dropped.     *)
ProcessingFails ==
    /\ worker # Idle
    /\ notebook' \in (IF worker.pc = "push" THEN {notebook, Pushed} ELSE {notebook})
    /\ dropped' = dropped \cup {worker.id}
    /\ worker' = Idle
    /\ UNCHANGED <<req, disk, transcripts, notes, done, unheard, queue, up, clock, sends,
                   crashes, accepted>>

Worker == Take \/ Transcribe \/ NoSpeech \/ Render \/ Push \/ Finish \/ ProcessingFails

-----------------------------------------------------------------------------
(* The receiver is killed, or the Mac loses power; a push may be under     *)
(* way.  What atomic_write_text renamed into place was never synced: a     *)
(* power loss may take any of it, the others stay.                         *)
MayTake(ids) == IF PowerLoss THEN SUBSET ids ELSE {{}}
Without(kept, ids, none) == [i \in Id |-> IF i \in ids THEN none ELSE kept[i]]

Crash ==
    /\ up /\ crashes < MaxCrashes
    /\ up' = FALSE /\ crashes' = crashes + 1
    /\ req' = [r \in Request |-> Free] /\ queue' = <<>> /\ worker' = Idle
    /\ notebook' \in (IF worker # Idle /\ worker.pc = "push" THEN {notebook, Pushed}
                                                            ELSE {notebook})
    /\ \E m \in MayTake({i \in Id : metadata[i] # NoMeta}),
         t \in MayTake({i \in Id : transcripts[i] # Nothing}),
         n \in MayTake({i \in Id : notes[i] # NoMeta}), d \in MayTake(done) :
          /\ metadata' = Without(metadata, m, NoMeta)
          /\ transcripts' = Without(transcripts, t, Nothing)
          /\ notes' = Without(notes, n, NoMeta)
          /\ done' = done \ d
          /\ forgotten' = [metadata |-> forgotten.metadata \cup m,
                           transcript |-> forgotten.transcript \cup t,
                           note |-> forgotten.note \cup n]
    /\ UNCHANGED <<recordings, tmp, unheard, clock, sends, accepted, dropped>>

(* Mutant: only what has no transcript is resumed.                         *)
PendingUntranscribed == {i \in Id : metadata[i] # NoMeta /\ transcripts[i] = Nothing}

(* reprocess_pending_recordings, before the first request is served; the   *)
(* directory is read in any order.                                         *)
Pending == {i \in Id : metadata[i] # NoMeta /\ i \notin done}

(* Mutant: no scan at the start.                                           *)
StartScansNothing ==
    /\ ~ up
    /\ up' = TRUE /\ dropped' = {}
    /\ UNCHANGED <<req, disk, results, queue, worker, clock, sends, crashes, accepted>>

Start ==
    /\ ~ up
    /\ up' = TRUE /\ dropped' = {}
    /\ queue' \in SetToSeqs(Pending)
    /\ UNCHANGED <<req, disk, results, worker, clock, sends, crashes, accepted>>

Receive == \E r \in Request : Handler(r) \/ Answered(r)

(* Requests under one id that overlap are repeats of one upload: an id is  *)
(* made by one device for one recording.  Other bytes may come later.      *)
Client == \E r \in Request, i \in Id, d \in Data :
             /\ \A q \in Request : req[q] # Free /\ req[q].id = i => req[q].data = d
             /\ Send(r, i, d)

Init == ReceiverInit
Next == Client \/ Receive \/ Worker \/ Crash \/ Start
Spec == Init /\ [][Next]_receiverVars

(* Threads run; launchd starts the receiver again.                         *)
FairSpec == /\ Spec
            /\ WF_receiverVars(Start) /\ WF_receiverVars(Worker)
            /\ \A r \in Request : WF_receiverVars(Handler(r) \/ Answered(r))

-----------------------------------------------------------------------------
Times == 0 .. MaxSends
Files == Data \cup {Torn, Nothing}
Metas == [data : Files, at : Times]

TypeOK ==
    /\ \A r \in Request :
          req[r] = Free \/ req[r] \in [pc : {"lookup", "open", "write", "tmp", "replace",
                                             "enqueue", "answer"},
                                       id : Id, data : Data, at : Times,
                                       status : {0, 200, 201, 409, 500}]
    /\ recordings \in [Id -> Files] /\ transcripts \in [Id -> Files \ Silent]
    /\ metadata \in [Id -> Metas] /\ tmp \in [Id -> Metas] /\ notes \in [Id -> Metas]
    /\ done \subseteq Id /\ queue \in Seq(Id)
    /\ worker = Idle \/ worker \in [pc : {"listen", "render", "push", "finish"}, id : Id,
                                    at : Times \ {0}]
    /\ notebook \subseteq [id : Id, at : Times \ {0}, text : Files \ {Nothing}]
    /\ up \in BOOLEAN /\ clock \in Times
    /\ forgotten \in [metadata : SUBSET Id, transcript : SUBSET Id, note : SUBSET Id]
    /\ unheard \subseteq Id
    /\ (~ up => worker = Idle /\ queue = <<>> /\ \A r \in Request : req[r] = Free)

(* Whatever was answered "stored" or "already stored" and is not finished  *)
(* is with the worker, in the queue, in a request that will queue it, or   *)
(* dropped since the receiver started; when it is down, the scan at the     *)
(* start will find it (reprocess_pending_recordings) -- except for those   *)
(* whose metadata, which is never synced, went with the power.             *)
Tracked(i) ==
    IF up THEN \/ i \in done \cup dropped
               \/ \E k \in 1 .. Len(queue) : queue[k] = i
               \/ worker # Idle /\ worker.id = i
               \/ \E r \in Request : req[r] # Free /\ req[r].id = i /\ req[r].pc = "enqueue"
    ELSE i \in done \cup Pending
AcceptedIsTracked == \A a \in accepted : Tracked(a.id) \/ a.id \in forgotten.metadata

(* A done marker means that the note of that very transcript is in the     *)
(* notebook, or that the audio was silent; the worker writes it last.  It  *)
(* means neither for a recording whose metadata went with the power, to be *)
(* uploaded anew under the marker, or that was heard while torn and found  *)
(* silent; and a transcript made anew after a loss may be another one.     *)
DoneMeansNoted ==
    \A i \in done \ (forgotten.metadata \cup unheard) :
        \/ metadata[i].data \in Silent
        \/ \E n \in notebook :
              n.id = i /\ (i \notin forgotten.transcript => n.text = transcripts[i])

(* The text of a recording is never rewritten: every note pushed for it    *)
(* holds its one transcript and is the note on the disk, whatever is       *)
(* uploaded under that id later, however often processing is repeated --   *)
(* also when a power loss has taken one of the two: the other one stays    *)
(* what was pushed, and what is made again is made from it.                *)
NotesAreVerbatim ==
    \A n \in notebook :
        /\ n.id \notin forgotten.transcript => n.text = transcripts[n.id]
        /\ n.id \notin forgotten.note => n.text = notes[n.id].data

(* What is accepted gets processed, or it was dropped: it waits for        *)
(* nothing but the worker and restarts.                                    *)
AcceptedIsProcessed ==
    \A i \in Id : (\E a \in accepted : a.id = i) ~> i \in done \cup dropped \cup forgotten.metadata
=============================================================================
