---------------------------- MODULE AudioPipeline ---------------------------
(***************************************************************************)
(* The recording pipeline of firmware/components/audio_pipeline: the audio *)
(* task captures and encodes frames and puts them into s_write_queue, the  *)
(* writer task takes them out and hands them to the recording store, and   *)
(* the application task starts and stops the two.                          *)
(*                                                                         *)
(* The recording store is what RecordingLog promises of it.  A queue       *)
(* receive or a store call takes any time, so the writer may stall; a wait *)
(* for the tasks to exit may then time out.  Codec reads return: the wait  *)
(* never times out on the audio task alone.                                *)
(***************************************************************************)
EXTENDS Integers, Sequences, SequencesExt

CONSTANTS QueueDepth,    \* WRITE_QUEUE_DEPTH
          SplitAfter,    \* SPLIT_AFTER_FRAMES
          SplitForce,    \* SPLIT_FORCE_FRAMES
          SilenceMin,    \* SILENCE_MIN_FRAMES
          LossBound,     \* of the recording store
          MaxSessions,   \* bound: recordings started
          MaxFrames,     \* bound: frames captured while a recording runs
          MaxFiles       \* bound: files opened

ASSUME PipelineAssumption ==
    /\ QueueDepth \in Nat \ {0}
    /\ SplitAfter \in Nat \ {0} /\ SplitForce \in Nat /\ SplitAfter <= SplitForce
    /\ SilenceMin \in Nat
    /\ LossBound \in Nat \ {0}
    /\ MaxSessions \in Nat /\ MaxFrames \in Nat /\ MaxFiles \in Nat

Name == 1 .. MaxFiles   \* files in the order in which they are opened
NoName == 0
Session == 0 .. MaxSessions
Resource == {"i2s", "codec", "opus"}
Packet == [session : Session, seq : 1 .. MaxFrames + 1, split : BOOLEAN]
NoPacket == [session |-> 0, seq |-> 0, split |-> FALSE]

VARIABLES running, failed, last_error,   \* s_running, s_failed, s_last_error
          session, seq,                  \* s_session_id, s_seq
          write_queue,
          audio,                         \* s_audio_task: "none" or where it is
          frames_in_file, quiet_run,
          writer,                        \* s_writer_task: "none" or where it is
          packet,                        \* the packet the writer has received
          resources,                     \* the session's resources that are held
          leaked,                        \* history: a failed init_i2s left its channel behind
          app,                           \* where the application task is
          result,                        \* what its last call returned
          started,                       \* that start of this session returned OK
          callbacks,                     \* error callbacks in this session
          file_session,                  \* the session a file was opened for
          open, accepted, disk           \* the recording store

Log == INSTANCE RecordingLog

store == <<open, accepted, disk, file_session>>
audioVars == <<audio, frames_in_file, quiet_run>>
writerVars == <<writer, packet>>
appVars == <<app, result, started, resources, leaked>>
vars == <<running, failed, last_error, session, seq, write_queue, audioVars, writerVars,
          appVars, callbacks, store>>

TasksExited == audio = "none" /\ writer = "none"

Init ==
    /\ running = FALSE /\ failed = FALSE /\ last_error = "OK"
    /\ session = 0 /\ seq = 0
    /\ write_queue = << >>
    /\ audio = "none" /\ frames_in_file = 0 /\ quiet_run = 0
    /\ writer = "none" /\ packet = NoPacket
    /\ resources = {} /\ leaked = FALSE
    /\ app = "idle" /\ result = "none" /\ started = FALSE
    /\ callbacks = 0
    /\ file_session = [n \in Name |-> 0]
    /\ Log!LogInit

-----------------------------------------------------------------------------
(* recording_store_begin: the files are numbered as they are opened.       *)
OpenFile(s) ==
    LET unused == {n \in Name : file_session[n] = 0}
        n == CHOOSE m \in unused : \A k \in unused : m <= k
    IN  /\ unused # {}
        /\ Log!LogOpen(n)
        /\ file_session' = [file_session EXCEPT ![n] = s]

(* recording_store_abort(true) and a finish that fails                     *)
GiveUp ==
    /\ IF open = NoName THEN UNCHANGED <<open, accepted, disk>> ELSE Log!LogGiveUp
    /\ UNCHANGED file_session

(* recording_store_abort(false) before any packet was written; removing    *)
(* the file may fail                                                       *)
Discard ==
    /\ Log!LogDiscard \/ (accepted = << >> /\ Log!LogGiveUp)
    /\ UNCHANGED file_session

(* report_failure: the first to set s_failed stores the error, ends the    *)
(* recording and calls back; a later one returns at once.                  *)
Publish ==
    /\ last_error' = "FAIL"
    /\ running' = FALSE
    /\ callbacks' = callbacks + 1

-----------------------------------------------------------------------------
(* audio_task                                                              *)
AudioLoop ==
    /\ audio = "loop"
    /\ audio' = IF running THEN "capture" ELSE "exit"
    /\ UNCHANGED <<running, failed, last_error, session, seq, write_queue, frames_in_file,
                   quiet_run, writerVars, appVars, callbacks, store>>

SplitHere(frames, quiet) ==
    \/ frames >= SplitForce
    \/ frames >= SplitAfter /\ quiet >= SilenceMin

(* A frame is read and encoded, and its packet joins the queue.            *)
AudioCapture ==
    /\ audio = "capture"
    /\ seq < MaxFrames \/ (~running /\ seq = MaxFrames)
    /\ Len(write_queue) < QueueDepth
    /\ \E quiet \in BOOLEAN :
          LET frames == frames_in_file + 1
              run    == IF quiet THEN quiet_run + 1 ELSE 0
              split  == SplitHere(frames, run)
          IN  /\ frames_in_file' = IF split THEN 0 ELSE frames
              /\ quiet_run' = IF split THEN 0 ELSE run
              /\ write_queue' = Append(write_queue, [session |-> session, seq |-> seq + 1,
                                                     split |-> split])
    /\ seq' = seq + 1
    /\ audio' = "loop"
    /\ UNCHANGED <<running, failed, last_error, session, writerVars, appVars, callbacks, store>>

(* The read or the encoding fails, or the queue is full.                   *)
AudioFails ==
    /\ audio = "capture"
    /\ failed' = TRUE
    /\ audio' = IF failed THEN "exit" ELSE "publish"
    /\ UNCHANGED <<running, last_error, session, seq, write_queue, frames_in_file, quiet_run,
                   writerVars, appVars, callbacks, store>>

AudioPublish ==
    /\ audio = "publish"
    /\ Publish
    /\ audio' = "exit"
    /\ UNCHANGED <<failed, session, seq, write_queue, frames_in_file, quiet_run,
                   writerVars, appVars, store>>

(* Mutant: s_audio_task is not cleared.                                    *)
AudioExitForgets == audio = "exit" /\ UNCHANGED vars

AudioExit ==
    /\ audio = "exit"
    /\ audio' = "none"
    /\ UNCHANGED <<running, failed, last_error, session, seq, write_queue, frames_in_file,
                   quiet_run, writerVars, appVars, callbacks, store>>

AudioTask == AudioLoop \/ AudioCapture \/ AudioFails \/ AudioPublish \/ AudioExit

-----------------------------------------------------------------------------
(* writer_task                                                             *)
WriterTop ==
    /\ writer = "top"
    /\ writer' = IF failed THEN "end" ELSE "receive"
    /\ UNCHANGED <<running, failed, last_error, session, seq, write_queue, audioVars, packet,
                   appVars, callbacks, store>>

WriterReceive ==
    /\ writer = "receive"
    /\ write_queue # << >>
    /\ packet' = Head(write_queue)
    /\ write_queue' = Tail(write_queue)
    /\ writer' = "write"
    /\ UNCHANGED <<running, failed, last_error, session, seq, audioVars, appVars, callbacks, store>>

(* Mutant: the queue is looked at before the audio task.                   *)
WriterExitCheckReordered ==
    /\ \/ /\ writer = "running?" /\ writer' = IF running THEN "top" ELSE "queue?"
       \/ /\ writer = "queue?"   /\ writer' = IF write_queue # << >> THEN "top" ELSE "audio?"
       \/ /\ writer = "audio?"   /\ writer' = IF audio # "none" THEN "top" ELSE "end"
    /\ UNCHANGED <<running, failed, last_error, session, seq, write_queue, audioVars, packet,
                   appVars, callbacks, store>>

(* Nothing came within WRITER_POLL_MS: s_running, s_audio_task and the     *)
(* queue are looked at one after the other.                                *)
WriterIdle ==
    /\ writer = "receive"
    /\ write_queue = << >>
    /\ writer' = "running?"
    /\ UNCHANGED <<running, failed, last_error, session, seq, write_queue, audioVars, packet,
                   appVars, callbacks, store>>

WriterExitCheck ==
    /\ \/ /\ writer = "running?" /\ writer' = IF running THEN "top" ELSE "audio?"
       \/ /\ writer = "audio?"   /\ writer' = IF audio # "none" THEN "top" ELSE "queue?"
       \/ /\ writer = "queue?"   /\ writer' = IF write_queue # << >> THEN "top" ELSE "end"
    /\ UNCHANGED <<running, failed, last_error, session, seq, write_queue, audioVars, packet,
                   appVars, callbacks, store>>

(* recording_store_write_opus takes the packet.                            *)
WriterWrite ==
    /\ writer = "write"
    /\ Log!LogAccept(packet)
    /\ packet' = NoPacket
    /\ writer' = IF packet.split THEN "split: pages" ELSE "top"
    /\ UNCHANGED <<running, failed, last_error, session, seq, write_queue, audioVars, appVars,
                   callbacks, file_session>>

(* recording_store_finish of a part, or of the last file: the last page    *)
(* reaches the medium, then the file gets its final name.                  *)
WriterPages ==
    /\ \/ writer = "split: pages" /\ writer' = "split: rename"
       \/ writer = "end: pages" /\ writer' = "end: rename"
    /\ Log!LogFlush
    /\ UNCHANGED <<running, failed, last_error, session, seq, write_queue, audioVars, packet,
                   appVars, callbacks, file_session>>

WriterRename ==
    /\ \/ writer = "split: rename" /\ writer' = "split: begin"
       \/ writer = "end: rename" /\ writer' = "wait"
    /\ Log!LogFinalize
    /\ UNCHANGED <<running, failed, last_error, session, seq, write_queue, audioVars, packet,
                   appVars, callbacks, file_session>>

WriterBegin ==
    /\ writer = "split: begin"
    /\ OpenFile(session)
    /\ writer' = "top"
    /\ UNCHANGED <<running, failed, last_error, session, seq, write_queue, audioVars, packet,
                   appVars, callbacks>>

(* Mutant: the result of a store call is not looked at.                    *)
WriterFailsIgnored ==
    /\ writer = "write"
    /\ packet' = NoPacket
    /\ writer' = "top"
    /\ UNCHANGED <<running, failed, last_error, session, seq, write_queue, audioVars, appVars,
                   callbacks, store>>

(* A store call fails.  A failed finish has already let go of the file.    *)
WriterFails ==
    /\ writer \in {"write", "split: pages", "split: rename", "split: begin",
                   "end: pages", "end: rename"}
    /\ IF writer \in {"write", "split: begin"} THEN UNCHANGED store ELSE GiveUp
    /\ failed' = TRUE
    /\ packet' = NoPacket
    /\ LET after == IF writer \in {"end: pages", "end: rename"} THEN "wait" ELSE "end"
       IN  writer' = IF failed THEN after
                     ELSE IF after = "wait" THEN "publish: wait" ELSE "publish: end"
    /\ UNCHANGED <<running, last_error, session, seq, write_queue, audioVars, appVars, callbacks>>

WriterPublish ==
    /\ \/ writer = "publish: end" /\ writer' = "end"
       \/ writer = "publish: wait" /\ writer' = "wait"
    /\ Publish
    /\ UNCHANGED <<failed, session, seq, write_queue, audioVars, packet, appVars, store>>

(* After the loop: a failed recording is given up with whatever is still   *)
(* queued, any other is finished.                                          *)
WriterEnd ==
    /\ writer = "end"
    /\ IF failed
       THEN /\ write_queue' = << >>
            /\ GiveUp
            /\ writer' = "wait"
       ELSE /\ UNCHANGED write_queue
            /\ IF accepted = << >>
               THEN Discard /\ writer' = "wait"
               ELSE UNCHANGED store /\ writer' = "end: pages"
    /\ UNCHANGED <<running, failed, last_error, session, seq, audioVars, packet, appVars, callbacks>>

(* Mutant: deinit_i2s is forgotten.                                        *)
DeinitResourcesButI2s == resources' = resources \cap {"i2s"}

(* deinit_session_resources; deinit_codec and deinit_opus take back as much *)
(* as was made.                                                            *)
DeinitResources == resources' = {}

WriterExit ==
    /\ writer = "wait"
    /\ audio = "none"
    /\ DeinitResources
    /\ writer' = "none"
    /\ UNCHANGED <<running, failed, last_error, session, seq, write_queue, audioVars, packet,
                   app, result, started, leaked, callbacks, store>>

WriterTask == \/ WriterTop \/ WriterReceive \/ WriterIdle \/ WriterExitCheck \/ WriterWrite
              \/ WriterPages \/ WriterRename \/ WriterBegin \/ WriterFails \/ WriterPublish
              \/ WriterEnd \/ WriterExit

-----------------------------------------------------------------------------
(* The application task: audio_pipeline_start and audio_pipeline_stop.     *)
Idle == app \in {"idle", "stopped"}   \* "stopped": the last call was a stop that did not time out
Return(r) == app' = "idle" /\ result' = r

StartBusy ==
    /\ Idle /\ running
    /\ Return("FAIL")
    /\ UNCHANGED <<running, failed, last_error, session, seq, write_queue, audioVars,
                   writerVars, started, resources, leaked, callbacks, store>>

Start ==
    /\ Idle /\ ~running /\ session < MaxSessions
    /\ app' = "start"
    /\ UNCHANGED <<running, failed, last_error, session, seq, write_queue, audioVars,
                   writerVars, result, started, resources, leaked, callbacks, store>>

(* wait_for_tasks_to_exit gives up while the writer is stalled.            *)
WaitTimesOut ==
    /\ app \in {"start", "stop"}
    /\ writer # "none"
    /\ Return("TIMEOUT")
    /\ UNCHANGED <<running, failed, last_error, session, seq, write_queue, audioVars,
                   writerVars, started, resources, leaked, callbacks, store>>

(* init_i2s: the port has one receive channel.  No new channel can be had,  *)
(* or it is there but cannot be set up or enabled: start returns at once,   *)
(* and the channel stays, so that every later start fails here.            *)
InitI2s ==
    /\ app = "start" /\ TasksExited
    /\ \/ /\ "i2s" \notin resources
          /\ resources' = resources \cup {"i2s"} /\ app' = "codec" /\ UNCHANGED <<result, leaked>>
       \/ Return("FAIL") /\ UNCHANGED <<resources, leaked>>
       \/ /\ "i2s" \notin resources
          /\ resources' = resources \cup {"i2s"} /\ Return("FAIL") /\ leaked' = TRUE
    /\ UNCHANGED <<running, failed, last_error, session, seq, write_queue, audioVars,
                   writerVars, started, callbacks, store>>

(* init_codec, then init_opus: either may fail at any of its calls.        *)
InitCodec ==
    /\ app = "codec"
    /\ \/ resources' = resources \cup {"codec"} /\ app' = "opus" /\ UNCHANGED result
       \/ DeinitResources /\ Return("FAIL")
    /\ UNCHANGED <<running, failed, last_error, session, seq, write_queue, audioVars,
                   writerVars, started, leaked, callbacks, store>>

InitOpus ==
    /\ app = "opus"
    /\ \/ resources' = resources \cup {"opus"} /\ app' = "open" /\ UNCHANGED result
       \/ DeinitResources /\ Return("FAIL")
    /\ UNCHANGED <<running, failed, last_error, session, seq, write_queue, audioVars,
                   writerVars, started, leaked, callbacks, store>>

(* recording_store_begin fails.                                            *)
StartFails ==
    /\ app = "open"
    /\ Return("FAIL")
    /\ DeinitResources
    /\ UNCHANGED <<running, failed, last_error, session, seq, write_queue, audioVars,
                   writerVars, started, leaked, callbacks, store>>

(* Mutant: the queue is not reset.                                         *)
StartBeginKeepsQueue ==
    /\ app = "open"
    /\ OpenFile(session + 1)
    /\ session' = session + 1
    /\ seq' = 0
    /\ failed' = FALSE /\ last_error' = "OK" /\ running' = TRUE
    /\ callbacks' = 0 /\ started' = FALSE
    /\ app' = "create audio"
    /\ UNCHANGED <<write_queue, audioVars, writerVars, result, resources, leaked>>

StartBegin ==
    /\ app = "open"
    /\ OpenFile(session + 1)
    /\ write_queue' = << >>
    /\ session' = session + 1
    /\ seq' = 0
    /\ failed' = FALSE /\ last_error' = "OK" /\ running' = TRUE
    /\ callbacks' = 0 /\ started' = FALSE
    /\ app' = "create audio"
    /\ UNCHANGED <<audioVars, writerVars, result, resources, leaked>>

CreateAudio ==
    /\ app = "create audio"
    /\ audio' = "loop" /\ frames_in_file' = 0 /\ quiet_run' = 0
    /\ app' = "create writer"
    /\ UNCHANGED <<running, failed, last_error, session, seq, write_queue, writerVars,
                   result, started, resources, leaked, callbacks, store>>

CreateAudioFails ==
    /\ app = "create audio"
    /\ running' = FALSE
    /\ Discard
    /\ DeinitResources
    /\ Return("FAIL")
    /\ UNCHANGED <<failed, last_error, session, seq, write_queue, audioVars, writerVars,
                   started, leaked, callbacks>>

CreateWriter ==
    /\ app = "create writer"
    /\ writer' = "top"
    /\ started' = TRUE
    /\ Return("OK")
    /\ UNCHANGED <<running, failed, last_error, session, seq, write_queue, audioVars, packet,
                   resources, leaked, callbacks, store>>

CreateWriterFails ==
    /\ app = "create writer"
    /\ running' = FALSE
    /\ app' = "unwind"
    /\ UNCHANGED <<failed, last_error, session, seq, write_queue, audioVars, writerVars,
                   result, started, resources, leaked, callbacks, store>>

(* The audio task has gone: the session leaves nothing behind.             *)
Unwind ==
    /\ app = "unwind" /\ TasksExited
    /\ write_queue' = << >>
    /\ Discard
    /\ DeinitResources
    /\ Return("FAIL")
    /\ UNCHANGED <<running, failed, last_error, session, seq, audioVars, writerVars,
                   started, leaked, callbacks>>

Stop ==
    /\ Idle
    /\ running' = (running /\ TasksExited)
    /\ app' = "stop"
    /\ UNCHANGED <<failed, last_error, session, seq, write_queue, audioVars, writerVars,
                   result, started, resources, leaked, callbacks, store>>

StopReturns ==
    /\ app = "stop" /\ TasksExited
    /\ app' = "stopped" /\ result' = last_error
    /\ UNCHANGED <<running, failed, last_error, session, seq, write_queue, audioVars,
                   writerVars, started, resources, leaked, callbacks, store>>

AppTask == \/ StartBusy \/ Start \/ WaitTimesOut \/ InitI2s \/ InitCodec \/ InitOpus
           \/ StartFails \/ StartBegin \/ CreateAudio \/ CreateAudioFails \/ CreateWriter \/ CreateWriterFails
           \/ Unwind \/ Stop \/ StopReturns

Next == AudioTask \/ WriterTask \/ AppTask

Spec == Init /\ [][Next]_vars

(* The scheduler runs every task that can run.  Nobody has to press the    *)
(* button: the application task is left without fairness.                  *)
FairSpec == Spec /\ WF_vars(AudioTask) /\ WF_vars(WriterTask)

-----------------------------------------------------------------------------
(* Types of the pipeline's shared variables and of the tasks' positions.   *)
TypeOK ==
    /\ running \in BOOLEAN /\ failed \in BOOLEAN
    /\ last_error \in {"OK", "FAIL"}
    /\ session \in Session /\ seq \in 0 .. MaxFrames + 1
    /\ write_queue \in Seq(Packet) /\ Len(write_queue) <= QueueDepth
    /\ audio \in {"none", "loop", "capture", "publish", "exit"}
    /\ frames_in_file \in 0 .. SplitForce /\ quiet_run \in Nat
    /\ writer \in {"none", "top", "receive", "write", "running?", "audio?", "queue?",
                   "split: pages", "split: rename", "split: begin", "end", "end: pages",
                   "end: rename", "publish: end", "publish: wait", "wait"}
    /\ packet \in Packet \cup {NoPacket}
    /\ resources \subseteq Resource /\ leaked \in BOOLEAN
    /\ app \in {"idle", "start", "codec", "opus", "open", "create audio", "create writer", "unwind",
               "stop", "stopped"}
    /\ result \in {"none", "OK", "FAIL", "TIMEOUT"}
    /\ started \in BOOLEAN
    /\ callbacks \in 0 .. 1
    /\ file_session \in [Name -> Session]
    /\ open \in Name \cup {NoName}

(* What the files of session s hold, in the order they were opened; the    *)
(* file being written counts with everything the store has accepted.       *)
Saved(s) == FlattenSeq([n \in Name |->
    IF file_session[n] # s THEN << >> ELSE IF n = open THEN accepted ELSE disk[n].packets])

InHand == IF packet = NoPacket THEN << >> ELSE << packet >>
Captured(s, packets) ==
    \A i \in 1 .. Len(packets) : packets[i].session = s /\ packets[i].seq = i

(* A recording never has a hole: whatever was lost to a failure, the files *)
(* of a session hold, one after the other, the first packets captured in   *)
(* it and nothing of another session (the queue is reset at both ends of a *)
(* session, and nothing is written after a failure).                       *)
SavedIsAPrefix == \A s \in 1 .. session : Captured(s, Saved(s))

(* "refusing silent packet loss": as long as nothing failed, every packet  *)
(* captured is in a file, in the writer's hand or in the queue, in order,  *)
(* across every split of the recording.                                    *)
NoSilentLoss ==
    writer # "none" /\ ~failed =>
        LET all == Saved(session) \o InHand \o write_queue
        IN  Len(all) = seq /\ Captured(session, all)

(* audio_pipeline_stop returning OK after a start that returned OK means   *)
(* that every packet captured is in a finished file; a failure is never    *)
(* hidden from it, and the error callback has run once or not at all.      *)
StopTellsTheTruth ==
    app = "stopped" /\ started =>
        \/ /\ result = "OK" /\ callbacks = 0
           /\ Len(Saved(session)) = seq
           /\ \A n \in Name : file_session[n] = session /\ disk[n].packets # << >> =>
                              disk[n].kind = "final"
        \/ result = "FAIL" /\ callbacks = 1

(* Channel, codec and encoder are there as long as a task may use them, and *)
(* are released, with the store closed, when a session or a start is over, *)
(* whichever of its steps failed ("Per-session resources: created on start, *)
(* destroyed after writer finalization").  The one exception is the channel *)
(* that a failed init_i2s made.                                            *)
ResourcesOwned ==
    /\ audio # "none" \/ writer # "none" => resources = Resource
    /\ Idle /\ TasksExited =>
          /\ resources = IF leaked THEN {"i2s"} ELSE {}
          /\ open = NoName

(* A session ends on its own once it failed or was stopped: neither task   *)
(* waits for the other for ever.                                           *)
SessionsEnd == (failed \/ ~running) ~> TasksExited
=============================================================================
