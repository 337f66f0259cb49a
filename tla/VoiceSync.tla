----------------------------- MODULE VoiceSync ------------------------------
(***************************************************************************)
(* From the device's storage to the notebook: the sync task (WifiSync)     *)
(* talks to the receiver (Receiver) over connections that break, time out  *)
(* and lose answers, and the device and the receiver restart.              *)
(***************************************************************************)
EXTENDS Integers, Sequences, FiniteSets

CONSTANTS Id, Data, NoFile, InFlash, Networks, MaxCandidates,
          Silent, Torn, Nothing, Request, PowerLoss, MaxSends, MaxCrashes,
          LateRequests,     \* a request the device gave up may outlive its successor
          MaxResets         \* bound: resets of the device

ASSUME VoiceAssumption ==
    /\ IsFiniteSet(Id) /\ InFlash \subseteq Id /\ Silent \subseteq Data
    /\ NoFile \notin Data \cup Id \cup Request /\ Nothing \notin Data /\ Torn \notin Data

VARIABLES files, sync, wifi, reachable, net, link, bits, late, store, flash, mounted,
          candidates, current, uploaded, failed, result, callbacks, taken, acked, ever,
          req, recordings, metadata, tmp, transcripts, notes, done, queue, worker, notebook,
          up, clock, sends, crashes, forgotten, unheard, accepted, dropped,
          attempt,          \* the request upload_file waits for, or NoFile
          resets,
          recorded          \* history: what was recorded under each id

Device == INSTANCE WifiSync
Mac == INSTANCE Receiver

syncTask == <<files, sync, wifi, reachable, net, link, bits, late, store, flash, mounted,
              candidates, current, uploaded, failed, result, callbacks, taken, acked, ever>>
disk == <<recordings, metadata, tmp, forgotten, transcripts, notes, done, notebook, unheard>>
mac == <<req, disk, queue, worker, up, clock, sends, crashes, accepted, dropped>>
device == <<syncTask, resets, recorded>>
vars == <<device, mac, attempt>>

(* The partition is formatted: WifiSync has the others.                    *)
Init ==
    /\ Device!Init /\ Mac!Init /\ flash = "fat"
    /\ attempt = NoFile /\ resets = 0 /\ recorded = files

-----------------------------------------------------------------------------
(* What the device does without the receiver.                              *)
DeviceAlone ==
    /\ Device!SyncStart \/ Device!SyncTask \/ Device!Driver \/ Device!Boot
    /\ UNCHANGED <<mac, attempt, resets, recorded>>

(* upload_file: esp_http_client_open and the body.  Without LateRequests a *)
(* request that was given up has ended before the next one is sent.        *)
Connect(r) ==
    /\ sync \in {"lan", "fallback"} /\ attempt = NoFile
    /\ LateRequests \/ \A q \in Request : req[q] = Mac!Free
    /\ Mac!Send(r, current, files[current])
    /\ attempt' = r
    /\ UNCHANGED device

(* No connection, or the body does not get through.                        *)
NotConnected ==
    /\ attempt = NoFile
    /\ Device!UploadFails
    /\ UNCHANGED <<mac, attempt, resets, recorded>>

BrokenOff ==
    /\ attempt # NoFile /\ req[attempt].pc = "lookup"
    /\ req' = [req EXCEPT ![attempt] = Mac!Free]
    /\ Device!UploadFails
    /\ attempt' = NoFile
    /\ UNCHANGED <<disk, queue, worker, up, clock, sends, crashes, accepted,
                   dropped, resets, recorded>>

(* The status line arrives: 200 and 201 are success, all else a failure.   *)
Reply ==
    /\ attempt # NoFile
    /\ Mac!Answered(attempt)
    /\ IF req[attempt].status \in {200, 201} THEN Device!UploadOk ELSE Device!UploadFails
    /\ attempt' = NoFile
    /\ UNCHANGED <<resets, recorded>>

(* The request timed out, or the answer got lost; the receiver goes on.    *)
GiveUp ==
    /\ attempt # NoFile
    /\ Device!UploadFails
    /\ attempt' = NoFile
    /\ UNCHANGED <<mac, resets, recorded>>

-----------------------------------------------------------------------------
Receive ==
    /\ \E r \in Request : Mac!Handler(r) \/ (r # attempt /\ Mac!Answered(r))
    /\ UNCHANGED <<device, attempt>>

Work == Mac!Worker /\ UNCHANGED <<device, attempt>>

Start == Mac!Start /\ UNCHANGED <<device, attempt>>

(* The receiver stops: the device's connection is reset.                   *)
Crash ==
    /\ Mac!Crash
    /\ IF attempt = NoFile THEN UNCHANGED syncTask ELSE Device!UploadFails
    /\ attempt' = NoFile
    /\ UNCHANGED <<resets, recorded>>

(* The device loses power or restarts in the middle of a sync.             *)
DeviceReset ==
    /\ Device!Reset /\ resets < MaxResets
    /\ resets' = resets + 1 /\ attempt' = NoFile
    /\ UNCHANGED <<mac, recorded>>

Next == \/ DeviceAlone \/ NotConnected \/ BrokenOff \/ Reply \/ GiveUp
        \/ \E r \in Request : Connect(r)
        \/ Receive \/ Work \/ Start \/ Crash \/ DeviceReset

Spec == Init /\ [][Next]_vars

-----------------------------------------------------------------------------
TypeOK ==
    /\ Device!TypeOK /\ Mac!TypeOK
    /\ attempt \in Request \cup {NoFile} /\ resets \in 0 .. MaxResets
    /\ recorded \in [Id -> Data \cup {NoFile}]
    /\ attempt # NoFile => /\ sync \in {"lan", "fallback"} /\ req[attempt] # Mac!Free
                           /\ req[attempt].id = current /\ req[attempt].data = files[current]

(* A recording that is gone from the device is whole on the Mac, and known *)
(* there by its metadata, so that it will be processed (wifi_sync.c, "a    *)
(* success response means the recording is safe on the Mac").              *)
NothingLost ==
    \A i \in Id : recorded[i] # NoFile /\ files[i] = NoFile =>
        recordings[i] = recorded[i] /\ metadata[i].data = recorded[i]

(* However often a recording is sent or processed again, there is at most  *)
(* one note of it in the notebook, and processing that finished has written *)
(* down what was recorded, never the text of a file that was still arriving *)
(* (push_to_mynotebook, process_recording_async).                           *)
NotedOnce ==
    /\ \A m, n \in notebook : m.id = n.id => m = n
    /\ \A i \in done : \/ recorded[i] \in Silent
                       \/ \E n \in notebook : n.id = i /\ n.text = recorded[i]

(* wifi_sync.c: "The receiver fsyncs the recording durably and dedupes by  *)
(* SHA-256 before replying 200/201, so a success response means the        *)
(* recording is safe on the Mac."  Stated when no request is being served. *)
SafeOnTheMac ==
    (\A r \in Request : req[r] = Mac!Free) =>
        \A i \in Id : recorded[i] # NoFile /\ files[i] = NoFile => recordings[i] = recorded[i]
=============================================================================
