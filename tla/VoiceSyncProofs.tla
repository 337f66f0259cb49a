-------------------------- MODULE VoiceSyncProofs ---------------------------
(***************************************************************************)
(* That no recording is lost between device and notebook, and each is      *)
(* noted once, for any number of recordings, networks, requests, restarts  *)
(* of the device and stops of the receiver; where requests that were given *)
(* up have ended before the next is sent, and the Mac keeps its power.     *)
(***************************************************************************)
EXTENDS VoiceSync, FiniteSetTheorems, TLAPS

Files == Data \cup {Torn, Nothing}
Meta == [data : Data, at : Nat]
Storing == {"open", "write", "tmp", "replace"}
Steps == {"lookup", "enqueue", "answer"} \cup Storing
Statuses == {0, 200, 201, 409, 500}
Requests == [pc : Steps, id : Id, data : Data, at : Nat, status : Statuses]
Jobs == [pc : {"listen", "render", "push", "finish"}, id : Id, at : Nat]
Notes == [id : Id, at : Nat, text : Files]
Sending == {"lan", "fallback"}

(* What was recorded is on the device or was removed; what is to be sent   *)
(* is on the device.                                                       *)
FilesInv ==
    /\ recorded \in [Id -> Data \cup {NoFile}] /\ files \in [Id -> Data \cup {NoFile}]
    /\ flash = "fat"
    /\ \A i \in Id : files[i] \in {recorded[i], NoFile}
    /\ candidates \subseteq {i \in Id : files[i] # NoFile}
    /\ sync \in Sending => current \in Id \ candidates /\ files[current] # NoFile

(* upload_file waits for the request that carries the file being sent.     *)
AttemptInv ==
    /\ attempt \in Request \cup {NoFile}
    /\ attempt # NoFile => /\ sync \in Sending
                           /\ req[attempt] # Mac!Free /\ req[attempt].id = current

(* There is one request at a time; it carries what was recorded, and       *)
(* stores only what is not there.                                          *)
ReqType ==
    /\ req \in [Request -> {Mac!Free} \cup Requests] /\ clock \in Nat
    /\ \A q, r \in Request : req[q] # Mac!Free /\ req[r] # Mac!Free => q = r
    /\ \A r \in Request : req[r] # Mac!Free => req[r].data = recorded[req[r].id]
Stored(i) == metadata[i] # Mac!NoMeta
StoreInv ==
    \A r \in Request :
       /\ req[r].pc \in Storing => ~ Stored(req[r].id)
       /\ req[r].pc \in {"tmp", "replace"} => recordings[req[r].id] = req[r].data
       /\ req[r].pc = "replace" => tmp[req[r].id] = [data |-> req[r].data, at |-> req[r].at]
       /\ req[r].pc = "enqueue" => Stored(req[r].id)
       /\ req[r].pc = "answer" /\ req[r].status \in {200, 201} => Stored(req[r].id)

(* What has metadata is whole, and what is gone from the device has.       *)
DiskInv ==
    /\ recordings \in [Id -> Files] /\ metadata \in [Id -> Meta \cup {Mac!NoMeta}]
    /\ tmp \in [Id -> Meta \cup {Mac!NoMeta}]
    /\ \A i \in Id : Stored(i) => metadata[i].data = recorded[i] /\ recordings[i] = recorded[i]
    /\ \A i \in Id : recorded[i] # NoFile /\ files[i] = NoFile => Stored(i)

(* The worker has only what is stored, and makes one note of it.           *)
WorkInv ==
    /\ queue \in Seq({i \in Id : Stored(i)})
    /\ worker \in {Mac!Idle} \cup Jobs
    /\ worker # Mac!Idle => Stored(worker.id) /\ worker.at = metadata[worker.id].at
TextInv ==
    /\ transcripts \in [Id -> Files] /\ notes \in [Id -> [data : Files, at : Nat]]
    /\ \A i \in Id : transcripts[i] # Nothing => transcripts[i] = recorded[i]
    /\ \A i \in Id : notes[i] # Mac!NoMeta => /\ notes[i].data = transcripts[i]
                                              /\ transcripts[i] # Nothing
    /\ worker.pc \in {"render", "push", "finish"} => transcripts[worker.id] # Nothing
    /\ worker.pc \in {"push", "finish"} => notes[worker.id] # Mac!NoMeta
NoteInv ==
    /\ notebook \subseteq Notes /\ done \subseteq Id
    /\ \A n \in notebook : /\ Stored(n.id) /\ n.at = metadata[n.id].at
                           /\ n.text = recorded[n.id]
    /\ worker.pc = "finish" => \E n \in notebook : n.id = worker.id
    /\ \A i \in done : recorded[i] \in Silent \/ \E n \in notebook : n.id = i

Inv ==
    /\ FilesInv /\ AttemptInv /\ ReqType /\ StoreInv /\ DiskInv
    /\ WorkInv /\ TextInv /\ NoteInv
-----------------------------------------------------------------------------
(* The steps of the whole, as the files on the device see them.            *)
LEMMA DeviceCases ==
    ASSUME [Next]_vars
    PROVE  \/ Device!SyncStart \/ Device!SyncTask \/ Device!Driver \/ Device!Boot
           \/ Device!UploadFails \/ Device!Reset \/ UNCHANGED syncTask
           \/ Reply /\ Device!UploadOk /\ req[attempt].status \in {200, 201}
BY DEF Next, DeviceAlone, NotConnected, BrokenOff, Reply, GiveUp, Connect, Receive, Work, Start,
       Crash, DeviceReset, vars, device

(* What was recorded is history: no step changes it.                       *)
LEMMA RecordedStays == ASSUME [Next]_vars PROVE recorded' = recorded
BY DEF Next, DeviceAlone, NotConnected, BrokenOff, Reply, GiveUp, Connect, Receive, Work, Start,
       Crash, DeviceReset, vars, device

(* A formatted partition is mounted or not, and never formatted again.     *)
LEMMA FlashStays ==
    ASSUME flash = "fat", NEW allow, Device!MountFlash(allow)
    PROVE  UNCHANGED <<flash, files>>
BY DEF Device!MountFlash, Device!MayFormat

(* The files of the device, through every step.                            *)
LEMMA FilesInvNext ==
    ASSUME VoiceAssumption, FilesInv, [Next]_vars PROVE FilesInv'
<1>0. recorded' = recorded
  BY RecordedStays
<1>1. CASE Device!SyncStart \/ Device!Driver
  BY <1>0, <1>1 DEF Device!SyncStart, Device!Driver, Device!DriverAnswers, Device!LateDisconnect,
                    Device!medium, FilesInv, Sending
<1>2. CASE Device!SyncTask
  <2>1. CASE Device!Collect
    <3>1. UNCHANGED <<files, flash>>
      BY <2>1, FlashStays DEF Device!Collect, Device!OpenBacklog, Device!medium, FilesInv
    <3>2. \A ids \in SUBSET Id : \A s \in Device!Collected(Device!PendingIn(ids)) :
             s \subseteq {i \in Id : files[i] # NoFile}
      BY DEF Device!Collected, Device!PendingIn
    <3>3. Device!AtBase \in SUBSET Id /\ InFlash \in SUBSET Id
      BY DEF Device!AtBase, VoiceAssumption
    <3>4. candidates' \subseteq {i \in Id : files[i] # NoFile}
      <4>1. PICK found \in Device!Collected(Device!PendingIn(Device!AtBase)) :
               \/ candidates' = found \/ candidates' = {}
               \/ candidates' \in Device!Collected(Device!PendingIn(InFlash))
        BY <2>1, Zenon DEF Device!Collect
      <4>. QED
        BY <3>2, <3>3, <4>1
    <3>5. sync' = "next file"
      BY <2>1 DEF Device!Collect
    <3>. QED
      BY <1>0, <3>1, <3>4, <3>5 DEF FilesInv, Sending
  <2>2. CASE Device!NextFile
    <3>1. /\ UNCHANGED <<files, flash>> /\ current' \in candidates
          /\ candidates' = candidates \ {current'}
      BY <2>2 DEF Device!NextFile, Device!medium
    <3>. QED
      BY <1>0, <3>1 DEF FilesInv
  <2>3. CASE ~ Device!Collect /\ ~ Device!NextFile
    <3>1. UNCHANGED <<files, flash, candidates>> /\ sync' \notin Sending
      BY <1>2, <2>3 DEF Device!SyncTask, Device!WifiUp, Device!WifiFails, Device!TryNetwork,
         Device!Connected, Device!NotReached, Device!NoNetwork, Device!NoMemory,
         Device!AllFilesDone, Device!SyncDone, Device!WifiDown, Device!SyncExit,
         Device!CloseBacklog, Device!Notify, Device!medium, Sending
    <3>. QED
      BY <1>0, <3>1 DEF FilesInv
  <2>. QED
    BY <2>1, <2>2, <2>3
<1>3. CASE Device!Boot
  <2>1. UNCHANGED <<files, flash>>
    BY <1>3, FlashStays DEF Device!Boot, Device!StoreInit, Device!MountSd, FilesInv
  <2>2. UNCHANGED <<sync, candidates, current>>
    BY <1>3 DEF Device!Boot
  <2>. QED
    BY <1>0, <2>1, <2>2 DEF FilesInv
<1>4. CASE Device!UploadFails
  <2>1. UNCHANGED <<files, flash, candidates>>
    BY <1>4 DEF Device!UploadFails, Device!medium
  <2>2. sync' \in Sending => sync \in Sending /\ current' = current
    BY <1>4 DEF Device!UploadFails, Sending
  <2>. QED
    BY <1>0, <2>1, <2>2 DEF FilesInv
<1>5. CASE Device!Reset
  BY <1>0, <1>5 DEF Device!Reset, Device!Unmounted, FilesInv, Sending
<1>6. CASE UNCHANGED syncTask
  BY <1>0, <1>6 DEF syncTask, FilesInv
<1>7. CASE Device!UploadOk
  <2>1. /\ sync \in Sending /\ sync' = "next file" /\ UNCHANGED <<flash, candidates>>
        /\ files' \in {files, [files EXCEPT ![current] = NoFile]}
    BY <1>7 DEF Device!UploadOk, Device!medium, Sending
  <2>2. current \in Id \ candidates
    BY <2>1 DEF FilesInv
  <2>. QED
    BY <1>0, <2>1, <2>2 DEF FilesInv, Sending
<1>. QED
  BY <1>1, <1>2, <1>3, <1>4, <1>5, <1>6, <1>7, DeviceCases

(* Only an upload that was acknowledged removes a file.                    *)
LEMMA FilesStay ==
    ASSUME VoiceAssumption, FilesInv, [Next]_vars
    PROVE  \/ files' = files
           \/ Reply /\ Device!UploadOk /\ req[attempt].status \in {200, 201}
<1>1. CASE Device!SyncStart \/ Device!Driver \/ Device!UploadFails \/ Device!Reset
  BY <1>1 DEF Device!SyncStart, Device!Driver, Device!DriverAnswers, Device!LateDisconnect,
              Device!UploadFails, Device!Reset
<1>2. CASE Device!SyncTask
  BY <1>2, FlashStays, ZenonT(60)
     DEF Device!SyncTask, Device!WifiUp, Device!WifiFails, Device!TryNetwork,
     Device!Connected, Device!NotReached, Device!NoNetwork, Device!NoMemory, Device!Collect,
     Device!OpenBacklog, Device!NextFile, Device!AllFilesDone, Device!SyncDone, Device!WifiDown,
     Device!SyncExit, FilesInv
<1>3. CASE Device!Boot
  BY <1>3, FlashStays DEF Device!Boot, Device!StoreInit, Device!MountSd, FilesInv
<1>4. CASE UNCHANGED syncTask
  BY <1>4 DEF syncTask
<1>. QED
  BY <1>1, <1>2, <1>3, <1>4, DeviceCases

-----------------------------------------------------------------------------
(* The steps, as the receiver's requests and files see them.               *)
LEMMA RequestCases ==
    ASSUME AttemptInv, [Next]_vars
    PROVE  \/ \E r \in Request : Connect(r) \/ Mac!Handler(r) \/ Mac!Answered(r)
           \/ BrokenOff \/ Crash
           \/ UNCHANGED <<req, recordings, metadata, tmp, clock>>
<1>1. CASE DeviceAlone \/ NotConnected \/ GiveUp \/ DeviceReset \/ UNCHANGED vars
  BY <1>1 DEF DeviceAlone, NotConnected, GiveUp, DeviceReset, vars, mac, disk
<1>2. CASE Work \/ Start
  BY <1>2 DEF Work, Start, Mac!Worker, Mac!Take, Mac!Transcribe, Mac!NoSpeech, Mac!Render, Mac!Push,
              Mac!Finish, Mac!ProcessingFails, Mac!Start, Mac!disk
<1>3. CASE Reply
  BY <1>3, AttemptInv DEF Reply, AttemptInv
<1>4. CASE Receive
  BY <1>4 DEF Receive
<1>. QED
  BY <1>1, <1>2, <1>3, <1>4 DEF Next

(* A step of a request changes that request alone.                         *)
LEMMA RequestStep ==
    ASSUME ReqType, NEW r \in Request, Mac!Handler(r) \/ Mac!Answered(r)
    PROVE  /\ req[r] \in Requests
           /\ \A q \in Request \ {r} : req[q] = Mac!Free /\ req'[q] = Mac!Free
<1>1. req[r] # Mac!Free
  BY DEF Mac!Handler, Mac!Answered, Mac!Lookup, Mac!Open, Mac!Write, Mac!WriteTmp, Mac!Replace,
         Mac!StoreFails, Mac!Enqueue, Mac!Free
<1>2. req[r] \in Requests
  BY <1>1 DEF ReqType
<1>3. \A q \in Request \ {r} : req'[q] = req[q]
  BY DEF Mac!Handler, Mac!Answered, Mac!Lookup, Mac!Open, Mac!Write, Mac!WriteTmp, Mac!Replace,
         Mac!StoreFails, Mac!Enqueue, Mac!Goto, Mac!Answer, ReqType
<1>. QED
  BY <1>1, <1>2, <1>3 DEF ReqType

(* A request with its place and its status set.                            *)
LEMMA StatusSet ==
    ASSUME ReqType, NEW r \in Request, req[r] \in Requests, NEW p \in Steps, NEW s \in Statuses,
           req' = [req EXCEPT ![r].pc = p, ![r].status = s]
    PROVE  /\ req'[r] \in Requests /\ req'[r].pc = p /\ req'[r].status = s
           /\ req'[r].id = req[r].id /\ req'[r].data = req[r].data
<1>1. PICK y : y = [req[r] EXCEPT !.pc = p, !.status = s]
  OBVIOUS
<1>2. y \in Requests
  BY <1>1, Zenon DEF Requests
<1>3. y.pc = p /\ y.status = s /\ y.id = req[r].id /\ y.data = req[r].data
  BY <1>1, Zenon DEF Requests
<1>4. req' = [req EXCEPT ![r] = y]
  BY <1>1 DEF ReqType
<1>5. req'[r] = y
  BY <1>4 DEF ReqType
<1>. QED
  BY <1>2, <1>3, <1>5

(* And with its time.                                                      *)
LEMMA TimeSet ==
    ASSUME ReqType, NEW r \in Request, req[r] \in Requests, NEW p \in Steps, NEW s \in Statuses,
           NEW t \in Nat, req' = [req EXCEPT ![r].pc = p, ![r].at = t, ![r].status = s]
    PROVE  /\ req'[r] \in Requests /\ req'[r].pc = p /\ req'[r].status = s
           /\ req'[r].id = req[r].id /\ req'[r].data = req[r].data
<1>1. PICK y : y = [req[r] EXCEPT !.pc = p, !.at = t, !.status = s]
  OBVIOUS
<1>2. y \in Requests
  BY <1>1, Zenon DEF Requests
<1>3. y.pc = p /\ y.status = s /\ y.id = req[r].id /\ y.data = req[r].data
  BY <1>1, Zenon DEF Requests
<1>4. req' = [req EXCEPT ![r] = y]
  BY <1>1 DEF ReqType
<1>5. req'[r] = y
  BY <1>4 DEF ReqType
<1>. QED
  BY <1>2, <1>3, <1>5

(* What a handler makes of its request.                                    *)
LEMMA HandlerStep ==
    ASSUME ReqType, NEW r \in Request, Mac!Handler(r)
    PROVE  /\ req'[r] \in Requests /\ req'[r].id = req[r].id /\ req'[r].data = req[r].data
           /\ clock' \in Nat
<1>1. req[r] \in Requests /\ clock \in Nat
  BY RequestStep DEF ReqType
<1>2. \A p \in Steps : [req[r] EXCEPT !.pc = p] \in Requests
  BY <1>1 DEF Requests
<1>3. /\ "open" \in Steps /\ "enqueue" \in Steps /\ "answer" \in Steps
      /\ 200 \in Statuses /\ 201 \in Statuses /\ 409 \in Statuses /\ 500 \in Statuses
  BY DEF Steps, Storing, Statuses
<1>4. clock + 1 \in Nat
  BY <1>1
<1>5. CASE Mac!Lookup(r)
  <2>1. CASE /\ clock' = clock + 1
             /\ req' = [req EXCEPT ![r].pc = "open", ![r].at = clock + 1, ![r].status = 201]
    BY <1>1, <1>3, <1>4, <2>1, TimeSet, ZenonT(40)
  <2>2. CASE clock' = clock /\ req' = [req EXCEPT ![r].pc = "enqueue", ![r].status = 200]
    BY <1>1, <1>3, <2>2, StatusSet, ZenonT(40)
  <2>3. CASE clock' = clock /\ req' = [req EXCEPT ![r].pc = "answer", ![r].status = 409]
    BY <1>1, <1>3, <2>3, StatusSet, ZenonT(40)
  <2>. QED
    BY <1>5, <2>1, <2>2, <2>3, ZenonT(40) DEF Mac!Lookup, Mac!Answer
<1>6. CASE Mac!StoreFails(r)
  <2>1. req' = [req EXCEPT ![r].pc = "answer", ![r].status = 500] /\ clock' = clock
    BY <1>6 DEF Mac!StoreFails, Mac!Answer
  <2>. QED
    BY <1>1, <1>3, <2>1, StatusSet, ZenonT(40)
<1>7. CASE Mac!Open(r) \/ Mac!Write(r) \/ Mac!WriteTmp(r) \/ Mac!Replace(r) \/ Mac!Enqueue(r)
  <2>1. \E p \in Steps : req'[r] = [req[r] EXCEPT !.pc = p]
    BY <1>7 DEF Mac!Open, Mac!Write, Mac!WriteTmp, Mac!Replace, Mac!Enqueue, Mac!Goto, Steps,
                Storing, ReqType
  <2>2. clock' = clock
    BY <1>7 DEF Mac!Open, Mac!Write, Mac!WriteTmp, Mac!Replace, Mac!Enqueue
  <2>. QED
    BY <1>1, <1>2, <2>1, <2>2
<1>. QED
  BY <1>5, <1>6, <1>7 DEF Mac!Handler

(* There is one request at a time: the next is sent when it has ended.     *)
LEMMA ReqTypeNext ==
    ASSUME LateRequests = FALSE, FilesInv, AttemptInv, ReqType, [Next]_vars PROVE ReqType'
<1>0. recorded' = recorded
  BY RecordedStays
<1>1. CASE \E r \in Request : Connect(r)
  <2>1. PICK r \in Request : Connect(r)
    BY <1>1
  <2>2. \A q \in Request : req[q] = Mac!Free
    BY <2>1 DEF Connect
  <2>3. current \in Id /\ files[current] \in Data /\ files[current] = recorded[current]
    BY <2>1 DEF Connect, FilesInv, Sending
  <2>4. [pc |-> "lookup", id |-> current, data |-> files[current], at |-> 0, status |-> 0]
           \in Requests
    BY <2>3 DEF Requests, Steps, Statuses
  <2>5. /\ clock' = clock
        /\ req' = [req EXCEPT ![r] = [pc |-> "lookup", id |-> current, data |-> files[current],
                                      at |-> 0, status |-> 0]]
    BY <2>1 DEF Connect, Mac!Send
  <2>6. req' \in [Request -> {Mac!Free} \cup Requests] /\ clock' \in Nat
    BY <2>4, <2>5 DEF ReqType
  <2>7. \A q \in Request \ {r} : req'[q] = Mac!Free
    BY <2>2, <2>5 DEF ReqType
  <2>8. req'[r].data = recorded'[req'[r].id]
    BY <1>0, <2>3, <2>5 DEF ReqType
  <2>. QED
    BY <2>6, <2>7, <2>8 DEF ReqType
<1>2. CASE \E r \in Request : Mac!Handler(r)
  <2>1. PICK r \in Request : Mac!Handler(r)
    BY <1>2
  <2>2. \A q \in Request \ {r} : req'[q] = Mac!Free
    BY <2>1, RequestStep
  <2>3. /\ req'[r] \in Requests /\ clock' \in Nat
        /\ req'[r].id = req[r].id /\ req'[r].data = req[r].data
    BY <2>1, HandlerStep
  <2>4. req[r] # Mac!Free
    BY <2>1, RequestStep DEF Mac!Free, Requests
  <2>5. DOMAIN req' = Request /\ req' = [q \in DOMAIN req' |-> req'[q]]
    BY <2>1 DEF Mac!Handler, Mac!Lookup, Mac!Open, Mac!Write, Mac!WriteTmp, Mac!Replace,
                Mac!StoreFails, Mac!Enqueue, Mac!Goto, Mac!Answer, ReqType
  <2>. QED
    BY <1>0, <2>2, <2>3, <2>4, <2>5 DEF ReqType
<1>3. CASE \E r \in Request : Mac!Answered(r) \/ (r = attempt /\ BrokenOff)
  <2>1. PICK r \in Request : req' = [req EXCEPT ![r] = Mac!Free] /\ clock' = clock
    BY <1>3 DEF Mac!Answered, BrokenOff
  <2>. QED
    BY <1>0, <2>1 DEF ReqType
<1>4. CASE BrokenOff
  BY <1>3, <1>4 DEF BrokenOff, AttemptInv
<1>5. CASE Crash
  BY <1>0, <1>5 DEF Crash, Mac!Crash, ReqType
<1>6. CASE UNCHANGED <<req, clock>>
  BY <1>0, <1>6 DEF ReqType
<1>. QED
  BY <1>1, <1>2, <1>3, <1>4, <1>5, <1>6, RequestCases

(* upload_file waits for a request until it fails or is answered.          *)
LEMMA AttemptInvNext ==
    ASSUME VoiceAssumption, FilesInv, AttemptInv, ReqType, [Next]_vars PROVE AttemptInv'
<1>1. CASE attempt' = NoFile
  BY <1>1 DEF AttemptInv
<1>2. CASE attempt' # NoFile /\ attempt' = attempt
  <2>0. attempt \in Request
    BY <1>2 DEF AttemptInv
  <2>1. sync' = sync /\ current' = current
    BY <1>2 DEF Next, DeviceAlone, NotConnected, BrokenOff, Reply, GiveUp, Connect, Receive, Work,
       Start, Crash, DeviceReset, vars, device, syncTask, AttemptInv, Sending, Device!SyncStart,
       Device!SyncTask, Device!WifiUp, Device!WifiFails, Device!TryNetwork, Device!Connected,
       Device!NotReached, Device!NoNetwork, Device!NoMemory, Device!Collect, Device!NextFile,
       Device!AllFilesDone, Device!SyncDone, Device!WifiDown, Device!SyncExit, Device!Driver,
       Device!DriverAnswers, Device!LateDisconnect, Device!Boot
  <2>2. CASE Receive
    <3>1. PICK r \in Request : Mac!Handler(r) \/ (r # attempt /\ Mac!Answered(r))
      BY <2>2 DEF Receive
    <3>2. r = attempt
      BY <1>2, <2>0, <3>1, RequestStep DEF AttemptInv
    <3>3. req'[attempt] \in Requests /\ req'[attempt].id = req[attempt].id
      BY <3>1, <3>2, HandlerStep
    <3>. QED
      BY <1>2, <2>1, <3>3 DEF AttemptInv, Requests, Mac!Free
  <2>3. CASE DeviceAlone \/ Work \/ Start \/ UNCHANGED vars
    <3>1. req' = req
      BY <2>3 DEF DeviceAlone, Work, Start, vars, mac, Mac!Worker, Mac!Take, Mac!Transcribe,
         Mac!NoSpeech, Mac!Render, Mac!Push, Mac!Finish, Mac!ProcessingFails, Mac!Start
    <3>. QED
      BY <1>2, <2>1, <3>1 DEF AttemptInv
  <2>. QED
    BY <1>2, <2>2, <2>3 DEF Next, NotConnected, BrokenOff, Reply, GiveUp, Connect, Crash,
                            DeviceReset
<1>3. CASE attempt' # attempt /\ attempt' # NoFile
  <2>1. PICK r \in Request : Connect(r) /\ attempt' = r
    BY <1>3 DEF Next, DeviceAlone, NotConnected, BrokenOff, Reply, GiveUp, Connect, Receive, Work,
       Start, Crash, DeviceReset, vars
  <2>2. sync' = sync /\ current' = current /\ sync \in Sending
    BY <2>1 DEF Connect, device, syncTask, Sending
  <2>3. req'[r] = [pc |-> "lookup", id |-> current, data |-> files[current], at |-> 0, status |-> 0]
    BY <2>1 DEF Connect, Mac!Send, ReqType
  <2>. QED
    BY <2>1, <2>2, <2>3 DEF AttemptInv, Mac!Free
<1>. QED
  BY <1>1, <1>2, <1>3

-----------------------------------------------------------------------------
(* What a handler may do to the files of its recording.                    *)
LEMMA HandlerFiles ==
    ASSUME ReqType, StoreInv, DiskInv, NEW r \in Request, Mac!Handler(r)
    PROVE  /\ \A i \in Id \ {req[r].id} :
                 metadata'[i] = metadata[i] /\ recordings'[i] = recordings[i]
           /\ Stored(req[r].id) => /\ UNCHANGED <<recordings, metadata>>
           /\ recordings' \in [Id -> Files] /\ metadata' \in [Id -> Meta \cup {Mac!NoMeta}]
           /\ tmp' \in [Id -> Meta \cup {Mac!NoMeta}]
<1>1. req[r] \in Requests
  BY RequestStep
<1>2. CASE Mac!Lookup(r) \/ Mac!StoreFails(r) \/ Mac!Enqueue(r)
  BY <1>2 DEF Mac!Lookup, Mac!StoreFails, Mac!Enqueue, Mac!disk, DiskInv
<1>3. CASE Mac!Open(r) \/ Mac!Write(r)
  BY <1>1, <1>3 DEF Mac!Open, Mac!Write, StoreInv, Storing, DiskInv, Requests, Files
<1>4. CASE Mac!WriteTmp(r)
  <2>1. [data |-> req[r].data, at |-> req[r].at] \in Meta
    BY <1>1 DEF Requests, Meta
  <2>. QED
    BY <1>1, <1>4, <2>1 DEF Mac!WriteTmp, DiskInv, Requests
<1>5. CASE Mac!Replace(r)
  <2>1. req[r].id \in Id /\ ~ Stored(req[r].id) /\ Mac!NoMeta \in Meta \cup {Mac!NoMeta}
    BY <1>1, <1>5 DEF Mac!Replace, StoreInv, Storing, Requests
  <2>2. UNCHANGED recordings /\ metadata' = [metadata EXCEPT ![req[r].id] = tmp[req[r].id]]
        /\ tmp' = [tmp EXCEPT ![req[r].id] = Mac!NoMeta]
    BY <1>5 DEF Mac!Replace
  <2>. QED
    BY <2>1, <2>2 DEF DiskInv
<1>. QED
  BY <1>2, <1>3, <1>4, <1>5 DEF Mac!Handler

(* A receiver that is only killed loses no file.                           *)
LEMMA KilledOnly ==
    ASSUME PowerLoss = FALSE, Mac!Crash
    PROVE  /\ metadata' = [i \in Id |-> metadata[i]] /\ done' = done
           /\ transcripts' = [i \in Id |-> transcripts[i]] /\ notes' = [i \in Id |-> notes[i]]
<1>1. \A ids : Mac!MayTake(ids) = {{}}
  BY DEF Mac!MayTake
<1>2. /\ metadata' = Mac!Without(metadata, {}, Mac!NoMeta) /\ done' = done \ {}
      /\ transcripts' = Mac!Without(transcripts, {}, Nothing)
      /\ notes' = Mac!Without(notes, {}, Mac!NoMeta)
  BY <1>1 DEF Mac!Crash
<1>. QED
  BY <1>2 DEF Mac!Without

(* Nothing else touches them while the Mac keeps its power.                *)
LEMMA OtherFiles ==
    ASSUME PowerLoss = FALSE, DiskInv, AttemptInv, [Next]_vars,
           ~ \E r \in Request : Mac!Handler(r)
    PROVE  UNCHANGED <<recordings, metadata, tmp>>
<1>1. CASE \E r \in Request : Connect(r) \/ Mac!Answered(r)
  BY <1>1 DEF Connect, Mac!Send, Mac!Answered, Mac!disk
<1>2. CASE BrokenOff
  BY <1>2 DEF BrokenOff, disk
<1>3. CASE Crash
  <2>1. UNCHANGED <<recordings, tmp>>
    BY <1>3 DEF Crash, Mac!Crash
  <2>2. metadata' = [i \in Id |-> metadata[i]]
    BY <1>3, KilledOnly DEF Crash
  <2>. QED
    BY <2>1, <2>2 DEF DiskInv
<1>. QED
  BY <1>1, <1>2, <1>3, RequestCases

(* What is stored stays as it is.                                          *)
LEMMA StoredStays ==
    ASSUME PowerLoss = FALSE, AttemptInv, ReqType, StoreInv, DiskInv, [Next]_vars
    PROVE  \A i \in Id : Stored(i) => metadata'[i] = metadata[i] /\ recordings'[i] = recordings[i]
BY HandlerFiles, OtherFiles

(* A request stores only what is not there, and says so only when it is.   *)
LEMMA StoreInvNext ==
    ASSUME LateRequests = FALSE, PowerLoss = FALSE,
           FilesInv, AttemptInv, ReqType, StoreInv, DiskInv, Nothing \notin Data, [Next]_vars
    PROVE  StoreInv'
<1>1. CASE \E r \in Request : Mac!Handler(r)
  <2>1. PICK r \in Request : Mac!Handler(r)
    BY <1>1
  <2>2. req[r] \in Requests /\ \A q \in Request \ {r} : req'[q] = Mac!Free
    BY <2>1, RequestStep
  <2>3. req'[r].id = req[r].id /\ req'[r].data = req[r].data
    BY <2>1, HandlerStep
  <2>4. PICK i \in Id : i = req[r].id
    BY <2>2 DEF Requests
  <2>5. SUFFICES
          /\ req'[r].pc \in Storing => metadata'[i] = Mac!NoMeta
          /\ req'[r].pc \in {"tmp", "replace"} => recordings'[i] = req[r].data
          /\ req'[r].pc = "replace" => tmp'[i] = [data |-> req[r].data, at |-> req'[r].at]
          /\ req'[r].pc = "enqueue" => metadata'[i] # Mac!NoMeta
          /\ req'[r].pc = "answer" /\ req'[r].status \in {200, 201} => metadata'[i] # Mac!NoMeta
    BY <2>2, <2>3, <2>4 DEF StoreInv, Stored, Mac!Free, Storing
  <2>6. CASE Mac!Lookup(r)
    <3>1. metadata' = metadata
      BY <2>6 DEF Mac!Lookup, Mac!disk
    <3>2. /\ "open" \in Steps /\ "enqueue" \in Steps /\ "answer" \in Steps
          /\ 200 \in Statuses /\ 201 \in Statuses /\ 409 \in Statuses
      BY DEF Steps, Storing, Statuses
    <3>3. CASE /\ metadata[i] = Mac!NoMeta /\ clock + 1 \in Nat
               /\ req' = [req EXCEPT ![r].pc = "open", ![r].at = clock + 1, ![r].status = 201]
      <4>1. req'[r].pc = "open"
        BY <2>2, <3>2, <3>3, TimeSet, ZenonT(40)
      <4>. QED
        BY <3>1, <3>3, <4>1
    <3>4. CASE /\ metadata[i] # Mac!NoMeta
               /\ req' = [req EXCEPT ![r].pc = "enqueue", ![r].status = 200]
      <4>1. req'[r].pc = "enqueue"
        BY <2>2, <3>2, <3>4, StatusSet, ZenonT(40)
      <4>. QED
        BY <3>1, <3>4, <4>1 DEF Storing
    <3>5. CASE /\ metadata[i] # Mac!NoMeta
               /\ req' = [req EXCEPT ![r].pc = "answer", ![r].status = 409]
      <4>1. req'[r].pc = "answer"
        BY <2>2, <3>2, <3>5, StatusSet, ZenonT(40)
      <4>. QED
        BY <3>1, <3>5, <4>1 DEF Storing
    <3>6. clock + 1 \in Nat
      BY DEF ReqType
    <3>. QED
      BY <2>4, <2>6, <3>3, <3>4, <3>5, <3>6, Zenon DEF Mac!Lookup, Mac!Answer
  <2>7. CASE Mac!StoreFails(r)
    <3>1. req' = [req EXCEPT ![r].pc = "answer", ![r].status = 500]
      BY <2>7 DEF Mac!StoreFails, Mac!Answer
    <3>2. "answer" \in Steps /\ 500 \in Statuses
      BY DEF Steps, Statuses
    <3>3. req[r] \in Requests
      BY <2>2
    <3>4. PICK p \in Steps, s \in Statuses : p = "answer" /\ s = 500
      BY <3>2
    <3>5. req' = [req EXCEPT ![r].pc = p, ![r].status = s]
      BY <3>1, <3>4, Zenon
    <3>6. req'[r].pc = p /\ req'[r].status = s
      BY <3>3, <3>5, StatusSet, ZenonT(40)
    <3>. QED
      BY <3>4, <3>6 DEF Storing
  <2>8. CASE Mac!Open(r) \/ Mac!Write(r) \/ Mac!WriteTmp(r)
    <3>1. metadata' = metadata /\ metadata[i] = Mac!NoMeta
      BY <2>4, <2>8 DEF Mac!Open, Mac!Write, Mac!WriteTmp, StoreInv, Stored, Storing
    <3>2. CASE Mac!Open(r)
      <4>1. req'[r].pc = "write"
        BY <2>2, <3>2 DEF Mac!Open, Mac!Goto, ReqType, Requests
      <4>. QED
        BY <3>1, <4>1
    <3>3. CASE Mac!Write(r)
      <4>1. req'[r].pc = "tmp"
        BY <2>2, <3>3 DEF Mac!Write, Mac!Goto, ReqType, Requests
      <4>2. recordings'[i] = req[r].data
        BY <2>4, <3>3 DEF Mac!Write, DiskInv
      <4>. QED
        BY <3>1, <4>1, <4>2
    <3>4. CASE Mac!WriteTmp(r)
      <4>1. req'[r].pc = "replace" /\ req'[r].at = req[r].at
        BY <2>2, <3>4 DEF Mac!WriteTmp, Mac!Goto, ReqType, Requests
      <4>2. recordings'[i] = req[r].data
        BY <2>4, <3>4 DEF Mac!WriteTmp, StoreInv
      <4>3. tmp'[i] = [data |-> req[r].data, at |-> req[r].at]
        BY <2>4, <3>4 DEF Mac!WriteTmp, DiskInv
      <4>. QED
        BY <3>1, <4>1, <4>2, <4>3
    <3>. QED
      BY <2>8, <3>2, <3>3, <3>4
  <2>9. CASE Mac!Replace(r)
    <3>1. req'[r].pc = "enqueue"
      BY <2>2, <2>9 DEF Mac!Replace, Mac!Goto, ReqType, Requests
    <3>2. tmp[i] = [data |-> req[r].data, at |-> req[r].at]
      BY <2>4, <2>9 DEF Mac!Replace, StoreInv
    <3>3. metadata'[i] = tmp[i]
      BY <2>4, <2>9 DEF Mac!Replace, DiskInv
    <3>4. req[r].data # Nothing
      BY <2>2 DEF Requests
    <3>5. metadata'[i] # Mac!NoMeta
      BY <3>2, <3>3, <3>4 DEF Mac!NoMeta
    <3>. QED
      BY <3>1, <3>5 DEF Storing
  <2>10. CASE Mac!Enqueue(r)
    <3>1. req'[r].pc = "answer"
      BY <2>2, <2>10 DEF Mac!Enqueue, Mac!Goto, ReqType, Requests
    <3>2. metadata' = metadata /\ metadata[i] # Mac!NoMeta
      BY <2>4, <2>10 DEF Mac!Enqueue, Mac!disk, StoreInv, Stored
    <3>. QED
      BY <3>1, <3>2 DEF Storing
  <2>. QED
    BY <2>1, <2>6, <2>7, <2>8, <2>9, <2>10 DEF Mac!Handler
<1>2. CASE ~ \E r \in Request : Mac!Handler(r)
  <2>1. UNCHANGED <<recordings, metadata, tmp>>
    BY <1>2, OtherFiles
  <2>2. \A r \in Request : req'[r] \in {req[r], Mac!Free} \/ req'[r].pc = "lookup"
    <3>1. CASE \E r \in Request : Connect(r)
      BY <3>1 DEF Connect, Mac!Send, ReqType
    <3>2. CASE BrokenOff \/ Crash \/ \E r \in Request : Mac!Answered(r)
      BY <3>2 DEF BrokenOff, Crash, Mac!Crash, Mac!Answered, ReqType
    <3>. QED
      BY <1>2, <3>1, <3>2, RequestCases
  <2>. QED
    BY <2>1, <2>2 DEF StoreInv, Stored, Storing, Mac!Free
<1>. QED
  BY <1>1, <1>2

(* A file leaves the device only when it was answered as stored.           *)
LEMMA DiskInvNext ==
    ASSUME VoiceAssumption, PowerLoss = FALSE, FilesInv, AttemptInv, ReqType, StoreInv, DiskInv,
           [Next]_vars
    PROVE  DiskInv'
<1>0. recorded' = recorded
  BY RecordedStays
<1>1. /\ recordings' \in [Id -> Files] /\ metadata' \in [Id -> Meta \cup {Mac!NoMeta}]
      /\ tmp' \in [Id -> Meta \cup {Mac!NoMeta}]
  BY HandlerFiles, OtherFiles DEF DiskInv
<1>2. ASSUME NEW i \in Id, Stored(i)'
      PROVE  metadata'[i].data = recorded[i] /\ recordings'[i] = recorded[i]
  <2>1. CASE Stored(i)
    BY <2>1, StoredStays DEF DiskInv
  <2>2. CASE ~ Stored(i)
    <3>1. PICK r \in Request : Mac!Handler(r) /\ metadata' # metadata
      BY <1>2, <2>2, OtherFiles DEF Stored
    <3>2. req[r] \in Requests
      BY <3>1, RequestStep
    <3>3. Mac!Replace(r)
      BY <3>1 DEF Mac!Handler, Mac!Lookup, Mac!Open, Mac!Write, Mac!WriteTmp, Mac!StoreFails,
                  Mac!Enqueue, Mac!disk
    <3>4. /\ metadata' = [metadata EXCEPT ![req[r].id] = tmp[req[r].id]]
          /\ recordings' = recordings
          /\ recordings[req[r].id] = req[r].data
          /\ tmp[req[r].id] = [data |-> req[r].data, at |-> req[r].at]
      BY <3>3 DEF Mac!Replace, StoreInv
    <3>5. i = req[r].id
      BY <1>2, <2>2, <3>4 DEF Stored, DiskInv
    <3>6. req[r].data = recorded[i]
      BY <3>2, <3>5 DEF ReqType, Requests, Mac!Free
    <3>. QED
      BY <3>4, <3>5, <3>6 DEF DiskInv
  <2>. QED
    BY <2>1, <2>2
<1>3. ASSUME NEW i \in Id, recorded[i] # NoFile, files'[i] = NoFile
      PROVE  Stored(i)'
  <2>1. Stored(i)
    <3>1. CASE files[i] = NoFile
      BY <1>3, <3>1 DEF DiskInv
    <3>2. CASE files[i] # NoFile
      <4>1. Reply /\ Device!UploadOk /\ req[attempt].status \in {200, 201}
        BY <1>3, <3>2, FilesStay
      <4>2. attempt # NoFile /\ req[attempt].pc = "answer"
        BY <4>1 DEF Reply, Mac!Answered
      <4>3. files' \in {files, [files EXCEPT ![current] = NoFile]}
        BY <4>1 DEF Device!UploadOk
      <4>4. i = current
        BY <1>3, <3>2, <4>3 DEF FilesInv
      <4>5. attempt \in Request /\ req[attempt].id = current
        BY <4>2 DEF AttemptInv
      <4>. QED
        BY <4>1, <4>2, <4>4, <4>5 DEF StoreInv
    <3>. QED
      BY <3>1, <3>2
  <2>. QED
    BY <2>1, StoredStays DEF Stored
<1>. QED
  BY <1>0, <1>1, <1>2, <1>3 DEF DiskInv

-----------------------------------------------------------------------------
(* The steps, as the worker and what it writes see them.                   *)
LEMMA WorkerCases ==
    ASSUME AttemptInv, [Next]_vars
    PROVE  \/ Work \/ Start \/ Crash
           \/ /\ UNCHANGED <<worker, transcripts, notes, done, notebook>>
              /\ \/ UNCHANGED queue
                 \/ \E r \in Request : Mac!Enqueue(r)
<1>1. CASE DeviceAlone \/ NotConnected \/ GiveUp \/ DeviceReset \/ BrokenOff \/ UNCHANGED vars
  BY <1>1 DEF DeviceAlone, NotConnected, GiveUp, DeviceReset, BrokenOff, vars, mac, disk
<1>2. CASE \E r \in Request : Connect(r) \/ Mac!Answered(r) \/ Mac!Handler(r)
  BY <1>2 DEF Connect, Mac!Send, Mac!Answered, Mac!Handler, Mac!Lookup, Mac!Open, Mac!Write,
     Mac!WriteTmp, Mac!Replace, Mac!StoreFails, Mac!Enqueue, Mac!disk, Mac!results
<1>. QED
  BY <1>1, <1>2 DEF Next, Reply, Receive, AttemptInv

(* SetToSeqs: a sequence of the elements.                                  *)
LEMMA SeqOf ==
    ASSUME NEW S, IsFiniteSet(S), NEW q \in Mac!SetToSeqs(S) PROVE q \in Seq(S)
<1>1. Mac!Cardinality(S) = Cardinality(S)
  BY DEF Mac!Cardinality, Cardinality
<1>2. PICK n \in Nat : n = Mac!Cardinality(S)
  BY <1>1, FS_CardinalityType
<1>3. q \in [1 .. n -> S]
  BY <1>2 DEF Mac!SetToSeqs
<1>. QED
  BY <1>2, <1>3

(* The worker has what is stored.                                          *)
LEMMA WorkInvNext ==
    ASSUME VoiceAssumption, PowerLoss = FALSE, AttemptInv, ReqType, StoreInv, DiskInv, WorkInv,
           [Next]_vars
    PROVE  WorkInv'
<1>. DEFINE S == {i \in Id : Stored(i)}
<1>0. /\ S \subseteq S' /\ S \subseteq Id
      /\ \A i \in S : metadata'[i] = metadata[i]
  BY StoredStays DEF Stored
<1>1. queue \in Seq(S) /\ \A q \in Seq(S) : q \in Seq(S')
  BY <1>0 DEF WorkInv
<1>2. worker # Mac!Idle => worker.id \in S /\ worker.at = metadata'[worker.id].at
  BY <1>0 DEF WorkInv, Jobs
<1>3. CASE UNCHANGED worker /\ (UNCHANGED queue \/ \E r \in Request : Mac!Enqueue(r))
  <2>1. queue' \in Seq(S')
    <3>1. CASE UNCHANGED queue
      BY <1>1, <3>1
    <3>2. CASE \E r \in Request : Mac!Enqueue(r)
      <4>1. PICK r \in Request : Mac!Enqueue(r)
        BY <3>2
      <4>2. req[r] \in Requests /\ req[r].pc = "enqueue"
        BY <4>1, RequestStep DEF Mac!Handler, Mac!Enqueue
      <4>3. req[r].id \in S
        BY <4>2 DEF StoreInv, Requests
      <4>4. queue' = Append(queue, req[r].id)
        BY <4>1 DEF Mac!Enqueue
      <4>5. \A x \in S : Append(queue, x) \in Seq(S)
        BY <1>1
      <4>6. queue' \in Seq(S)
        BY <4>3, <4>4, <4>5
      <4>. QED
        BY <1>1, <4>6
    <3>. QED
      BY <1>3, <3>1, <3>2
  <2>2. worker' = worker
    BY <1>3
  <2>. QED
    BY <1>0, <1>2, <2>1, <2>2 DEF WorkInv, Stored
<1>4. CASE Work
  <2>1. CASE Mac!Take
    <3>1. /\ queue # <<>> /\ queue' = Tail(queue)
          /\ worker' = [pc |-> "listen", id |-> Head(queue), at |-> metadata[Head(queue)].at]
      BY <2>1 DEF Mac!Take
    <3>2. Head(queue) \in S /\ Tail(queue) \in Seq(S)
      BY <1>1, <3>1
    <3>3. metadata[Head(queue)] \in Meta
      BY <3>2 DEF DiskInv, Stored
    <3>4. worker' \in Jobs
      BY <3>1, <3>2, <3>3 DEF Jobs, Meta
    <3>5. worker'.id \in S' /\ worker'.at = metadata'[worker'.id].at
      BY <1>0, <3>1, <3>2
    <3>6. queue' \in Seq(S')
      BY <1>1, <3>1, <3>2
    <3>. QED
      BY <3>4, <3>5, <3>6 DEF WorkInv
  <2>2. CASE ~ Mac!Take
    <3>1. queue' = queue /\ worker # Mac!Idle
      BY <1>4, <2>2 DEF Work, Mac!Worker, Mac!Transcribe, Mac!NoSpeech, Mac!Render, Mac!Push,
         Mac!Finish, Mac!ProcessingFails, Mac!Idle
    <3>2. worker \in Jobs
      BY <3>1 DEF WorkInv
    <3>3. \/ worker' = Mac!Idle
          \/ worker' \in Jobs /\ worker'.id = worker.id /\ worker'.at = worker.at
      BY <1>4, <2>2, <3>2 DEF Work, Mac!Worker, Mac!Transcribe, Mac!NoSpeech, Mac!Render,
         Mac!Push, Mac!Finish, Mac!ProcessingFails, Jobs
    <3>. QED
      BY <1>0, <1>1, <1>2, <3>1, <3>3 DEF WorkInv, Stored
  <2>. QED
    BY <2>1, <2>2
<1>5. CASE Start
  <2>1. queue' \in Mac!SetToSeqs(Mac!Pending) /\ worker' = worker
    BY <1>5 DEF Start, Mac!Start
  <2>2. Mac!Pending \subseteq S /\ IsFiniteSet(Mac!Pending)
    BY FS_Subset DEF Mac!Pending, Stored, VoiceAssumption
  <2>3. queue' \in Seq(Mac!Pending)
    BY <2>1, <2>2, SeqOf
  <2>4. queue' \in Seq(S)
    BY <2>2, <2>3
  <2>. QED
    BY <1>0, <1>1, <1>2, <2>1, <2>4 DEF WorkInv, Stored
<1>6. CASE Crash
  <2>1. queue' = <<>> /\ worker' = Mac!Idle
    BY <1>6 DEF Crash, Mac!Crash
  <2>. QED
    BY <2>1 DEF WorkInv
<1>. QED
  BY <1>3, <1>4, <1>5, <1>6, WorkerCases

(* A push adds the note of the recording in work, or finds it there.       *)
LEMMA PushedIs ==
    ASSUME DiskInv, WorkInv, TextInv, NoteInv, worker # Mac!Idle, worker.pc = "push"
    PROVE  /\ Mac!Pushed \subseteq Notes /\ notebook \subseteq Mac!Pushed
           /\ \A n \in Mac!Pushed : /\ Stored(n.id) /\ n.at = metadata[n.id].at
                                    /\ n.text = recorded[n.id]
           /\ \E n \in Mac!Pushed : n.id = worker.id
<1>1. /\ worker.id \in Id /\ worker.at \in Nat
      /\ Stored(worker.id) /\ worker.at = metadata[worker.id].at
  BY DEF WorkInv, Jobs
<1>2. notes[worker.id].data = recorded[worker.id] /\ notes[worker.id].data \in Files
  BY <1>1 DEF TextInv
<1>3. PICK n : n = [id |-> worker.id, at |-> worker.at, text |-> notes[worker.id].data]
  OBVIOUS
<1>4. /\ n \in Notes /\ n.id = worker.id
      /\ Stored(n.id) /\ n.at = metadata[n.id].at /\ n.text = recorded[n.id]
  BY <1>1, <1>2, <1>3 DEF Notes
<1>5. \/ Mac!Pushed = notebook /\ \E m \in notebook : m.id = worker.id
      \/ Mac!Pushed = notebook \cup {n}
  BY <1>3 DEF Mac!Pushed
<1>. QED
  BY <1>4, <1>5 DEF NoteInv

(* Transcripts and notes say what was recorded.                            *)
LEMMA TextInvNext ==
    ASSUME PowerLoss = FALSE, AttemptInv, DiskInv, WorkInv, TextInv, Nothing \notin Data,
           [Next]_vars
    PROVE  TextInv'
<1>0. recorded' = recorded
  BY RecordedStays
<1>1. CASE Mac!Transcribe
  <2>1. worker \in Jobs /\ worker.id \in Id /\ Stored(worker.id)
    BY <1>1 DEF Mac!Transcribe, Mac!Idle, WorkInv, Jobs
  <2>2. recordings[worker.id] = recorded[worker.id] /\ recordings[worker.id] \in Files
    BY <2>1 DEF DiskInv
  <2>3. /\ notes' = notes /\ worker'.pc = "render" /\ worker'.id = worker.id
        /\ \/ transcripts[worker.id] # Nothing /\ transcripts' = transcripts
           \/ /\ transcripts[worker.id] = Nothing /\ recordings[worker.id] # Nothing
              /\ transcripts' = [transcripts EXCEPT ![worker.id] = recordings[worker.id]]
    BY <1>1, <2>1 DEF Mac!Transcribe, Jobs
  <2>. QED
    BY <1>0, <2>1, <2>2, <2>3 DEF TextInv
<1>2. CASE Mac!Render
  <2>1. worker \in Jobs /\ worker.id \in Id /\ worker.at \in Nat
    BY <1>2 DEF Mac!Render, Mac!Idle, WorkInv, Jobs
  <2>2. transcripts[worker.id] \in Files /\ transcripts[worker.id] # Nothing
    BY <1>2, <2>1 DEF Mac!Render, TextInv
  <2>3. PICK n : n = [data |-> transcripts[worker.id], at |-> worker.at]
    OBVIOUS
  <2>4. /\ n \in [data : Files, at : Nat] /\ n.data = transcripts[worker.id] /\ n # Mac!NoMeta
    BY <2>1, <2>2, <2>3 DEF Mac!NoMeta
  <2>5. /\ transcripts' = transcripts /\ worker'.pc = "push" /\ worker'.id = worker.id
        /\ notes' = IF notes[worker.id] # Mac!NoMeta THEN notes ELSE [notes EXCEPT ![worker.id] = n]
    BY <1>2, <2>1, <2>3 DEF Mac!Render, Jobs
  <2>. QED
    BY <1>0, <2>1, <2>2, <2>4, <2>5 DEF TextInv
<1>3. CASE Mac!Push
  <2>1. /\ UNCHANGED <<transcripts, notes>> /\ worker'.pc = "finish" /\ worker'.id = worker.id
        /\ worker.pc = "push"
    BY <1>3 DEF Mac!Push, WorkInv, Jobs, Mac!Idle
  <2>. QED
    BY <1>0, <2>1 DEF TextInv
<1>4. CASE Mac!Take \/ Mac!NoSpeech \/ Mac!Finish \/ Mac!ProcessingFails
  <2>1. UNCHANGED <<transcripts, notes>> /\ worker'.pc \in {"idle", "listen"}
    BY <1>4 DEF Mac!Take, Mac!NoSpeech, Mac!Finish, Mac!ProcessingFails, Mac!Idle, Mac!results
  <2>. QED
    BY <1>0, <2>1 DEF TextInv
<1>5. CASE Crash
  <2>1. worker'.pc = "idle"
    BY <1>5 DEF Crash, Mac!Crash, Mac!Idle
  <2>2. transcripts' = transcripts /\ notes' = notes
    BY <1>5, KilledOnly DEF Crash, TextInv
  <2>. QED
    BY <1>0, <2>1, <2>2 DEF TextInv
<1>6. CASE UNCHANGED <<worker, transcripts, notes>>
  BY <1>0, <1>6 DEF TextInv
<1>. QED
  BY <1>1, <1>2, <1>3, <1>4, <1>5, <1>6, WorkerCases DEF Work, Mac!Worker, Start, Mac!Start, Mac!results

(* Notes are of what is stored, and what is done has one.                  *)
LEMMA NoteInvNext ==
    ASSUME PowerLoss = FALSE, AttemptInv, ReqType, StoreInv, DiskInv, WorkInv, TextInv, NoteInv,
           Torn \notin Data, [Next]_vars
    PROVE  NoteInv'
<1>0. recorded' = recorded
  BY RecordedStays
<1>1. ASSUME NEW n \in Notes, Stored(n.id), n.at = metadata[n.id].at, n.text = recorded[n.id]
      PROVE  Stored(n.id)' /\ n.at = metadata'[n.id].at
  BY <1>1, StoredStays DEF Notes, Stored
<1>2. CASE Mac!NoSpeech
  <2>1. worker \in Jobs /\ worker.id \in Id /\ Stored(worker.id)
    BY <1>2 DEF Mac!NoSpeech, Mac!Idle, WorkInv, Jobs
  <2>2. recorded[worker.id] \in Silent
    <3>1. metadata[worker.id].data \in Data
      BY <2>1 DEF DiskInv, Stored, Meta
    <3>2. recordings[worker.id] = recorded[worker.id] /\ recordings[worker.id] # Torn
      BY <2>1, <3>1 DEF DiskInv
    <3>. QED
      BY <1>2, <3>2 DEF Mac!NoSpeech
  <2>3. notebook' = notebook /\ done' = done \cup {worker.id} /\ worker'.pc = "idle"
    BY <1>2 DEF Mac!NoSpeech, Mac!Idle
  <2>. QED
    BY <1>0, <1>1, <2>1, <2>2, <2>3 DEF NoteInv
<1>3. CASE Mac!Finish
  <2>1. worker \in Jobs /\ worker.id \in Id
    BY <1>3 DEF Mac!Finish, Mac!Idle, WorkInv, Jobs
  <2>2. \E n \in notebook : n.id = worker.id
    BY <1>3 DEF Mac!Finish, NoteInv
  <2>3. notebook' = notebook /\ done' = done \cup {worker.id} /\ worker'.pc = "idle"
    BY <1>3 DEF Mac!Finish, Mac!Idle
  <2>. QED
    BY <1>0, <1>1, <2>1, <2>2, <2>3 DEF NoteInv
<1>4. CASE Mac!Push \/ Mac!ProcessingFails \/ Crash
  <2>1. done' = done /\ notebook' \in {notebook, Mac!Pushed}
    BY <1>4, KilledOnly DEF Mac!Push, Mac!ProcessingFails, Crash, Mac!Crash
  <2>2. notebook' # notebook => worker # Mac!Idle /\ worker.pc = "push"
    BY <1>4 DEF Mac!Push, Mac!ProcessingFails, Crash, Mac!Crash, Mac!Idle
  <2>3. /\ notebook' \subseteq Notes /\ notebook \subseteq notebook'
        /\ \A n \in notebook' : Stored(n.id) /\ n.at = metadata[n.id].at /\ n.text = recorded[n.id]
    BY <2>1, <2>2, PushedIs DEF NoteInv
  <2>4. worker'.pc = "finish" => \E n \in notebook' : n.id = worker'.id
    <3>1. CASE Mac!Push
      <4>1. /\ worker # Mac!Idle /\ worker.pc = "push"
            /\ notebook' = Mac!Pushed /\ worker'.id = worker.id
        BY <3>1 DEF Mac!Push, Mac!Idle, WorkInv, Jobs
      <4>. QED
        BY <4>1, PushedIs
    <3>2. CASE Mac!ProcessingFails \/ Crash
      BY <3>2 DEF Mac!ProcessingFails, Crash, Mac!Crash, Mac!Idle
    <3>. QED
      BY <1>4, <3>1, <3>2
  <2>5. \A n \in notebook' : Stored(n.id)' /\ n.at = metadata'[n.id].at
    BY <1>1, <2>3
  <2>. QED
    BY <1>0, <2>1, <2>3, <2>4, <2>5 DEF NoteInv
<1>5. CASE Mac!Take \/ Mac!Transcribe \/ Mac!Render
  <2>1. UNCHANGED <<notebook, done>> /\ worker'.pc \in {"listen", "render", "push"}
    BY <1>5 DEF Mac!Take, Mac!Transcribe, Mac!Render, Mac!results, WorkInv, Jobs, Mac!Idle
  <2>. QED
    BY <1>0, <1>1, <2>1 DEF NoteInv
<1>6. CASE UNCHANGED <<worker, notebook, done>>
  BY <1>0, <1>1, <1>6 DEF NoteInv
<1>. QED
  BY <1>2, <1>3, <1>4, <1>5, <1>6, WorkerCases DEF Work, Mac!Worker, Start, Mac!Start, Mac!results

-----------------------------------------------------------------------------
(* Together.                                                               *)

(* In the beginning everything that was recorded is on the device.         *)
LEMMA InvInit == ASSUME VoiceAssumption, Init PROVE Inv
<1>1. /\ Device!Init /\ Mac!ReceiverInit
      /\ flash = "fat" /\ attempt = NoFile /\ recorded = files
  BY DEF Init, Mac!Init
<1>2. FilesInv
  BY <1>1 DEF Device!Init, Device!SyncInit, FilesInv, Sending
<1>3. AttemptInv
  BY <1>1 DEF AttemptInv
<1>4. ReqType
  BY <1>1 DEF Mac!ReceiverInit, ReqType
<1>5. \A r \in Request : req[r].pc = "free"
  BY <1>1 DEF Mac!ReceiverInit, Mac!Free
<1>6. StoreInv
  BY <1>5 DEF StoreInv, Storing
<1>7. \A i \in Id : ~ Stored(i)
  BY <1>1 DEF Mac!ReceiverInit, Stored
<1>8. DiskInv
  BY <1>1, <1>7 DEF Mac!ReceiverInit, DiskInv, Files
<1>9. worker = Mac!Idle /\ worker.pc = "idle" /\ queue = << >> /\ done = {} /\ notebook = {}
  BY <1>1 DEF Mac!ReceiverInit, Mac!Idle
<1>10. WorkInv
  BY <1>9 DEF WorkInv
<1>11. TextInv
  BY <1>1, <1>9 DEF Mac!ReceiverInit, TextInv, Files, Mac!NoMeta
<1>12. NoteInv
  BY <1>9 DEF NoteInv
<1>. QED
  BY <1>2, <1>3, <1>4, <1>6, <1>8, <1>10, <1>11, <1>12 DEF Inv

(* No step leaves the invariant.                                           *)
LEMMA InvNext ==
    ASSUME VoiceAssumption, LateRequests = FALSE, PowerLoss = FALSE, Inv, [Next]_vars
    PROVE  Inv'
<1>1. Nothing \notin Data /\ Torn \notin Data
  BY DEF VoiceAssumption
<1>. QED
  BY <1>1, FilesInvNext, AttemptInvNext, ReqTypeNext, StoreInvNext, DiskInvNext, WorkInvNext,
     TextInvNext, NoteInvNext DEF Inv

(* The inductive invariant.                                                *)
THEOREM Invariant ==
    ASSUME LateRequests = FALSE, PowerLoss = FALSE PROVE Spec => []Inv
<1>1. Init => Inv
  BY InvInit, VoiceAssumption
<1>2. Inv /\ [Next]_vars => Inv'
  BY InvNext, VoiceAssumption
<1>. QED
  BY <1>1, <1>2, PTL DEF Spec

(* A recording that is gone from the device is whole on the Mac and known  *)
(* there, whatever answers, connections, restarts and resets intervened.   *)
THEOREM NothingIsLost ==
    ASSUME LateRequests = FALSE, PowerLoss = FALSE PROVE Spec => []NothingLost
<1>1. Inv => NothingLost
  BY DEF Inv, DiskInv, NothingLost
<1>. QED
  BY <1>1, Invariant, PTL

(* There is at most one note of a recording, however often it was sent or  *)
(* processed, and what is done was noted as it was recorded.               *)
THEOREM NotedOnlyOnce ==
    ASSUME LateRequests = FALSE, PowerLoss = FALSE PROVE Spec => []NotedOnce
<1>1. ASSUME Inv PROVE NotedOnce
  <2>1. ASSUME NEW m \in notebook, NEW n \in notebook, m.id = n.id PROVE m = n
    <3>1. m \in Notes /\ n \in Notes
      BY <1>1 DEF Inv, NoteInv
    <3>2. m.at = n.at /\ m.text = n.text
      BY <1>1, <2>1 DEF Inv, NoteInv
    <3>. QED
      BY <2>1, <3>1, <3>2 DEF Notes
  <2>2. \A n \in notebook : n.text = recorded[n.id]
    BY <1>1 DEF Inv, NoteInv
  <2>3. \A i \in done : recorded[i] \in Silent \/ \E n \in notebook : n.id = i
    BY <1>1 DEF Inv, NoteInv
  <2>. QED
    BY <2>1, <2>2, <2>3 DEF NotedOnce
<1>. QED
  BY <1>1, Invariant, PTL

-----------------------------------------------------------------------------
(* The device among the others is the device alone: every step of the      *)
(* whole is one of WifiSync's, or leaves it as it is.  What WifiSyncProofs *)
(* proves with a receiver that answers as it likes, of the driver, the     *)
(* card, the counting and the outcome, is then so with this receiver, with *)
(* requests that outlive their successors and power losses too             *)
(* (wifi_sync_start, upload_file).                                         *)
THEOREM DeviceImplementsSync == Spec => Device!Spec
<1>1. Init => Device!Init
  BY DEF Init
<1>2. [Next]_vars => [Device!Next]_(Device!syncVars)
  <2>1. SUFFICES ASSUME [Next]_vars PROVE [Device!Next]_(Device!syncVars)
    OBVIOUS
  <2>2. CASE UNCHANGED syncTask
    BY <2>2 DEF syncTask, Device!syncVars, Device!network, Device!medium, Device!counts
  <2>3. CASE Device!SyncStart \/ Device!SyncTask \/ Device!Driver \/ Device!Boot \/ Device!Reset
    BY <2>3 DEF Device!Next
  <2>4. CASE Device!UploadFails \/ Device!UploadOk
    BY <2>4 DEF Device!Next, Device!Upload
  <2>. QED
    BY <2>1, <2>2, <2>3, <2>4, DeviceCases
<1>. QED
  BY <1>1, <1>2, PTL DEF Spec, Device!Spec
=============================================================================
