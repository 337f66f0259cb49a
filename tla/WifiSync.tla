------------------------------ MODULE WifiSync ------------------------------
(***************************************************************************)
(* The sync task of firmware/components/wifi_sync/wifi_sync.c: it brings   *)
(* the Wi-Fi driver up, joins the first known network that answers, sends  *)
(* every finished recording to the receiver and deletes what the receiver  *)
(* acknowledged.                                                           *)
(*                                                                         *)
(* The Wi-Fi driver is external.  It reports through the event group that  *)
(* wifi_event_handler fills, and a disconnect that the task asked for is   *)
(* reported some time later.  What happens to a request on its way is left *)
(* open here: UploadOk and UploadFails; VoiceSync ties them to the         *)
(* receiver.                                                               *)
(***************************************************************************)
EXTENDS StorageMount, Integers, FiniteSets

CONSTANTS Networks,         \* STICKS3_WIFI_NETWORK_COUNT
          MaxCandidates     \* MAX_SYNC_CANDIDATES

ASSUME SyncAssumption ==
    /\ NoFile \notin Data /\ NoFile \notin Id /\ IsFiniteSet(Id)
    /\ InFlash \subseteq Id
    /\ Networks \in Nat /\ MaxCandidates \in Nat \ {0}

VARIABLES sync,             \* "off" (s_sync_running is false) or where the task is
          wifi,             \* the driver: "down", "init" or "started"
          reachable,        \* networks the driver accepts and gets an address from in time
          net, link,        \* network tried, what the driver is doing about it
          bits,             \* s_wifi_event_group
          late,             \* a disconnect not yet reported
          candidates,       \* pending, what is left of it
          current,
          uploaded, failed,
          result, callbacks, \* what the done callback got in this sync, and how often
          taken, acked,     \* history: all of pending, and the acknowledged ones
          ever              \* history: a sync was started

medium == <<store, flash, mounted>>
network == <<reachable, net, link, bits, late>>
counts == <<uploaded, failed, taken, acked>>
syncVars == <<files, sync, wifi, network, medium, candidates, current, counts, result,
              callbacks, ever>>

SyncInit ==
    /\ sync = "off" /\ wifi = "down"
    /\ reachable = {} /\ net = 0 /\ link = "idle"
    /\ bits = {} /\ late = FALSE
    /\ MountInit /\ candidates = {} /\ current = NoFile
    /\ uploaded = 0 /\ failed = 0 /\ taken = {} /\ acked = {}
    /\ result = "none" /\ callbacks = 0 /\ ever = FALSE

-----------------------------------------------------------------------------
(* wifi_sync_start: refused while s_sync_running; the task may not be made *)
(* and then nothing happened.  The driver has reported all its events by   *)
(* the time somebody presses the button again.                             *)
SyncStart ==
    /\ sync = "off" /\ ~ late
    /\ sync' = "init" /\ ever' = TRUE
    /\ reachable' \in SUBSET (1 .. Networks) /\ net' = 0
    /\ uploaded' = 0 /\ failed' = 0 /\ taken' = {} /\ acked' = {}
    /\ result' = "none" /\ callbacks' = 0
    /\ UNCHANGED <<files, wifi, link, bits, late, medium, candidates, current>>

Notify(r) == result' = r /\ callbacks' = callbacks + 1

WifiUp ==
    /\ sync = "init"
    /\ \/ wifi = "down" /\ wifi' = "init" /\ UNCHANGED sync
       \/ wifi = "init" /\ wifi' = "started" /\ sync' = "next network"
    /\ UNCHANGED <<files, network, medium, candidates, current, counts, result, callbacks, ever>>

(* esp_wifi_init fails, or what follows it does and the driver goes        *)
WifiFails ==
    /\ sync = "init"
    /\ wifi' = "down"
    /\ Notify("ERROR")
    /\ sync' = "exit"
    /\ UNCHANGED <<files, network, medium, candidates, current, counts, ever>>

(* Mutant: the event bits are not cleared before an attempt.               *)
TryNetworkKeepsBits ==
    /\ sync = "next network" /\ net < Networks
    /\ net' = net + 1
    /\ link' = "trying" /\ sync' = "connecting"
    /\ UNCHANGED <<files, wifi, reachable, bits, late, medium, candidates, current, counts,
                   result, callbacks, ever>>

(* connect_to_known_network: the bits are cleared before every attempt,    *)
(* and a network the driver does not accept is passed over.                *)
TryNetwork ==
    /\ sync = "next network" /\ net < Networks
    /\ net' = net + 1 /\ bits' = {}
    /\ \/ link' = "trying" /\ sync' = "connecting"
       \/ net' \notin reachable /\ UNCHANGED <<link, sync>>
    /\ UNCHANGED <<files, wifi, reachable, late, medium, candidates, current, counts, result,
                   callbacks, ever>>

DriverAnswers ==
    /\ link = "trying"
    /\ IF net \in reachable THEN bits' = bits \cup {"connected"} /\ link' = "joined"
                            ELSE bits' = bits \cup {"fail"} /\ link' = "idle"
    /\ UNCHANGED <<files, sync, wifi, reachable, net, late, medium, candidates, current, counts,
                   result, callbacks, ever>>

LateDisconnect ==
    /\ late
    /\ late' = FALSE /\ bits' = bits \cup {"fail"}
    /\ UNCHANGED <<files, sync, wifi, reachable, net, link, medium, candidates, current, counts,
                   result, callbacks, ever>>

Connected ==
    /\ sync = "connecting" /\ "connected" \in bits
    /\ sync' = "collect" /\ bits' = {}
    /\ UNCHANGED <<files, wifi, reachable, net, link, late, medium, candidates, current, counts,
                   result, callbacks, ever>>

(* Mutant: waits for the driver with no timeout.                           *)
NotReachedNoTimeout ==
    /\ sync = "connecting" /\ "fail" \in bits /\ "connected" \notin bits
    /\ bits' = {} /\ sync' = "next network"
    /\ late' = (late \/ link = "trying") /\ link' = "idle"
    /\ UNCHANGED <<files, wifi, reachable, net, medium, candidates, current, counts, result,
                   callbacks, ever>>

(* The fail bit, or the timeout of a network that never gives an address;  *)
(* esp_wifi_disconnect is reported if there was anything to disconnect.    *)
NotReached ==
    /\ sync = "connecting" /\ "connected" \notin bits
    /\ "fail" \in bits \/ net \notin reachable
    /\ bits' = {} /\ sync' = "next network"
    /\ late' = (late \/ link = "trying") /\ link' = "idle"
    /\ UNCHANGED <<files, wifi, reachable, net, medium, candidates, current, counts, result,
                   callbacks, ever>>

NoNetwork ==
    /\ sync = "next network" /\ net = Networks
    /\ Notify("NO_NETWORK")
    /\ sync' = "stop"
    /\ UNCHANGED <<files, wifi, network, medium, candidates, current, counts, ever>>

-----------------------------------------------------------------------------
(* sync_pending_recordings                                                 *)
PendingIn(ids) == {i \in ids : files[i] # NoFile}

(* collect_sync_candidates: whatever fits, in the order of the directory,  *)
(* and nothing when the directory does not open.                           *)
Collected(pending) ==
    {{}} \cup {s \in SUBSET pending : \/ s = pending /\ Cardinality(s) <= MaxCandidates
                                     \/ Cardinality(s) = MaxCandidates}

NoMemory ==
    /\ sync = "collect"
    /\ failed' = 1 /\ sync' = "done"
    /\ UNCHANGED <<files, wifi, network, medium, candidates, current, uploaded, taken, acked,
                   result, callbacks, ever>>

(* What is pending under the base path; nothing there, with a card: what   *)
(* is pending in the flash, if it can be mounted.                          *)
Collect ==
    /\ sync = "collect"
    /\ \E found \in Collected(PendingIn(AtBase)) :
          IF found = {} /\ store = "sd"
          THEN /\ OpenBacklog
               /\ candidates' \in (IF mounted' THEN Collected(PendingIn(InFlash)) ELSE {{}})
          ELSE UNCHANGED <<files, medium>> /\ candidates' = found
    /\ taken' = candidates'
    /\ sync' = "next file"
    /\ UNCHANGED <<wifi, network, current, uploaded, failed, acked, result, callbacks, ever>>

NextFile ==
    /\ sync = "next file" /\ candidates # {}
    /\ current' \in candidates /\ candidates' = candidates \ {current'}
    /\ sync' = "lan"
    /\ UNCHANGED <<files, wifi, network, medium, counts, result, callbacks, ever>>

(* Mutant: a failure of the LAN request is not retried nor counted.        *)
UploadFailsLan ==
    /\ sync = "lan" /\ sync' = "next file" /\ current' = NoFile
    /\ UNCHANGED <<files, wifi, network, medium, candidates, counts, result, callbacks, ever>>

(* upload_file to the LAN address failed, then to the fallback address     *)
UploadFails ==
    /\ \/ sync = "lan" /\ sync' = "fallback" /\ UNCHANGED <<current, failed>>
       \/ sync = "fallback" /\ sync' = "next file" /\ failed' = failed + 1 /\ current' = NoFile
    /\ UNCHANGED <<files, wifi, network, medium, candidates, uploaded, taken, acked, result,
                   callbacks, ever>>

(* It was acknowledged: the file is removed, which may fail.               *)
UploadOk ==
    /\ sync \in {"lan", "fallback"}
    /\ sync' = "next file"
    /\ files' \in {files, [files EXCEPT ![current] = NoFile]}
    /\ uploaded' = uploaded + 1 /\ acked' = acked \cup {current} /\ current' = NoFile
    /\ UNCHANGED <<wifi, network, medium, candidates, failed, taken, result, callbacks, ever>>

AllFilesDone ==
    /\ sync = "next file" /\ candidates = {}
    /\ CloseBacklog
    /\ sync' = "done"
    /\ UNCHANGED <<files, wifi, network, candidates, current, counts, result, callbacks, ever>>

(* back in wifi_sync_task                                                  *)
SyncDone ==
    /\ sync = "done"
    /\ late' = TRUE /\ link' = "idle"
    /\ Notify(IF failed > 0 THEN "PARTIAL_FAIL" ELSE "OK")
    /\ sync' = "stop"
    /\ UNCHANGED <<files, wifi, reachable, net, bits, medium, candidates, current, counts, ever>>

WifiDown ==
    /\ sync = "stop"
    /\ wifi' = "down" /\ sync' = "exit"
    /\ UNCHANGED <<files, network, medium, candidates, current, counts, result,
                   callbacks, ever>>

SyncExit ==
    /\ sync = "exit"
    /\ sync' = "off"
    /\ UNCHANGED <<files, wifi, network, medium, candidates, current, counts, result, callbacks, ever>>

(* recording_store_init, while keys already work                           *)
Boot ==
    /\ StoreInit
    /\ UNCHANGED <<sync, wifi, network, candidates, current, counts, result, callbacks, ever>>

(* The device restarts: memory is gone, the files are not.                 *)
Reset ==
    /\ sync # "off" \/ store # "none"
    /\ sync' = "off" /\ wifi' = "down"
    /\ reachable' = {} /\ net' = 0 /\ link' = "idle" /\ bits' = {} /\ late' = FALSE
    /\ Unmounted /\ candidates' = {} /\ current' = NoFile
    /\ uploaded' = 0 /\ failed' = 0 /\ taken' = {} /\ acked' = {}
    /\ result' = "none" /\ callbacks' = 0 /\ ever' = FALSE
    /\ UNCHANGED files

Driver == DriverAnswers \/ LateDisconnect
SyncTask == \/ WifiUp \/ WifiFails \/ TryNetwork \/ Connected \/ NotReached \/ NoNetwork
            \/ NoMemory \/ Collect \/ NextFile \/ AllFilesDone
            \/ SyncDone \/ WifiDown \/ SyncExit
Upload == UploadOk \/ UploadFails

Init == /\ SyncInit
        /\ files \in [Id -> Data \cup {NoFile}]
        /\ flash = "blank" => \A i \in InFlash : files[i] = NoFile
Next == SyncStart \/ SyncTask \/ Upload \/ Driver \/ Boot \/ Reset
Spec == Init /\ [][Next]_syncVars

(* The scheduler runs the task, every wait of it has a timeout (8 s for a  *)
(* network, 20 s for a request), and the driver reports what it got.       *)
FairSpec == /\ Spec
            /\ WF_syncVars(SyncTask) /\ WF_syncVars(Upload) /\ WF_syncVars(LateDisconnect)
            /\ WF_syncVars(DriverAnswers /\ net \in reachable)

-----------------------------------------------------------------------------
SyncPoints == {"off", "init", "next network", "connecting", "collect", "next file", "lan",
               "fallback", "done", "stop", "exit"}

(* The types, and what the task holds at each point: an upload has a file, *)
(* nobody else does, and only a started driver has a network.              *)
TypeOK ==
    /\ files \in [Id -> Data \cup {NoFile}]
    /\ sync \in SyncPoints /\ wifi \in {"down", "init", "started"}
    /\ reachable \subseteq 1 .. Networks /\ net \in 0 .. Networks
    /\ link \in {"idle", "trying", "joined"}
    /\ bits \subseteq {"connected", "fail"} /\ late \in BOOLEAN
    /\ store \in {"none", "sd", "flash", "failed"} /\ flash \in {"blank", "fat", "damaged"}
    /\ mounted \in BOOLEAN
    /\ candidates \subseteq taken /\ taken \subseteq Id /\ acked \subseteq taken
    /\ uploaded \in 0 .. MaxCandidates /\ failed \in 0 .. MaxCandidates
    /\ Cardinality(taken) <= MaxCandidates
    /\ IF sync \in {"lan", "fallback"} THEN current \in taken \ (candidates \cup acked)
                                      ELSE current = NoFile
    /\ result \in {"none", "OK", "PARTIAL_FAIL", "NO_NETWORK", "ERROR"}
    /\ callbacks \in Nat /\ ever \in BOOLEAN

(* When s_sync_running is false the driver is down, so its buffers are     *)
(* free for a recording, and the flash is mounted only if recordings go    *)
(* there, whichever way the task ended (wifi_sync_init, "The whole Wi-Fi   *)
(* driver lifecycle ... only exists for the duration of an actual Sync").  *)
RadioReleased == sync = "off" => wifi = "down" /\ (mounted <=> store = "flash")

(* What is being sent lies on a medium that is mounted: the backlog is kept *)
(* until its last file, and no boot changes the medium under a sync.       *)
SentIsMounted ==
    sync \in {"lan", "fallback"} => IF current \in InFlash THEN mounted ELSE store = "sd"

(* The application is told the outcome exactly once per sync and before    *)
(* s_sync_running is cleared, and what it is told is so: OK means that     *)
(* every file taken was acknowledged, PARTIAL_FAIL that one was not, or    *)
(* that there was no memory to look.                                       *)
ResultHonest ==
    /\ sync = "off" /\ ever => callbacks = 1
    /\ result \in {"OK", "PARTIAL_FAIL"} =>
          /\ uploaded = Cardinality(acked)
          /\ uploaded + failed = Cardinality(taken) \/ (taken = {} /\ failed = 1)
          /\ (result = "OK") <=> (failed = 0)
    /\ result \in {"NO_NETWORK", "ERROR"} => taken = {} /\ uploaded + failed = 0

(* A file is deleted only when the receiver acknowledged that very file in *)
(* this sync: a failure of any kind, the next file's turn, and a partition *)
(* that does not mount leave it ("without destructive retry").             *)
OnlyAckedIsDeleted ==
    [][\A i \in Id : files'[i] # files[i] => i \in acked' /\ files'[i] = NoFile]_syncVars

(* The first network is never passed over when it is in range, whatever    *)
(* the event group still holds from an earlier sync.                       *)
FirstNetworkIsFound == result = "NO_NETWORK" => 1 \notin reachable

(* Whatever the driver and the receiver do, a sync ends: the application   *)
(* refuses recordings until it does.                                       *)
SyncEnds == sync # "off" ~> sync = "off"
=============================================================================
