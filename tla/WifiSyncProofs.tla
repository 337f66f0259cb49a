--------------------------- MODULE WifiSyncProofs ---------------------------
(***************************************************************************)
(* Invariants of WifiSync for every set of recordings and networks, on an  *)
(* SD card, in flash, or on both.                                          *)
(***************************************************************************)
EXTENDS WifiSync, FiniteSetTheorems, TLAPS

(* Where the task is, and what it knows of the network.                    *)
PlaceType ==
    /\ sync \in SyncPoints /\ wifi \in {"down", "init", "started"}
    /\ reachable \subseteq 1 .. Networks /\ net \in 0 .. Networks
    /\ link \in {"idle", "trying", "joined"} /\ bits \subseteq {"connected", "fail"}

FlagsType == {late, mounted, ever} \subseteq BOOLEAN
StoreType == store \in {"none", "sd", "flash", "failed"} /\ flash \in {"blank", "fat", "damaged"}

(* A partition is formatted only while it holds nothing.                   *)
FilesInv ==
    /\ files \in [Id -> Data \cup {NoFile}]
    /\ flash = "blank" => \A i \in InFlash : files[i] = NoFile

(* The driver and the flash are held only where the task gives them back,  *)
(* and the flash for as long as recordings go there.                       *)
HeldInv ==
    /\ sync \in {"off", "exit"} => wifi = "down"
    /\ mounted = TRUE => store = "flash" \/ (store = "sd" /\ sync \in {"next file", "lan", "fallback"})
    /\ store = "flash" => mounted = TRUE

(* What is still to be sent can be read.                                   *)
Waiting == candidates \cup ({current} \ {NoFile})
ReadInv ==
    Waiting # {} => \/ store = "sd" /\ Waiting \cap InFlash = {}
                    \/ mounted = TRUE /\ Waiting \subseteq InFlash

(* The first network in range is joined: at its turn no disconnect of an   *)
(* earlier sync is still to be reported, and the bits have been cleared.   *)
FirstInv ==
    /\ sync \in {"init", "next network"} /\ net = 0 => late = FALSE
    /\ sync = "init" => net = 0
    /\ sync = "connecting" => net # 0
    /\ 1 \in reachable /\ sync = "next network" => net = 0
    /\ 1 \in reachable /\ sync = "connecting" => net = 1 /\ late = FALSE /\ "fail" \notin bits
    /\ FirstNetworkIsFound

(* The recordings taken are still to be sent, being sent, or dealt with.   *)
Dealt == taken \ (candidates \cup {current})

ListInv ==
    /\ taken \subseteq Id /\ candidates \subseteq taken /\ Cardinality(taken) <= MaxCandidates
    /\ acked \subseteq Dealt
    /\ sync \notin {"next file", "lan", "fallback"} => candidates = {}
    /\ IF sync \in {"lan", "fallback"} THEN current \in taken \ candidates ELSE current = NoFile

(* Every one that was dealt with is counted once, unless there was no      *)
(* memory to look for any.                                                 *)
Early == {"init", "next network", "connecting", "collect"}
Working == {"next file", "lan", "fallback"}

CountInv ==
    /\ uploaded \in Nat /\ failed \in Nat /\ uploaded + failed <= MaxCandidates
    /\ uploaded = Cardinality(acked)
    /\ sync \in Early => taken = {} /\ uploaded + failed = 0
    /\ sync \in Working => uploaded + failed = Cardinality(Dealt)
    /\ sync = "done" => uploaded + failed = Cardinality(taken) \/ (taken = {} /\ failed = 1)

(* The outcome is told once, after the counting.                           *)
TellInv ==
    /\ callbacks \in Nat /\ result \in {"none", "OK", "PARTIAL_FAIL", "NO_NETWORK", "ERROR"}
    /\ sync \in Early \cup Working \cup {"done"} => result = "none" /\ callbacks = 0
    /\ sync \in {"stop", "exit"} => callbacks = 1
    /\ ResultHonest

Inv ==
    /\ PlaceType /\ FlagsType /\ StoreType /\ FilesInv /\ HeldInv /\ ReadInv
    /\ FirstInv /\ ListInv /\ CountInv /\ TellInv

-----------------------------------------------------------------------------
(* What mounting, opening and closing do to the medium, and to the files.  *)
LEMMA MountStep ==
    ASSUME SyncAssumption, StoreType, FilesInv, mounted \in BOOLEAN, NEW allow \in BOOLEAN,
           MountFlash(allow)
    PROVE  /\ flash' \in {"blank", "fat", "damaged"} /\ mounted' \in BOOLEAN
           /\ files' = files /\ FilesInv'
<1>1. TRUE \in MayFormat(allow) => flash = "blank"
  BY Zenon DEF MayFormat
<1>2. Formatted /\ flash = "blank" => files' = files
  <2>1. SUFFICES ASSUME Formatted, flash = "blank" PROVE files' = files
    OBVIOUS
  <2>2. files' = [i \in Id |-> IF i \in InFlash THEN NoFile ELSE files[i]]
    BY <2>1 DEF Formatted
  <2>3. \A i \in Id : (IF i \in InFlash THEN NoFile ELSE files[i]) = files[i]
    BY <2>1 DEF FilesInv
  <2>4. files = [i \in Id |-> files[i]]
    BY DEF FilesInv
  <2>. QED
    BY <2>2, <2>3, <2>4
<1>3. files' = files
  BY <1>1, <1>2 DEF MountFlash
<1>4. flash' \in {flash, "fat", "damaged"} /\ mounted' \in BOOLEAN
  BY DEF MountFlash
<1>5. flash' \in {"blank", "fat", "damaged"} /\ (flash' = "blank" => flash = "blank")
  BY <1>4 DEF StoreType
<1>. QED
  BY <1>3, <1>4, <1>5 DEF FilesInv

(* The medium after any step: who may change it, and how.                  *)
LEMMA MediumNext ==
    ASSUME SyncAssumption, FlagsType, StoreType, FilesInv, Next
    PROVE  /\ StoreType' /\ mounted' \in BOOLEAN
           /\ files' = files => FilesInv'
           /\ files' # files => UploadOk
<1>0. mounted \in BOOLEAN
  BY DEF FlagsType
<1>. USE DEF network, medium, counts
<1>1. CASE Boot
  <2>1. store' \in {"sd", "flash", "failed"}
    BY <1>1 DEF Boot, StoreInit, MountSd
  <2>2. CASE MountSd
    BY <1>0, <2>1, <2>2 DEF MountSd, StoreType, FilesInv
  <2>3. CASE MountFlash(TRUE)
    BY <1>0, <2>1, <2>3, MountStep DEF StoreType
  <2>. QED
    BY <1>1, <2>2, <2>3 DEF Boot, StoreInit
<1>2. CASE Collect
  <2>1. CASE OpenBacklog
    <3>1. store' = store
      BY <2>1 DEF OpenBacklog
    <3>2. CASE UNCHANGED <<files, flash, mounted>>
      BY <1>0, <3>1, <3>2 DEF StoreType, FilesInv
    <3>3. CASE MountFlash(FALSE)
      BY <1>0, <3>1, <3>3, MountStep DEF StoreType
    <3>. QED
      BY <2>1, <3>2, <3>3 DEF OpenBacklog
  <2>2. CASE UNCHANGED <<files, medium>>
    BY <1>0, <2>2 DEF StoreType, FilesInv
  <2>. QED
    BY <1>2, <2>1, <2>2 DEF Collect
<1>3. CASE AllFilesDone \/ Reset
  BY <1>0, <1>3 DEF AllFilesDone, CloseBacklog, Reset, Unmounted, StoreType, FilesInv
<1>4. CASE UploadOk
  BY <1>0, <1>4 DEF UploadOk, StoreType, FilesInv
<1>5. CASE SyncStart \/ UploadFails \/ Driver \/ (SyncTask /\ ~Collect /\ ~AllFilesDone)
  <2>1. UNCHANGED <<files, medium>>
    BY <1>5 DEF SyncStart, UploadFails, Driver, DriverAnswers, LateDisconnect, SyncTask, WifiUp,
                WifiFails, TryNetwork, Connected, NotReached, NoNetwork, NoMemory, NextFile,
                SyncDone, WifiDown, SyncExit
  <2>. QED
    BY <1>0, <2>1 DEF StoreType, FilesInv
<1>. QED
  BY <1>1, <1>2, <1>3, <1>4, <1>5 DEF Next, Upload, SyncTask

(* The flags keep their types.                                             *)
LEMMA FlagsNext == ASSUME SyncAssumption, FlagsType, StoreType, FilesInv, Next PROVE FlagsType'
<1>. USE DEF FlagsType, network, medium, counts
<1>0. mounted' \in BOOLEAN
  BY MediumNext
<1>1. CASE SyncStart \/ Reset \/ Boot
  BY <1>0, <1>1 DEF SyncStart, Reset, Boot
<1>2. CASE SyncTask
  BY <1>0, <1>2 DEF SyncTask, WifiUp, WifiFails, TryNetwork, Connected, NotReached, NoNetwork,
                    NoMemory, Collect, NextFile, AllFilesDone, SyncDone, WifiDown, SyncExit
<1>3. CASE Upload \/ Driver
  BY <1>0, <1>3 DEF Upload, UploadOk, UploadFails, Driver, DriverAnswers, LateDisconnect
<1>. QED
  BY <1>1, <1>2, <1>3 DEF Next

(* Position, driver and networks keep their types.                         *)
LEMMA PlaceNext == ASSUME SyncAssumption, PlaceType, Next PROVE PlaceType'
<1>0. Networks \in Nat /\ 0 \in 0 .. Networks
  BY DEF SyncAssumption
<1>. USE DEF PlaceType, SyncPoints, network, medium, counts
<1>1. CASE SyncStart
  BY <1>0, <1>1 DEF SyncStart
<1>2. CASE WifiUp \/ WifiFails \/ Connected \/ NotReached \/ NoNetwork
  BY <1>2 DEF WifiUp, WifiFails, Connected, NotReached, NoNetwork
<1>3. CASE TryNetwork
  <2>1. net' \in 0 .. Networks
    <3>1. net' = net + 1 /\ net < Networks /\ net \in 0 .. Networks
      BY <1>3 DEF TryNetwork
    <3>. QED
      BY ONLY <1>0, <3>1
  <2>2. UNCHANGED <<wifi, reachable>> /\ bits' = {}
    BY <1>3 DEF TryNetwork
  <2>3. sync' \in {sync, "connecting"} /\ link' \in {link, "trying"}
    BY <1>3 DEF TryNetwork
  <2>. QED
    BY <2>1, <2>2, <2>3
<1>4. CASE NoMemory \/ Collect \/ NextFile \/ AllFilesDone \/ SyncDone \/ WifiDown \/ SyncExit
  BY <1>4 DEF NoMemory, Collect, NextFile, AllFilesDone, SyncDone, WifiDown, SyncExit
<1>5. CASE Upload
  BY <1>5 DEF Upload, UploadOk, UploadFails
<1>6. CASE Driver
  BY <1>6 DEF Driver, DriverAnswers, LateDisconnect
<1>7. CASE Reset \/ Boot
  BY <1>0, <1>7 DEF Reset, Boot
<1>. QED
  BY <1>1, <1>2, <1>3, <1>4, <1>5, <1>6, <1>7 DEF Next, SyncTask

(* Every step keeps HeldInv.                                               *)
LEMMA HeldNext ==
    ASSUME SyncAssumption, FlagsType, StoreType, FilesInv, HeldInv, Next
    PROVE  HeldInv'
<1>0. {mounted, mounted'} \subseteq BOOLEAN
  BY MediumNext DEF FlagsType
<1>. USE DEF HeldInv, network, medium, counts
<1>1. CASE Collect
  <2>1. sync' = "next file" /\ wifi' = wifi
    BY <1>1 DEF Collect
  <2>2. CASE store = "sd"
    <3>1. store' = "sd"
      BY <1>1, <2>2 DEF Collect, OpenBacklog
    <3>. QED
      BY <2>1, <3>1
  <2>3. CASE store # "sd"
    <3>1. UNCHANGED <<store, mounted>>
      BY <1>1, <2>3 DEF Collect
    <3>. QED
      BY <1>0, <2>1, <2>3, <3>1
  <2>. QED
    BY <2>2, <2>3
<1>2. CASE AllFilesDone
  <2>1. sync' = "done" /\ UNCHANGED <<store, wifi>> /\ (mounted' = (mounted /\ store # "sd"))
    BY <1>2 DEF AllFilesDone, CloseBacklog
  <2>2. store = "sd" => mounted' = FALSE
    BY <1>0, <2>1
  <2>3. store # "sd" => mounted' = mounted
    BY <1>0, <2>1
  <2>. QED
    BY <2>1, <2>2, <2>3
<1>3. CASE SyncTask /\ ~Collect /\ ~AllFilesDone
  BY <1>3 DEF SyncTask, WifiUp, WifiFails, TryNetwork, Connected, NotReached, NoNetwork, NoMemory,
              NextFile, SyncDone, WifiDown, SyncExit
<1>4. CASE SyncStart \/ Upload \/ Driver
  BY <1>4 DEF SyncStart, Upload, UploadOk, UploadFails, Driver, DriverAnswers, LateDisconnect
<1>5. CASE Boot
  <2>1. store = "none" /\ UNCHANGED <<sync, wifi>> /\ mounted = FALSE
    BY <1>0, <1>5 DEF Boot, StoreInit
  <2>2. \/ store' = "sd" /\ mounted' = FALSE
        \/ store' = "flash" /\ mounted' = TRUE
        \/ store' = "failed" /\ mounted' = FALSE
    BY <1>0, <1>5, <2>1 DEF Boot, StoreInit, MountSd
  <2>. QED
    BY <2>1, <2>2
<1>6. CASE Reset
  BY <1>6 DEF Reset, Unmounted
<1>. QED
  BY <1>1, <1>2, <1>3, <1>4, <1>5, <1>6 DEF Next

(* Every step keeps ReadInv.                                               *)
LEMMA ReadNext ==
    ASSUME SyncAssumption, FlagsType, StoreType, FilesInv, HeldInv, ListInv, ReadInv, Next
    PROVE  ReadInv'
<1>0. {mounted, mounted'} \subseteq BOOLEAN
  BY MediumNext DEF FlagsType
<1>. USE DEF network, medium, counts
<1>1. CASE Collect
  <2>1. current = NoFile /\ Waiting' = candidates'
    BY <1>1 DEF Collect, ListInv, Waiting
  <2>2. ASSUME NEW ids, NEW s \in Collected(PendingIn(ids)) PROVE s \subseteq ids
    BY <2>2 DEF Collected, PendingIn
  <2>3. CASE store = "sd"
    <3>1. store' = "sd" /\ AtBase = Id \ InFlash
      BY <1>1, <2>3 DEF Collect, OpenBacklog, AtBase
    <3>2. \/ candidates' \subseteq Id \ InFlash
          \/ mounted' = TRUE /\ candidates' \subseteq InFlash
          \/ candidates' = {}
      BY <1>0, <1>1, <2>2, <3>1 DEF Collect
    <3>. QED
      BY <2>1, <3>1, <3>2 DEF ReadInv
  <2>4. CASE store = "flash"
    <3>1. AtBase = InFlash
      BY <2>4 DEF AtBase
    <3>2. UNCHANGED medium /\ candidates' \subseteq InFlash
      BY <1>1, <2>2, <2>4, <3>1 DEF Collect
    <3>. QED
      BY <2>1, <2>4, <3>2 DEF ReadInv, HeldInv
  <2>5. CASE store \notin {"sd", "flash"}
    <3>1. AtBase = {}
      BY <2>5 DEF AtBase
    <3>2. candidates' = {}
      BY <1>1, <2>2, <2>5, <3>1 DEF Collect
    <3>. QED
      BY <2>1, <3>2 DEF ReadInv
  <2>. QED
    BY <2>3, <2>4, <2>5
<1>2. CASE NextFile
  BY <1>2 DEF NextFile, ListInv, ReadInv, Waiting
<1>3. CASE Upload
  BY <1>3 DEF Upload, UploadOk, UploadFails, ReadInv, Waiting
<1>4. CASE AllFilesDone
  BY <1>4 DEF AllFilesDone, ListInv, ReadInv, Waiting
<1>5. CASE SyncTask /\ ~Collect /\ ~NextFile /\ ~AllFilesDone
  BY <1>5 DEF SyncTask, WifiUp, WifiFails, TryNetwork, Connected, NotReached, NoNetwork, NoMemory,
              SyncDone, WifiDown, SyncExit, ReadInv, Waiting
<1>6. CASE SyncStart \/ Driver
  BY <1>6 DEF SyncStart, Driver, DriverAnswers, LateDisconnect, ReadInv, Waiting
<1>7. CASE Boot
  <2>1. store = "none" /\ UNCHANGED <<candidates, current>>
    BY <1>7 DEF Boot, StoreInit
  <2>2. mounted # TRUE
    BY <2>1 DEF HeldInv
  <2>3. Waiting = {}
    BY <2>1, <2>2 DEF ReadInv
  <2>. QED
    BY <2>1, <2>3 DEF ReadInv, Waiting
<1>8. CASE Reset
  BY <1>8 DEF Reset, ReadInv, Waiting
<1>. QED
  BY <1>1, <1>2, <1>3, <1>4, <1>5, <1>6, <1>7, <1>8 DEF Next

(* Every step keeps FirstInv.                                              *)
LEMMA FirstNext == ASSUME SyncAssumption, PlaceType, FirstInv, Next PROVE FirstInv'
<1>1. Networks \in Nat /\ net \in Nat /\ (1 \in reachable => Networks # 0)
  BY DEF SyncAssumption, PlaceType
<1>. USE DEF FirstNetworkIsFound, network, medium, counts
<1>2. CASE SyncStart
  BY <1>1, <1>2 DEF SyncStart, FirstInv
<1>3. CASE TryNetwork
  <2>1. net' = net + 1
    BY <1>3 DEF TryNetwork
  <2>2. sync = "next network" /\ UNCHANGED <<late, reachable, result>> /\ "fail" \notin bits'
    BY <1>3 DEF TryNetwork
  <2>3. net' # 0 /\ (net = 0 => net' = 1)
    BY <1>1, <2>1
  <2>4. sync' = "connecting" \/ (sync' = "next network" /\ net' \notin reachable)
    BY <1>3, <2>2 DEF TryNetwork
  <2>5. CASE 1 \in reachable
    <3>1. net' = 1 /\ sync' = "connecting" /\ late = FALSE
      BY <2>2, <2>3, <2>4, <2>5 DEF FirstInv
    <3>2. result' # "NO_NETWORK"
      BY <2>2, <2>5 DEF FirstInv
    <3>3. net' # 0 /\ late' = FALSE
      BY <2>2, <2>3, <3>1
    <3>. QED
      BY <2>2, <3>1, <3>2, <3>3, Zenon DEF FirstInv
  <2>6. CASE 1 \notin reachable
    BY <2>2, <2>3, <2>4, <2>6 DEF FirstInv
  <2>. QED
    BY <2>5, <2>6
<1>4. CASE WifiUp \/ WifiFails \/ Connected
  BY <1>4 DEF WifiUp, WifiFails, Connected, Notify, FirstInv
<1>5. CASE NotReached
  BY <1>5 DEF NotReached, FirstInv
<1>6. CASE NoNetwork
  BY <1>1, <1>6 DEF NoNetwork, Notify, FirstInv
<1>7. CASE NoMemory \/ Collect \/ NextFile \/ AllFilesDone \/ SyncDone \/ WifiDown \/ SyncExit
  BY <1>7 DEF NoMemory, Collect, NextFile, AllFilesDone, SyncDone, WifiDown, SyncExit, Notify, FirstInv
<1>8. CASE Upload
  BY <1>8 DEF Upload, UploadOk, UploadFails, FirstInv
<1>9. CASE DriverAnswers
  <2>1. UNCHANGED <<sync, net, reachable, late, result>>
    BY <1>9 DEF DriverAnswers
  <2>2. "fail" \in bits' => "fail" \in bits \/ net \notin reachable
    BY <1>9 DEF DriverAnswers
  <2>. QED
    BY <2>1, <2>2 DEF FirstInv
<1>10. CASE LateDisconnect
  BY <1>10 DEF LateDisconnect, FirstInv
<1>11. CASE Reset \/ Boot
  BY <1>11 DEF Reset, Boot, FirstInv
<1>. QED
  BY <1>2, <1>3, <1>4, <1>5, <1>6, <1>7, <1>8, <1>9, <1>10, <1>11 DEF Next, SyncTask, Driver

-----------------------------------------------------------------------------
(* The files.                                                              *)
LEMMA FilesNext ==
    ASSUME SyncAssumption, FlagsType, StoreType, FilesInv, Next
    PROVE  /\ FilesInv'
           /\ \A i \in Id : files'[i] # files[i] => i \in acked' /\ files'[i] = NoFile
<1>1. CASE UploadOk
  <2>1. acked' = acked \cup {current} /\ files' \in {files, [files EXCEPT ![current] = NoFile]}
    BY <1>1 DEF UploadOk
  <2>2. flash' = flash
    BY <1>1 DEF UploadOk, medium
  <2>. QED
    BY <2>1, <2>2, SyncAssumption DEF FilesInv, SyncAssumption
<1>2. CASE ~UploadOk
  BY <1>2, MediumNext
<1>. QED
  BY <1>1, <1>2

-----------------------------------------------------------------------------
(* The list and the counters.                                              *)
LEMMA Finite ==
    ASSUME SyncAssumption, ListInv
    PROVE  /\ IsFiniteSet(taken) /\ IsFiniteSet(Dealt) /\ IsFiniteSet(acked)
           /\ Cardinality(taken) \in Nat /\ Cardinality(Dealt) \in Nat /\ Cardinality(acked) \in Nat
           /\ Cardinality(Dealt) <= Cardinality(taken)
<1>1. IsFiniteSet(Id) /\ taken \in SUBSET Id
  BY DEF SyncAssumption, ListInv
<1>2. IsFiniteSet(taken)
  BY <1>1, FS_Subset
<1>3. Dealt \in SUBSET taken /\ acked \in SUBSET taken
  BY DEF ListInv, Dealt
<1>. QED
  BY <1>2, <1>3, FS_Subset, FS_CardinalityType

(* What is collected is no more than a sync can take.                      *)
LEMMA CollectedFits ==
    ASSUME SyncAssumption, NEW p \in SUBSET Id, NEW s \in Collected(p)
    PROVE  s \subseteq Id /\ Cardinality(s) <= MaxCandidates
<1>1. Cardinality({}) = 0 /\ MaxCandidates \in Nat
  BY FS_EmptySet DEF SyncAssumption
<1>. QED
  BY <1>1 DEF Collected

(* Every step keeps ListInv.                                               *)
LEMMA ListNext ==
    ASSUME SyncAssumption, ListInv, CountInv, Next
    PROVE  ListInv'
<1>0. NoFile \notin Id /\ MaxCandidates \in Nat /\ Cardinality({}) = 0
  BY FS_EmptySet DEF SyncAssumption
<1>. USE DEF ListInv, Dealt, network, medium, counts
<1>1. CASE SyncStart \/ Reset
  <2>1. taken' = {} /\ candidates' = {} /\ acked' = {} /\ current' = NoFile
    BY <1>1 DEF SyncStart, Reset
  <2>2. sync' \in {"init", "off"}
    BY <1>1 DEF SyncStart, Reset
  <2>3. Dealt' = {} /\ Cardinality(taken') <= MaxCandidates
    <3>1. Cardinality(taken') = 0
      BY <1>0, <2>1, Zenon
    <3>2. Cardinality(taken') <= MaxCandidates
      BY ONLY <1>0, <3>1
    <3>. QED
      BY <2>1, <3>2, Zenon
  <2>. QED
    BY <2>1, <2>2, <2>3
<1>2. CASE Collect
  <2>1. candidates' \subseteq Id /\ Cardinality(candidates') <= MaxCandidates
    <3>1. PendingIn(InFlash) \in SUBSET Id /\ PendingIn(AtBase) \in SUBSET Id
      BY DEF PendingIn, AtBase, SyncAssumption
    <3>2. {} \in Collected(PendingIn(InFlash))
      BY DEF Collected
    <3>3. candidates' \in Collected(PendingIn(InFlash)) \/ candidates' \in Collected(PendingIn(AtBase))
      BY <1>2, <3>2 DEF Collect
    <3>. QED
      BY <3>1, <3>3, CollectedFits
  <2>2. acked = {} /\ acked' = {} /\ taken' = candidates' /\ current' = NoFile /\ sync' = "next file"
    BY <1>2 DEF Collect, CountInv, Early
  <2>. QED
    BY <2>1, <2>2
<1>3. CASE NextFile
  BY <1>0, <1>3 DEF NextFile
<1>4. CASE UploadOk
  BY <1>0, <1>4 DEF UploadOk
<1>5. CASE UploadFails
  BY <1>0, <1>5 DEF UploadFails
<1>6. CASE Driver \/ Boot
  BY <1>6 DEF Driver, DriverAnswers, LateDisconnect, Boot
<1>7. CASE SyncTask /\ ~Collect /\ ~NextFile
  BY <1>7 DEF SyncTask, WifiUp, WifiFails, TryNetwork, Connected, NotReached, NoNetwork, NoMemory,
              AllFilesDone, SyncDone, WifiDown, SyncExit
<1>. QED
  BY <1>1, <1>2, <1>3, <1>4, <1>5, <1>6, <1>7 DEF Next, Upload, SyncTask

(* Every step keeps CountInv.                                              *)
LEMMA CountNext ==
    ASSUME SyncAssumption, ListInv, CountInv, Next
    PROVE  CountInv'
<1>0. MaxCandidates \in Nat \ {0} /\ NoFile \notin Id /\ Cardinality({}) = 0
  BY FS_EmptySet DEF SyncAssumption
<1>1. ListInv'
  BY ListNext
<1>2. /\ Cardinality(taken) <= MaxCandidates /\ Cardinality(Dealt) <= Cardinality(taken)
      /\ Cardinality(taken) \in Nat /\ Cardinality(Dealt) \in Nat
  BY Finite DEF ListInv
<1>3. uploaded \in Nat /\ failed \in Nat
  BY DEF CountInv
<1>. USE DEF network, medium, counts
<1>4. CASE SyncStart \/ Reset
  <2>1. uploaded' = 0 /\ failed' = 0
    BY <1>4 DEF SyncStart, Reset
  <2>2. taken' = {} /\ acked' = {} /\ sync' \in {"init", "off"}
    BY <1>4 DEF SyncStart, Reset
  <2>3. Cardinality(acked') = 0
    BY <1>0, <2>2, Zenon
  <2>4. uploaded' + failed' <= MaxCandidates /\ uploaded' + failed' = 0
    BY ONLY <1>0, <2>1
  <2>. QED
    BY <2>1, <2>2, <2>3, <2>4 DEF CountInv, Early, Working
<1>5. CASE Collect
  <2>1. uploaded' = uploaded /\ failed' = failed /\ uploaded + failed = 0 /\ acked' = acked
    BY <1>5 DEF Collect, CountInv, Early
  <2>2. taken' = candidates' /\ sync' = "next file"
    BY <1>5 DEF Collect
  <2>3. Cardinality(Dealt') = 0
    <3>1. Dealt' = {}
      BY <2>2 DEF Dealt
    <3>. QED
      BY <1>0, <3>1, Zenon
  <2>. QED
    BY <1>0, <2>1, <2>2, <2>3 DEF CountInv, Early, Working
<1>6. CASE NextFile
  <2>1. Dealt' = Dealt
    BY <1>0, <1>6 DEF NextFile, ListInv, Dealt
  <2>2. UNCHANGED <<uploaded, failed, acked, taken>> /\ sync' = "lan" /\ sync = "next file"
    BY <1>6 DEF NextFile
  <2>. QED
    BY <2>1, <2>2 DEF CountInv, Early, Working
<1>7. ASSUME UploadOk \/ (UploadFails /\ sync = "fallback")
      PROVE  Cardinality(Dealt') = Cardinality(Dealt) + 1 /\ Cardinality(Dealt') <= MaxCandidates
  <2>1. Dealt' = Dealt \cup {current} /\ current \notin Dealt
    BY <1>0, <1>7 DEF UploadOk, UploadFails, ListInv, Dealt
  <2>2. Cardinality(Dealt') = Cardinality(Dealt) + 1
    BY <2>1, Finite, FS_AddElement
  <2>3. Dealt' \in SUBSET taken
    BY <1>7, <2>1 DEF UploadOk, UploadFails, ListInv, Dealt
  <2>4. Cardinality(Dealt') <= Cardinality(taken)
    BY <2>3, Finite, FS_Subset
  <2>. QED
    BY ONLY <1>0, <1>2, <2>2, <2>4
<1>8. CASE UploadOk
  <2>1. uploaded' = uploaded + 1 /\ failed' = failed
    BY <1>8 DEF UploadOk
  <2>2. acked' = acked \cup {current} /\ sync' = "next file" /\ sync \in {"lan", "fallback"}
    BY <1>8 DEF UploadOk
  <2>3. Cardinality(acked') = Cardinality(acked) + 1
    <3>1. current \notin acked
      BY <2>2 DEF ListInv, Dealt
    <3>. QED
      BY <2>2, <3>1, Finite, FS_AddElement
  <2>4. uploaded = Cardinality(acked) /\ uploaded + failed = Cardinality(Dealt)
    BY <2>2 DEF CountInv, Working
  <2>5. /\ uploaded' \in Nat /\ failed' \in Nat /\ uploaded' = Cardinality(acked')
        /\ uploaded' + failed' = Cardinality(Dealt') /\ uploaded' + failed' <= MaxCandidates
    <3>1. Cardinality(Dealt') = Cardinality(Dealt) + 1 /\ Cardinality(Dealt') <= MaxCandidates
      BY <1>7, <1>8
    <3>. QED
      BY ONLY <1>2, <1>3, <2>1, <2>3, <2>4, <3>1
  <2>. QED
    BY <2>2, <2>5 DEF CountInv, Early, Working
<1>9. CASE UploadFails /\ sync = "fallback"
  <2>1. uploaded' = uploaded /\ failed' = failed + 1
    BY <1>9 DEF UploadFails
  <2>2. acked' = acked /\ sync' = "next file"
    BY <1>9 DEF UploadFails
  <2>3. uploaded = Cardinality(acked) /\ uploaded + failed = Cardinality(Dealt)
    BY <1>9 DEF CountInv, Working
  <2>4. /\ uploaded' \in Nat /\ failed' \in Nat /\ uploaded' = Cardinality(acked)
        /\ uploaded' + failed' = Cardinality(Dealt') /\ uploaded' + failed' <= MaxCandidates
    <3>1. Cardinality(Dealt') = Cardinality(Dealt) + 1 /\ Cardinality(Dealt') <= MaxCandidates
      BY <1>7, <1>9
    <3>. QED
      BY ONLY <1>2, <1>3, <2>1, <2>3, <3>1
  <2>. QED
    BY <2>2, <2>4 DEF CountInv, Early, Working
<1>10. CASE UploadFails /\ sync = "lan"
  <2>1. Dealt' = Dealt
    BY <1>10 DEF UploadFails, Dealt
  <2>2. UNCHANGED <<uploaded, failed, acked, taken>> /\ sync' = "fallback"
    BY <1>10 DEF UploadFails
  <2>. QED
    BY <1>10, <2>1, <2>2 DEF CountInv, Early, Working
<1>11. CASE NoMemory
  <2>1. sync = "collect" /\ sync' = "done" /\ UNCHANGED <<uploaded, taken, acked>>
    BY <1>11 DEF NoMemory
  <2>2. failed' = 1
    BY <1>11 DEF NoMemory
  <2>3. taken = {} /\ uploaded + failed = 0
    BY <2>1 DEF CountInv, Early
  <2>4. uploaded + failed' <= MaxCandidates /\ failed' \in Nat
    BY ONLY <1>0, <1>3, <2>2, <2>3
  <2>. QED
    BY <2>1, <2>2, <2>3, <2>4 DEF CountInv, Early, Working
<1>12. CASE AllFilesDone
  <2>1. Dealt = taken
    BY <1>0, <1>12 DEF AllFilesDone, ListInv, Dealt
  <2>2. UNCHANGED <<uploaded, failed, acked, taken>> /\ sync = "next file" /\ sync' = "done"
    BY <1>12 DEF AllFilesDone
  <2>. QED
    BY <2>1, <2>2 DEF CountInv, Early, Working
<1>13. CASE WifiUp \/ WifiFails \/ TryNetwork \/ Connected \/ NotReached \/ NoNetwork
            \/ SyncDone \/ WifiDown \/ SyncExit
  <2>1. UNCHANGED <<uploaded, failed, acked, taken>>
    BY <1>13 DEF WifiUp, WifiFails, TryNetwork, Connected, NotReached, NoNetwork, SyncDone, WifiDown,
                 SyncExit
  <2>2. sync' \notin Working \cup {"done"} /\ (sync' \in Early => sync \in Early)
    BY <1>13 DEF WifiUp, WifiFails, TryNetwork, Connected, NotReached, NoNetwork, SyncDone, WifiDown,
                 SyncExit, Early, Working
  <2>. QED
    BY <2>1, <2>2 DEF CountInv
<1>14. CASE Driver \/ Boot
  <2>1. UNCHANGED <<sync, uploaded, failed, acked, taken, candidates, current>>
    BY <1>14 DEF Driver, DriverAnswers, LateDisconnect, Boot
  <2>2. Dealt' = Dealt
    BY <2>1 DEF Dealt
  <2>. QED
    BY <2>1, <2>2 DEF CountInv
<1>. QED
  BY <1>4, <1>5, <1>6, <1>8, <1>9, <1>10, <1>11, <1>12, <1>13, <1>14
     DEF Next, SyncTask, Upload, UploadFails

-----------------------------------------------------------------------------
(* What the application is told.                                           *)
LEMMA TellNext ==
    ASSUME SyncAssumption, CountInv, TellInv, Next
    PROVE  TellInv'
<1>. USE DEF network, medium, counts
<1>0. callbacks \in Nat /\ uploaded \in Nat /\ failed \in Nat
  BY DEF TellInv, CountInv
<1>1. ASSUME sync \in Early, sync' \in {"stop", "exit"}, Notify("ERROR") \/ Notify("NO_NETWORK"),
             UNCHANGED <<uploaded, failed, taken>>
      PROVE  TellInv'
  <2>1. callbacks = 0 /\ callbacks' = callbacks + 1
    BY <1>1 DEF TellInv, Notify
  <2>2. callbacks' = 1 /\ callbacks' \in Nat
    BY ONLY <2>1
  <2>3. taken = {} /\ uploaded + failed = 0 /\ result' \in {"ERROR", "NO_NETWORK"}
    BY <1>1 DEF CountInv, Notify
  <2>. QED
    BY <1>1, <2>2, <2>3 DEF TellInv, ResultHonest, Early, Working
<1>2. CASE WifiFails \/ NoNetwork
  BY <1>1, <1>2 DEF WifiFails, NoNetwork, Early
<1>3. CASE SyncDone
  <2>1. sync = "done" /\ sync' = "stop" /\ UNCHANGED <<uploaded, failed, taken, acked>>
    BY <1>3 DEF SyncDone
  <2>2. callbacks = 0 /\ callbacks' = callbacks + 1
    BY <1>3, <2>1 DEF SyncDone, Notify, TellInv
  <2>3. callbacks' = 1 /\ callbacks' \in Nat
    BY ONLY <2>2
  <2>4. result' = IF failed > 0 THEN "PARTIAL_FAIL" ELSE "OK"
    BY <1>3 DEF SyncDone, Notify
  <2>5. result' \in {"OK", "PARTIAL_FAIL"} /\ (result' = "OK" <=> failed = 0)
    BY <1>0, <2>4
  <2>6. uploaded = Cardinality(acked)
        /\ (uploaded + failed = Cardinality(taken) \/ (taken = {} /\ failed = 1))
    BY <2>1 DEF CountInv
  <2>. QED
    BY <2>1, <2>3, <2>5, <2>6 DEF TellInv, ResultHonest, Early, Working
<1>4. CASE SyncStart \/ Reset
  <2>1. callbacks' = 0 /\ result' = "none"
    BY <1>4 DEF SyncStart, Reset
  <2>2. sync' = "init" \/ (sync' = "off" /\ ever' = FALSE)
    BY <1>4 DEF SyncStart, Reset
  <2>. QED
    BY <2>1, <2>2 DEF TellInv, ResultHonest
<1>5. ASSUME UNCHANGED <<result, callbacks>>,
             sync \in Early \cup Working, sync' \in Early \cup Working \cup {"done"}
      PROVE  TellInv'
  <2>1. result' = "none" /\ callbacks' = 0 /\ callbacks' \in Nat
    BY <1>5 DEF TellInv
  <2>. QED
    BY <1>5, <2>1 DEF TellInv, ResultHonest, Early, Working
<1>6. CASE WifiUp \/ TryNetwork \/ Connected \/ NotReached \/ NoMemory \/ Collect \/ NextFile
           \/ AllFilesDone \/ Upload
  <2>1. UNCHANGED <<result, callbacks>>
    BY <1>6 DEF WifiUp, TryNetwork, Connected, NotReached, NoMemory, Collect, NextFile, AllFilesDone,
                Upload, UploadOk, UploadFails
  <2>2. sync \in Early \cup Working /\ sync' \in Early \cup Working \cup {"done"}
    BY <1>6 DEF WifiUp, TryNetwork, Connected, NotReached, NoMemory, Collect, NextFile, AllFilesDone,
                Upload, UploadOk, UploadFails, Early, Working
  <2>. QED
    BY <1>5, <2>1, <2>2
<1>7. CASE WifiDown \/ SyncExit
  <2>1. UNCHANGED <<result, callbacks, uploaded, failed, taken, acked>>
    BY <1>7 DEF WifiDown, SyncExit
  <2>2. sync \in {"stop", "exit"} /\ sync' \in {"exit", "off"}
    BY <1>7 DEF WifiDown, SyncExit
  <2>3. callbacks = 1
    BY <2>2 DEF TellInv
  <2>. QED
    BY <2>1, <2>2, <2>3 DEF TellInv, ResultHonest, Early, Working
<1>8. CASE Driver \/ Boot
  <2>1. UNCHANGED <<sync, result, callbacks, uploaded, failed, taken, acked, ever>>
    BY <1>8 DEF Driver, DriverAnswers, LateDisconnect, Boot
  <2>. QED
    BY <2>1 DEF TellInv, ResultHonest
<1>. QED
  BY <1>2, <1>3, <1>4, <1>6, <1>7, <1>8 DEF Next, SyncTask

-----------------------------------------------------------------------------
(* The invariant, and the theorems.                                        *)
LEMMA InitInv == ASSUME SyncAssumption, Init PROVE Inv
<1>1. Networks \in Nat /\ MaxCandidates \in Nat \ {0} /\ Cardinality({}) = 0
  BY FS_EmptySet DEF SyncAssumption
<1>2. PlaceType
  BY <1>1 DEF Init, SyncInit, PlaceType, SyncPoints
<1>3. FlagsType /\ StoreType /\ FilesInv /\ HeldInv /\ ReadInv
  BY DEF Init, SyncInit, MountInit, FlagsType, StoreType, FilesInv, HeldInv, ReadInv, Waiting
<1>4. FirstInv
  BY DEF Init, SyncInit, FirstInv, FirstNetworkIsFound
<1>5. ListInv
  <2>1. Cardinality(taken) <= MaxCandidates
    BY <1>1 DEF Init, SyncInit
  <2>. QED
    BY <2>1 DEF Init, SyncInit, ListInv
<1>6. CountInv
  <2>1. uploaded = 0 /\ failed = 0
    BY DEF Init, SyncInit
  <2>2. uploaded + failed <= MaxCandidates
    BY ONLY <1>1, <2>1
  <2>3. Cardinality(acked) = 0
    BY <1>1 DEF Init, SyncInit
  <2>4. sync = "off"
    BY DEF Init, SyncInit
  <2>. QED
    BY <2>1, <2>2, <2>3, <2>4 DEF CountInv, Early, Working
<1>7. TellInv
  BY DEF Init, SyncInit, TellInv, ResultHonest, Early, Working
<1>. QED
  BY <1>2, <1>3, <1>4, <1>5, <1>6, <1>7 DEF Inv

(* A step that changes nothing keeps the invariant.                        *)
LEMMA StutterInv == ASSUME Inv, UNCHANGED syncVars PROVE Inv'
<1>. USE DEF Inv, syncVars, network, medium, counts
<1>1. PlaceType' /\ FlagsType' /\ StoreType' /\ FilesInv'
  BY DEF PlaceType, FlagsType, StoreType, FilesInv
<1>2. HeldInv' /\ ReadInv' /\ FirstInv'
  BY DEF HeldInv, ReadInv, Waiting, FirstInv, FirstNetworkIsFound
<1>3. ListInv'
  BY DEF ListInv, Dealt
<1>4. CountInv'
  BY DEF CountInv, Dealt
<1>5. TellInv'
  BY DEF TellInv, ResultHonest
<1>. QED
  BY <1>1, <1>2, <1>3, <1>4, <1>5

(* The sync's bookkeeping holds in every state it reaches.                 *)
THEOREM Invariance == Spec => []Inv
<1>1. ASSUME Inv, [Next]_syncVars PROVE Inv'
  <2>1. CASE Next
    <3>1. PlaceType' /\ FlagsType' /\ StoreType' /\ FilesInv'
      BY <1>1, <2>1, SyncAssumption, PlaceNext, FlagsNext, MediumNext, FilesNext DEF Inv
    <3>2. HeldInv' /\ ReadInv' /\ FirstInv'
      BY <1>1, <2>1, SyncAssumption, HeldNext, ReadNext, FirstNext DEF Inv
    <3>3. ListInv' /\ CountInv' /\ TellInv'
      BY <1>1, <2>1, SyncAssumption, ListNext, CountNext, TellNext DEF Inv
    <3>. QED
      BY <3>1, <3>2, <3>3 DEF Inv
  <2>. QED
    BY <1>1, <2>1, StutterInv
<1>. QED
  BY <1>1, InitInv, SyncAssumption, PTL DEF Spec

(* The types; an upload has a file of the list, and nobody else has one.   *)
THEOREM TypeCorrect == Spec => []TypeOK
<1>1. ASSUME Inv PROVE TypeOK
  <2>1. uploaded \in 0 .. MaxCandidates /\ failed \in 0 .. MaxCandidates
    <3>1. uploaded \in Nat /\ failed \in Nat /\ uploaded + failed <= MaxCandidates
      BY <1>1 DEF Inv, CountInv
    <3>. QED
      BY ONLY <3>1, SyncAssumption DEF SyncAssumption
  <2>2. /\ candidates \subseteq taken /\ taken \subseteq Id /\ acked \subseteq taken
        /\ Cardinality(taken) <= MaxCandidates
        /\ IF sync \in {"lan", "fallback"} THEN current \in taken \ (candidates \cup acked)
                                          ELSE current = NoFile
    BY <1>1 DEF Inv, ListInv, Dealt
  <2>3. late \in BOOLEAN /\ mounted \in BOOLEAN /\ ever \in BOOLEAN
    BY <1>1 DEF Inv, FlagsType
  <2>4. StoreType
    BY <1>1 DEF Inv
  <2>5. PlaceType /\ files \in [Id -> Data \cup {NoFile}]
    BY <1>1 DEF Inv, FilesInv
  <2>6. callbacks \in Nat /\ result \in {"none", "OK", "PARTIAL_FAIL", "NO_NETWORK", "ERROR"}
    BY <1>1 DEF Inv, TellInv
  <2>. QED
    BY <2>1, <2>2, <2>3, <2>4, <2>5, <2>6, Zenon DEF TypeOK, PlaceType, StoreType
<1>. QED
  BY <1>1, Invariance, PTL

(* What the application is told is so, and it is told once, whatever the   *)
(* driver, the flash and the receiver do, for every number of recordings.  *)
THEOREM OutcomeIsHonest == Spec => []ResultHonest
<1>1. Inv => ResultHonest
  BY DEF Inv, TellInv
<1>. QED
  BY <1>1, Invariance, PTL

(* A network list that begins with a network in range is never reported    *)
(* as "no network": no event of an earlier attempt or sync is mistaken for *)
(* the failure of this one.                                                *)
THEOREM FirstNetworkIsTried == Spec => []FirstNetworkIsFound
<1>1. Inv => FirstNetworkIsFound
  BY DEF Inv, FirstInv
<1>. QED
  BY <1>1, Invariance, PTL

(* The driver's memory and the flash backlog are given back on every path  *)
(* before s_sync_running is cleared.                                       *)
THEOREM SyncGivesBack == Spec => []RadioReleased
<1>1. ASSUME Inv PROVE RadioReleased
  <2>1. mounted \in BOOLEAN
    BY <1>1 DEF Inv, FlagsType
  <2>2. mounted = TRUE => store = "flash" \/ sync # "off"
    BY <1>1 DEF Inv, HeldInv
  <2>3. store = "flash" => mounted = TRUE
    BY <1>1 DEF Inv, HeldInv
  <2>4. sync = "off" => wifi = "down"
    BY <1>1 DEF Inv, HeldInv
  <2>. QED
    BY <2>1, <2>2, <2>3, <2>4 DEF RadioReleased
<1>. QED
  BY <1>1, Invariance, PTL

(* An upload reads from a medium that is mounted, whatever the boot and the *)
(* card did while the sync went on.                                        *)
THEOREM SentIsReadable == Spec => []SentIsMounted
<1>1. ASSUME Inv PROVE SentIsMounted
  <2>1. mounted \in BOOLEAN
    BY <1>1 DEF Inv, FlagsType
  <2>2. SUFFICES ASSUME sync \in {"lan", "fallback"}
                 PROVE  IF current \in InFlash THEN mounted = TRUE ELSE store = "sd"
    BY <2>1 DEF SentIsMounted
  <2>3. current \in Waiting /\ NoFile \notin Id /\ InFlash \subseteq Id
    BY <1>1, <2>2, SyncAssumption DEF Inv, ListInv, Waiting, SyncAssumption
  <2>. QED
    BY <1>1, <2>3 DEF Inv, ReadInv
<1>. QED
  BY <1>1, Invariance, PTL

(* No step removes a recording that the receiver has not acknowledged in   *)
(* this very sync, and mounting removes none.                              *)
THEOREM DeletesOnlyAcked == Spec => OnlyAckedIsDeleted
<1>1. ASSUME Inv, [Next]_syncVars
      PROVE  [\A i \in Id : files'[i] # files[i] => i \in acked' /\ files'[i] = NoFile]_syncVars
  <2>1. CASE Next
    BY <1>1, <2>1, SyncAssumption, FilesNext DEF Inv
  <2>2. CASE UNCHANGED syncVars
    BY <2>2
  <2>. QED
    BY <1>1, <2>1, <2>2
<1>. QED
  BY <1>1, Invariance, PTL DEF Spec, OnlyAckedIsDeleted
=============================================================================
