------------------------ MODULE AudioPipelineProofs -------------------------
(***************************************************************************)
(* Invariants of AudioPipeline for every queue depth, every choice of the  *)
(* split limits, and any number of sessions, frames and files.             *)
(***************************************************************************)
EXTENDS AudioPipeline, SequenceTheorems, WellFoundedInduction, TLAPS

AudioPlaces == {"none", "loop", "capture", "publish", "exit"}
Checking == {"running?", "audio?", "queue?"}
Splitting == {"split: pages", "split: rename", "split: begin"}
Looping == {"top", "receive", "write"} \cup Checking \cup Splitting
Ending == {"end", "end: pages", "end: rename", "wait"}
Publishing == {"publish: end", "publish: wait"}
WriterPlaces == {"none"} \cup Looping \cup Ending \cup Publishing
Calling == {"idle", "stopped", "start", "stop"}
Preparing == {"codec", "opus", "open"}
Creating == {"create audio", "create writer", "unwind"}

(* Types of the variables the tasks share, and of the store.               *)
FlagType ==
    /\ running \in BOOLEAN /\ failed \in BOOLEAN /\ started \in BOOLEAN
    /\ last_error \in {"OK", "FAIL"} /\ callbacks \in 0 .. 1
    /\ result \in {"none", "OK", "FAIL", "TIMEOUT"}
PlaceType ==
    /\ audio \in AudioPlaces /\ writer \in WriterPlaces
    /\ app \in Calling \cup Preparing \cup Creating
CountType ==
    /\ session \in Session /\ seq \in 0 .. MaxFrames + 1
    /\ frames_in_file \in 0 .. SplitForce /\ quiet_run \in Nat
    /\ app \in {"start"} \cup Preparing => session < MaxSessions
QueueType ==
    /\ write_queue \in Seq(Packet) /\ Len(write_queue) <= QueueDepth
    /\ packet \in Packet \cup {NoPacket} /\ (packet # NoPacket <=> writer = "write")
StoreType ==
    /\ file_session \in [Name -> Session] /\ open \in Name \cup {NoName}
    /\ accepted \in Seq(Packet)
    /\ disk \in [Name -> [kind : {"absent", "partial", "final"}, packets : Seq(Packet)]]

(* Who runs while the application task is where, what it holds then, and   *)
(* whether a file is open.                                                 *)
PlaceInv ==
    /\ app \in Preparing \cup {"create audio", "stopped"} => TasksExited
    /\ app \in {"create writer", "unwind"} => writer = "none"
    /\ app \in Calling /\ writer = "none" => audio = "none"
    /\ writer # "none" => started = TRUE
    /\ app \in Creating => started = FALSE
HeldInv ==
    /\ ~ TasksExited \/ app \in {"open"} \cup Creating => resources = Resource
    /\ app = "codec" => resources = {"i2s"}
    /\ app = "opus" => resources = {"i2s", "codec"}
    /\ leaked \in BOOLEAN
    /\ leaked = TRUE => app \in Calling /\ TasksExited /\ resources = {"i2s"}
    /\ leaked = FALSE /\ app \in Calling /\ TasksExited => resources = {}
OpenInv ==
    /\ app \in Creating => open # NoName /\ accepted = << >>
    /\ open = NoName => accepted = << >>
    /\ writer = "none" /\ app \notin Creating => open = NoName
    /\ writer \in {"split: begin", "publish: wait", "wait"} => open = NoName
    /\ writer \in (Looping \ {"split: begin"}) \cup {"end: pages", "end: rename"} => open # NoName

(* The first failure is published once.                                    *)
ErrorInv ==
    /\ failed = FALSE => /\ last_error = "OK" /\ callbacks = 0
                         /\ audio # "publish" /\ writer \notin Publishing
    /\ failed = TRUE =>
          \/ audio = "publish" /\ writer \notin Publishing /\ callbacks = 0
          \/ audio # "publish" /\ writer \in Publishing /\ callbacks = 0
          \/ /\ audio # "publish" /\ writer \notin Publishing /\ callbacks = 1
             /\ last_error = "FAIL"
    /\ app = "stopped" => result = last_error

(* The writer leaves its loop after both tasks and the queue are done.     *)
ExitInv ==
    /\ writer \in {"audio?", "queue?"} => running = FALSE
    /\ writer = "queue?" => audio = "none"
    /\ failed = FALSE /\ writer \in Ending \cup {"none"} /\ (writer # "none" \/ started = TRUE)
          => audio = "none" /\ write_queue = << >>

(* The packets of a session are numbered through its files, which follow   *)
(* one another; only the last of them may be empty.                        *)
Content(n) == IF n = open THEN accepted ELSE disk[n].packets
FirstFile(n) == n = 1 \/ file_session[n - 1] # file_session[n]
LastFile(n) == n = MaxFiles \/ file_session[n + 1] = 0
Before(n) == IF FirstFile(n) THEN 0 ELSE Content(n - 1)[Len(Content(n - 1))].seq
OrderInv ==
    /\ \A n \in Name : file_session[n] <= session
    /\ \A m, n \in Name : m < n /\ file_session[n] # 0 =>
                          file_session[m] # 0 /\ file_session[m] <= file_session[n]
    /\ open # NoName => file_session[open] = session /\ LastFile(open) /\ session # 0
FileInv(n) ==
    /\ FirstFile(n) \/ Content(n - 1) # << >>
    /\ \A k \in 1 .. Len(Content(n)) : /\ Content(n)[k].session = file_session[n]
                                       /\ Content(n)[k].seq = Before(n) + k
FilesInv == \A n \in Name : file_session[n] # 0 => FileInv(n)

(* What is queued and in the writer's hand comes next, as long as the      *)
(* writer has lost nothing.                                                *)
Unsaved == Len(write_queue) + IF packet = NoPacket THEN 0 ELSE 1
QueueInv ==
    /\ \A k \in 1 .. Len(write_queue) : /\ write_queue[k].session = session
                                        /\ write_queue[k].seq = seq - Len(write_queue) + k
    /\ packet # NoPacket => packet.session = session /\ packet.seq = seq - Len(write_queue)
    /\ audio # "none" \/ writer # "none" => session # 0
Lossless ==
    \/ app \in {"create audio", "create writer"} \/ writer \in Looping
    \/ failed = FALSE /\ started = TRUE
IsTail(n) ==
    /\ n \in Name /\ file_session[n] = session /\ session # 0 /\ LastFile(n)
    /\ Before(n) + Len(Content(n)) + Unsaved = seq
    /\ writer = "split: begin" => Content(n) # << >>
    /\ open \in {n, NoName}
StepInv == Lossless => \E n \in Name : IsTail(n)

(* A part that holds something and is closed has its final name.           *)
KindInv ==
    failed = FALSE => \A n \in Name :
       file_session[n] = session /\ n # open /\ disk[n].packets # << >> => disk[n].kind = "final"

Inv ==
    /\ FlagType /\ PlaceType /\ CountType /\ QueueType /\ StoreType
    /\ PlaceInv /\ HeldInv /\ OpenInv /\ ErrorInv /\ ExitInv
    /\ OrderInv /\ FilesInv /\ QueueInv /\ StepInv /\ KindInv
-----------------------------------------------------------------------------
(* A set of numbers that is not empty has a least one.                     *)
LEMMA LeastNumber ==
    ASSUME NEW T \in SUBSET Nat, NEW t \in T
    PROVE  \E m \in T : \A k \in T : m <= k
<1>. DEFINE R == OpToRel(<, Nat)
<1>1. IsWellFoundedOn(R, Nat)
  BY NatLessThanWellFounded
<1>2. PICK m \in T : \A k \in T : ~ (<<k, m>> \in R)
  <2>. HIDE DEF R
  <2>. QED
    BY <1>1, WFMin
<1>3. \A j, k \in Nat : j < k => <<j, k>> \in R
  BY DEF OpToRel
<1>. HIDE DEF R
<1>4. \A k \in T : ~ (k < m)
  BY <1>2, <1>3
<1>. QED
  BY <1>4

(* Whatever is so of 1, and of a number when it is so of the one before.   *)
LEMMA UpTo ==
    ASSUME NEW N \in Nat, NEW S,
           1 \in S, \A n \in 2 .. N : n - 1 \in S => n \in S
    PROVE  1 .. N \subseteq S
<1>1. SUFFICES ASSUME NEW n0 \in (1 .. N) \ S PROVE FALSE
  OBVIOUS
<1>2. PICK n \in (1 .. N) \ S : \A k \in (1 .. N) \ S : n <= k
  <2>1. (1 .. N) \ S \in SUBSET Nat
    OBVIOUS
  <2>. QED
    BY <2>1, <1>1, LeastNumber
<1>3. n \in 2 .. N /\ n - 1 \in 1 .. N /\ ~ (n <= n - 1)
  BY <1>2
<1>. QED
  BY <1>2, <1>3

(* The parts up to one of them, one after the other.                       *)
Joined(F, g, n) ==
    \A i \in 1 .. n : g[i] = IF i = 1 THEN F[i] ELSE g[i - 1] \o F[i]

(* What is joined up to one part can be joined up to the next.             *)
LEMMA JoinedNext ==
    ASSUME NEW X, NEW N \in Nat, NEW F \in [1 .. N -> Seq(X)], NEW n \in 2 .. N,
           NEW g \in [1 .. n - 1 -> Seq(X)], Joined(F, g, n - 1)
    PROVE  \E h \in [1 .. n -> Seq(X)] : Joined(F, h, n)
<1>1. n - 1 \in 1 .. n - 1 /\ n \in 1 .. N
  OBVIOUS
<1>2. g[n - 1] \in Seq(X) /\ F[n] \in Seq(X)
  BY <1>1
<1>3. g[n - 1] \o F[n] \in Seq(X)
  BY <1>2
<1>4. PICK h \in [1 .. n -> Seq(X)] :
         h = [i \in 1 .. n |-> IF i = n THEN g[n - 1] \o F[n] ELSE g[i]]
  <2>1. \A i \in 1 .. n : i # n => i \in 1 .. n - 1
    OBVIOUS
  <2>2. \A i \in 1 .. n : (IF i = n THEN g[n - 1] \o F[n] ELSE g[i]) \in Seq(X)
    BY <2>1, <1>3
  <2>. HIDE DEF Joined
  <2>. QED
    BY <2>2
<1>5. h[n] = g[n - 1] \o F[n] /\ \A i \in 1 .. n - 1 : h[i] = g[i]
  <2>1. \A i \in 1 .. n - 1 : i \in 1 .. n /\ i # n
    OBVIOUS
  <2>2. \A i \in 1 .. n : h[i] = IF i = n THEN g[n - 1] \o F[n] ELSE g[i]
    BY <1>4
  <2>3. n \in 1 .. n
    OBVIOUS
  <2>. QED
    BY <2>1, <2>2, <2>3
<1>6. ASSUME NEW i \in 1 .. n
      PROVE  h[i] = IF i = 1 THEN F[i] ELSE h[i - 1] \o F[i]
  <2>1. CASE i = n
    <3>1. h[i - 1] = g[n - 1] /\ i # 1
      BY <2>1, <1>1, <1>5
    <3>. QED
      BY <2>1, <1>5, <3>1
  <2>2. CASE i # n
    <3>1. i \in 1 .. n - 1
      BY <2>2
    <3>2. g[i] = IF i = 1 THEN F[i] ELSE g[i - 1] \o F[i]
      BY <3>1 DEF Joined
    <3>3. h[i] = g[i] /\ (i # 1 => h[i - 1] = g[i - 1])
      BY <3>1, <1>5
    <3>. QED
      BY <3>2, <3>3
  <2>. QED
    BY <2>1, <2>2
<1>. QED
  BY <1>6 DEF Joined

(* FlattenSeq: the parts, one after the other.                             *)
LEMMA FlattenSteps ==
    ASSUME NEW X, NEW N \in Nat \ {0}, NEW F \in [1 .. N -> Seq(X)]
    PROVE  \E g \in [1 .. N -> Seq(X)] : Joined(F, g, N) /\ g[N] = FlattenSeq(F)
<1>. DEFINE Step(n) == \E g \in [1 .. n -> Seq(X)] : Joined(F, g, n)
<1>1. Step(1)
  <2>1. 1 \in 1 .. N
    OBVIOUS
  <2>2. [i \in 1 .. 1 |-> F[1]] \in [1 .. 1 -> Seq(X)]
    BY <2>1
  <2>3. Joined(F, [i \in 1 .. 1 |-> F[1]], 1)
    BY DEF Joined
  <2>. QED
    BY <2>2, <2>3
<1>2. \A n \in 2 .. N : Step(n - 1) => Step(n)
  BY JoinedNext
<1>. HIDE DEF Step
<1>3. \A n \in 1 .. N : Step(n)
  <2>1. 1 .. N \subseteq {n \in 1 .. N : Step(n)}
    <3>1. 1 \in {n \in 1 .. N : Step(n)}
      BY <1>1
    <3>2. \A n \in 2 .. N : n \in 1 .. N
      OBVIOUS
    <3>. QED
      BY <3>1, <3>2, <1>2, UpTo
  <2>. QED
    BY <2>1
<1>4. PICK g \in [1 .. N -> Seq(X)] : Joined(F, g, N)
  <2>1. N \in 1 .. N
    OBVIOUS
  <2>. QED
    BY <1>3, <2>1 DEF Step
<1>. DEFINE Def(f) == f = [i \in 1 .. N |-> IF i = 1 THEN F[i] ELSE f[i - 1] \o F[i]]
<1>5. Def(g)
  <2>1. g = [i \in 1 .. N |-> g[i]]
    OBVIOUS
  <2>2. \A i \in 1 .. N : g[i] = IF i = 1 THEN F[i] ELSE g[i - 1] \o F[i]
    BY <1>4 DEF Joined
  <2>. QED
    BY <2>1, <2>2
<1>6. Len(F) = N
  OBVIOUS
<1>7. FlattenSeq(F) = (CHOOSE f : Def(f))[N]
  <2>1. FlattenSeq(F) = (CHOOSE f : f = [i \in 1 .. Len(F) |-> IF i = 1 THEN F[i] ELSE f[i - 1] \o F[i]])[Len(F)]
    <3>1. Len(F) # 0
      BY <1>6
    <3>. QED
      BY <3>1, Zenon DEF FlattenSeq
  <2>. QED
    BY <2>1, <1>6
<1>8. Def(CHOOSE f : Def(f))
  <2>. HIDE DEF Def
  <2>. QED
    BY <1>5
<1>9. PICK f : f = (CHOOSE e : Def(e))
  OBVIOUS
<1>10. Def(f) /\ FlattenSeq(F) = f[N]
  <2>. HIDE DEF Def
  <2>1. Def(f)
    BY <1>8, <1>9, Zenon
  <2>2. FlattenSeq(F) = f[N]
    BY <1>7, <1>9, Zenon
  <2>. QED
    BY <2>1, <2>2
<1>11. Joined(F, f, N)
  BY <1>10 DEF Joined
<1>12. f \in [1 .. N -> Seq(X)]
  <2>1. \A i \in 1 .. N : f[i] = g[i]
    <3>1. 1 \in {i \in 1 .. N : f[i] = g[i]}
      BY <1>4, <1>11 DEF Joined
    <3>2. ASSUME NEW i \in 2 .. N, f[i - 1] = g[i - 1] PROVE f[i] = g[i]
      <4>1. i \in 1 .. N /\ i # 1
        OBVIOUS
      <4>2. f[i] = f[i - 1] \o F[i] /\ g[i] = g[i - 1] \o F[i]
        BY <1>4, <1>11, <4>1 DEF Joined
      <4>. QED
        BY <4>2, <3>2
    <3>3. \A i \in 2 .. N : i \in 1 .. N
      OBVIOUS
    <3>4. 1 .. N \subseteq {i \in 1 .. N : f[i] = g[i]}
      BY <3>1, <3>2, <3>3, UpTo
    <3>. QED
      BY <3>4
  <2>2. f = [i \in 1 .. N |-> f[i]]
    <3>1. DOMAIN f = 1 .. N
      BY <1>10
    <3>2. f = [i \in DOMAIN f |-> f[i]]
      BY <1>10
    <3>. QED
      BY <3>1, <3>2
  <2>. QED
    BY <2>1, <2>2
<1>. QED
  BY <1>10, <1>11, <1>12
-----------------------------------------------------------------------------
(* Every part holds of the initial state.                                  *)
LEMMA InvInit == ASSUME Init PROVE Inv
<1>. USE PipelineAssumption DEF Init
<1>1. FlagType
  <2>1. running \in BOOLEAN /\ failed \in BOOLEAN /\ started \in BOOLEAN
    BY Zenon
  <2>. QED
    BY <2>1 DEF FlagType
<1>2. PlaceType
  BY DEF PlaceType, AudioPlaces, WriterPlaces, Calling
<1>3. CountType
  BY DEF CountType, Session, Preparing
<1>4. QueueType
  BY DEF QueueType, NoPacket
<1>5. StoreType
  BY DEF StoreType, Log!LogInit, Log!Absent, Session, NoName, Name
<1>6. PlaceInv /\ HeldInv
  BY DEF PlaceInv, HeldInv, Preparing, Creating, TasksExited, Calling
<1>7. OpenInv
  BY DEF OpenInv, Creating, Log!LogInit, Looping, Splitting, Checking
<1>8. ErrorInv /\ ExitInv
  BY DEF ErrorInv, ExitInv, Publishing, Ending
<1>9. OrderInv /\ FilesInv /\ QueueInv
  BY DEF OrderInv, FilesInv, QueueInv, Log!LogInit, NoPacket
<1>10. StepInv /\ KindInv
  BY DEF StepInv, Lossless, Looping, Checking, Splitting, KindInv, Log!LogInit, Log!Absent
<1>. QED
  BY <1>1, <1>2, <1>3, <1>4, <1>5, <1>6, <1>7, <1>8, <1>9, <1>10 DEF Inv

(* Which actions change what the tasks share.                              *)
LEMMA FlagChanges ==
    ASSUME [Next]_vars
    PROVE  /\ \/ UNCHANGED <<failed, last_error, running, callbacks>>
              \/ AudioFails \/ AudioPublish \/ WriterFails \/ WriterPublish
              \/ StartBegin \/ CreateAudioFails \/ CreateWriterFails \/ Stop
           /\ UNCHANGED started \/ started' = FALSE \/ started' = TRUE
           /\ UNCHANGED result \/ result' \in {"OK", "FAIL", "TIMEOUT"} \/ StopReturns
<1>1. CASE AudioTask
  BY <1>1, Zenon DEF AudioTask, AudioLoop, AudioCapture, AudioFails, AudioPublish, AudioExit, appVars
<1>2. CASE WriterTask
  BY <1>2, Zenon DEF WriterTask, WriterTop, WriterReceive, WriterIdle, WriterExitCheck, WriterWrite,
     WriterPages, WriterRename, WriterBegin, WriterFails, WriterPublish, WriterEnd, WriterExit, appVars
<1>3. CASE AppTask
  <2>1. CASE StartBusy \/ Start \/ WaitTimesOut \/ InitI2s \/ InitCodec \/ InitOpus \/ StartFails
    BY <2>1 DEF StartBusy, Start, WaitTimesOut, InitI2s, InitCodec, InitOpus, StartFails, Return
  <2>2. CASE StartBegin \/ CreateAudio \/ CreateAudioFails \/ CreateWriter
    BY <2>2 DEF StartBegin, CreateAudio, CreateAudioFails, CreateWriter, Return
  <2>3. CASE CreateWriterFails \/ Unwind \/ Stop \/ StopReturns
    BY <2>3 DEF CreateWriterFails, Unwind, Stop, StopReturns, Return
  <2>. QED
    BY <1>3, <2>1, <2>2, <2>3 DEF AppTask
<1>4. CASE UNCHANGED vars
  BY <1>4 DEF vars, appVars
<1>. QED
  BY <1>1, <1>2, <1>3, <1>4 DEF Next

(* Every task stays at one of its places.                                  *)
LEMMA PlaceTypeNext == ASSUME PlaceType, [Next]_vars PROVE PlaceType'
<1>. USE DEF PlaceType, AudioPlaces, WriterPlaces, Looping, Ending, Publishing, Checking, Splitting,
             Calling, Preparing, Creating, audioVars, writerVars, appVars
<1>1. CASE AudioTask
  BY <1>1 DEF AudioTask, AudioLoop, AudioCapture, AudioFails, AudioPublish, AudioExit
<1>2. CASE WriterTask
  BY <1>2 DEF WriterTask, WriterTop, WriterReceive, WriterIdle, WriterExitCheck, WriterWrite,
     WriterPages, WriterRename, WriterBegin, WriterFails, WriterPublish, WriterEnd, WriterExit
<1>3. CASE AppTask
  BY <1>3 DEF AppTask, StartBusy, Start, WaitTimesOut, InitI2s, InitCodec, InitOpus, StartFails,
     StartBegin, CreateAudio, CreateAudioFails, CreateWriter, CreateWriterFails, Unwind, Stop,
     StopReturns, Return, Idle
<1>4. CASE UNCHANGED vars
  BY <1>4 DEF vars
<1>. QED
  BY <1>1, <1>2, <1>3, <1>4 DEF Next

(* Who runs while the application task is where: it waits for both tasks   *)
(* to exit before it starts or unwinds (audio_pipeline.c,                  *)
(* wait_for_tasks_to_exit).                                                *)
LEMMA PlaceInvNext == ASSUME PlaceType, PlaceInv, [Next]_vars PROVE PlaceInv'
<1>. USE DEF PlaceType, PlaceInv, AudioPlaces, WriterPlaces, Looping, Ending, Publishing, Checking, Splitting,
             Calling, Preparing, Creating, TasksExited, audioVars, writerVars, appVars
<1>1. CASE AudioTask
  BY <1>1 DEF AudioTask, AudioLoop, AudioCapture, AudioFails, AudioPublish, AudioExit
<1>2. CASE WriterTask
  BY <1>2 DEF WriterTask, WriterTop, WriterReceive, WriterIdle, WriterExitCheck, WriterWrite,
     WriterPages, WriterRename, WriterBegin, WriterFails, WriterPublish, WriterEnd, WriterExit
<1>3. CASE AppTask
  BY <1>3 DEF AppTask, StartBusy, Start, WaitTimesOut, InitI2s, InitCodec, InitOpus, StartFails,
     StartBegin, CreateAudio, CreateAudioFails, CreateWriter, CreateWriterFails, Unwind, Stop,
     StopReturns, Return, Idle
<1>4. CASE UNCHANGED vars
  BY <1>4 DEF vars
<1>. QED
  BY <1>1, <1>2, <1>3, <1>4 DEF Next

(* The resources follow the places: made one after the other before the    *)
(* tasks, taken back after them.                                           *)
LEMMA HeldInvNext == ASSUME PlaceType, PlaceInv, HeldInv, [Next]_vars PROVE HeldInv'
<1>. USE DEF PlaceType, PlaceInv, HeldInv, AudioPlaces, WriterPlaces, Looping, Ending, Publishing, Checking,
             Splitting, Calling, Preparing, Creating, TasksExited, Resource, DeinitResources,
             audioVars, writerVars, appVars
<1>1. CASE AudioTask
  BY <1>1 DEF AudioTask, AudioLoop, AudioCapture, AudioFails, AudioPublish, AudioExit
<1>2. CASE WriterTask
  BY <1>2 DEF WriterTask, WriterTop, WriterReceive, WriterIdle, WriterExitCheck, WriterWrite,
     WriterPages, WriterRename, WriterBegin, WriterFails, WriterPublish, WriterEnd, WriterExit
<1>3. CASE AppTask
  BY <1>3 DEF AppTask, StartBusy, Start, WaitTimesOut, InitI2s, InitCodec, InitOpus, StartFails,
     StartBegin, CreateAudio, CreateAudioFails, CreateWriter, CreateWriterFails, Unwind, Stop,
     StopReturns, Return, Idle
<1>4. CASE UNCHANGED vars
  BY <1>4 DEF vars
<1>. QED
  BY <1>1, <1>2, <1>3, <1>4 DEF Next

(* The writer reads s_running, s_audio_task and the queue in that order,   *)
(* so that what it saw of the first two stays true of them                 *)
(* (audio_pipeline.c, writer_task).                                        *)
LEMMA ExitInvNext ==
    ASSUME PlaceType, PlaceInv, ErrorInv, ExitInv, FlagType, [Next]_vars PROVE ExitInv'
<1>. USE DEF PlaceType, PlaceInv, ErrorInv, ExitInv, FlagType, AudioPlaces, WriterPlaces, Looping, Ending,
             Publishing, Checking, Splitting, Calling, Preparing, Creating, TasksExited, Publish,
             audioVars, writerVars, appVars
<1>1. CASE AudioTask
  BY <1>1 DEF AudioTask, AudioLoop, AudioCapture, AudioFails, AudioPublish, AudioExit
<1>2. CASE WriterTask
  BY <1>2 DEF WriterTask, WriterTop, WriterReceive, WriterIdle, WriterExitCheck, WriterWrite,
     WriterPages, WriterRename, WriterBegin, WriterFails, WriterPublish, WriterEnd, WriterExit
<1>3. CASE AppTask
  <2>1. CASE StartBusy \/ Start \/ WaitTimesOut \/ StopReturns
    BY <2>1 DEF StartBusy, Start, WaitTimesOut, StopReturns, Return, Idle
  <2>2. CASE InitI2s \/ InitCodec \/ InitOpus \/ StartFails
    BY <2>2 DEF InitI2s, InitCodec, InitOpus, StartFails, Idle
  <2>3. CASE StartBegin \/ CreateAudio \/ CreateAudioFails
    BY <2>3 DEF StartBegin, CreateAudio, CreateAudioFails, Idle
  <2>4. CASE CreateWriter \/ CreateWriterFails \/ Unwind \/ Stop
    BY <2>4 DEF CreateWriter, CreateWriterFails, Unwind, Stop, Idle
  <2>. QED
    BY <1>3, <2>1, <2>2, <2>3, <2>4 DEF AppTask
<1>4. CASE UNCHANGED vars
  BY <1>4 DEF vars
<1>. QED
  BY <1>1, <1>2, <1>3, <1>4 DEF Next

(* The flags and results stay what they are; the callback runs once.       *)
LEMMA FlagTypeNext ==
    ASSUME FlagType, PlaceType, ErrorInv, [Next]_vars PROVE FlagType'
<1>1. running' \in BOOLEAN
  <2>1. \/ UNCHANGED running \/ running' = FALSE \/ running' = TRUE \/ running' = (running /\ TasksExited)
    BY FlagChanges DEF AudioFails, AudioPublish, WriterFails, WriterPublish, StartBegin,
       CreateAudioFails, CreateWriterFails, Stop, Publish
  <2>2. (running /\ TasksExited) \in BOOLEAN
    BY Zenon
  <2>. QED
    BY <2>1, <2>2, Zenon DEF FlagType
<1>2. failed' \in BOOLEAN
  <2>1. UNCHANGED failed \/ failed' = TRUE \/ failed' = FALSE
    BY FlagChanges DEF AudioFails, AudioPublish, WriterFails, WriterPublish, StartBegin,
       CreateAudioFails, CreateWriterFails, Stop
  <2>. QED
    BY <2>1, Zenon DEF FlagType
<1>3. started' \in BOOLEAN
  BY FlagChanges, Zenon DEF FlagType
<1>4. last_error' \in {"OK", "FAIL"}
  <2>1. UNCHANGED last_error \/ last_error' \in {"OK", "FAIL"}
    BY FlagChanges DEF AudioFails, AudioPublish, WriterFails, WriterPublish, StartBegin,
       CreateAudioFails, CreateWriterFails, Stop, Publish
  <2>. QED
    BY <2>1 DEF FlagType
<1>5. callbacks' \in 0 .. 1
  <2>1. CASE AudioPublish \/ WriterPublish
    <3>1. failed = TRUE
      <4>1. audio = "publish" \/ writer \in Publishing
        BY <2>1, Zenon DEF AudioPublish, WriterPublish, Publishing
      <4>. QED
        BY <4>1 DEF ErrorInv, FlagType
    <3>2. callbacks = 0
      <4>1. audio = "publish" \/ writer \in Publishing
        BY <2>1, Zenon DEF AudioPublish, WriterPublish, Publishing
      <4>. QED
        BY <3>1, <4>1 DEF ErrorInv
    <3>3. callbacks' = callbacks + 1
      BY <2>1 DEF AudioPublish, WriterPublish, Publish
    <3>. QED
      BY <3>2, <3>3
  <2>2. CASE UNCHANGED callbacks \/ callbacks' = 0
    BY <2>2 DEF FlagType
  <2>. QED
    BY <2>1, <2>2, FlagChanges DEF AudioFails, WriterFails, StartBegin,
       CreateAudioFails, CreateWriterFails, Stop
<1>6. result' \in {"none", "OK", "FAIL", "TIMEOUT"}
  BY FlagChanges DEF StopReturns, FlagType
<1>. QED
  BY <1>1, <1>2, <1>3, <1>4, <1>5, <1>6 DEF FlagType

(* Steps that touch neither the error nor who is publishing it.            *)
LEMMA ErrorSame ==
    ASSUME ErrorInv, UNCHANGED <<failed, last_error, callbacks>>,
           audio' = "publish" <=> audio = "publish",
           writer' \in Publishing <=> writer \in Publishing,
           app' # "stopped" \/ (app = "stopped" /\ UNCHANGED result) \/ result' = last_error
    PROVE  ErrorInv'
BY DEF ErrorInv

(* Of two tasks that fail only the one that sets s_failed first publishes  *)
(* (audio_pipeline.c, report_failure).                                     *)
LEMMA ErrorInvNext ==
    ASSUME FlagType, PlaceType, PlaceInv, ErrorInv, [Next]_vars PROVE ErrorInv'
<1>. USE DEF audioVars, writerVars, appVars
<1>1. CASE AudioLoop \/ AudioCapture \/ AudioExit
  <2>1. audio' # "publish" /\ audio # "publish"
    BY <1>1 DEF AudioLoop, AudioCapture, AudioExit
  <2>2. UNCHANGED <<failed, last_error, callbacks, writer, app, result>>
    BY <1>1 DEF AudioLoop, AudioCapture, AudioExit
  <2>. QED
    BY <2>1, <2>2, ErrorSame
<1>2. CASE AudioFails
  <2>1. UNCHANGED <<last_error, callbacks, writer, app, result>> /\ audio = "capture" /\ failed' = TRUE
    BY <1>2 DEF AudioFails
  <2>2. CASE failed = TRUE
    <3>1. audio' = "exit"
      BY <1>2, <2>2 DEF AudioFails
    <3>. QED
      BY <2>1, <2>2, <3>1 DEF ErrorInv
  <2>3. CASE failed = FALSE
    <3>1. audio' = "publish"
      BY <1>2, <2>3 DEF AudioFails
    <3>. QED
      BY <2>1, <2>3, <3>1 DEF ErrorInv
  <2>. QED
    BY <2>2, <2>3 DEF FlagType
<1>3. CASE AudioPublish
  <2>1. /\ UNCHANGED <<failed, writer, app, result>> /\ audio = "publish" /\ audio' = "exit"
        /\ last_error' = "FAIL" /\ callbacks' = callbacks + 1
    BY <1>3 DEF AudioPublish, Publish
  <2>2. failed = TRUE
    BY <2>1 DEF FlagType, ErrorInv
  <2>3. callbacks = 0 /\ writer \notin Publishing
    BY <2>1, <2>2 DEF ErrorInv
  <2>4. callbacks' = 1
    BY <2>1, <2>3
  <2>5. app # "stopped"
    BY <2>1 DEF PlaceInv, TasksExited
  <2>. QED
    BY <2>1, <2>2, <2>3, <2>4, <2>5 DEF ErrorInv
<1>4. CASE WriterTop \/ WriterReceive \/ WriterIdle \/ WriterExitCheck \/ WriterWrite
  <2>1. writer \notin Publishing /\ writer' \notin Publishing
    BY <1>4 DEF WriterTop, WriterReceive, WriterIdle, WriterExitCheck, WriterWrite, Publishing
  <2>2. UNCHANGED <<failed, last_error, callbacks, audio, app, result>>
    BY <1>4 DEF WriterTop, WriterReceive, WriterIdle, WriterExitCheck, WriterWrite
  <2>. QED
    BY <2>1, <2>2, ErrorSame
<1>5. CASE WriterPages \/ WriterRename \/ WriterBegin \/ WriterEnd \/ WriterExit
  <2>1. writer \notin Publishing /\ writer' \notin Publishing
    BY <1>5 DEF WriterPages, WriterRename, WriterBegin, WriterEnd, WriterExit, Publishing
  <2>2. UNCHANGED <<failed, last_error, callbacks, audio, app, result>>
    BY <1>5 DEF WriterPages, WriterRename, WriterBegin, WriterEnd, WriterExit
  <2>. QED
    BY <2>1, <2>2, ErrorSame
<1>6. CASE WriterFails
  <2>1. /\ UNCHANGED <<last_error, callbacks, audio, app, result>> /\ failed' = TRUE
        /\ writer \notin Publishing
    BY <1>6 DEF WriterFails, Publishing
  <2>2. CASE failed = TRUE
    <3>1. writer' \notin Publishing
      BY <1>6, <2>2 DEF WriterFails, Publishing
    <3>. QED
      BY <2>1, <2>2, <3>1 DEF ErrorInv
  <2>3. CASE failed = FALSE
    <3>1. writer' \in Publishing
      BY <1>6, <2>3 DEF WriterFails, Publishing
    <3>2. callbacks = 0 /\ audio # "publish"
      BY <2>3 DEF ErrorInv
    <3>3. app # "stopped"
      BY <1>6 DEF PlaceInv, TasksExited, WriterFails
    <3>. QED
      BY <2>1, <3>1, <3>2, <3>3 DEF ErrorInv
  <2>. QED
    BY <2>2, <2>3 DEF FlagType
<1>7. CASE WriterPublish
  <2>1. /\ UNCHANGED <<failed, audio, app, result>>
        /\ last_error' = "FAIL" /\ callbacks' = callbacks + 1
    BY <1>7 DEF WriterPublish, Publish
  <2>2. writer \in Publishing /\ writer' \notin Publishing
    BY <1>7 DEF WriterPublish, Publishing
  <2>3. failed = TRUE
    BY <2>2 DEF FlagType, ErrorInv
  <2>4. callbacks = 0 /\ audio # "publish"
    BY <2>2, <2>3 DEF ErrorInv
  <2>5. callbacks' = 1
    BY <2>1, <2>4
  <2>6. app # "stopped"
    BY <2>2 DEF PlaceInv, TasksExited, Publishing
  <2>. QED
    BY <2>1, <2>2, <2>3, <2>4, <2>5, <2>6 DEF ErrorInv
<1>8. CASE StartBegin
  <2>1. /\ failed' = FALSE /\ last_error' = "OK" /\ callbacks' = 0 /\ app' = "create audio"
        /\ audio = "none" /\ writer = "none" /\ UNCHANGED <<audio, writer>>
    BY <1>8 DEF StartBegin, PlaceInv, TasksExited, Preparing
  <2>. QED
    BY <2>1 DEF ErrorInv, Publishing
<1>9. CASE CreateAudio \/ CreateWriter
  <2>1. UNCHANGED <<failed, last_error, callbacks>> /\ app' # "stopped"
    BY <1>9 DEF CreateAudio, CreateWriter, Return
  <2>2. (audio' # "publish" /\ audio # "publish") \/ UNCHANGED audio
    BY <1>9 DEF CreateAudio, CreateWriter, PlaceInv, TasksExited
  <2>3. writer' \notin Publishing /\ writer \notin Publishing
    BY <1>9 DEF CreateAudio, CreateWriter, PlaceInv, TasksExited, Publishing
  <2>. QED
    BY <2>1, <2>2, <2>3, ErrorSame
<1>10. CASE StartBusy \/ Start \/ WaitTimesOut \/ InitI2s \/ InitCodec \/ InitOpus \/ StartFails
  <2>1. UNCHANGED <<failed, last_error, callbacks, audio, writer>> /\ app' # "stopped"
    BY <1>10 DEF StartBusy, Start, WaitTimesOut, InitI2s, InitCodec, InitOpus, StartFails, Return
  <2>. QED
    BY <2>1, ErrorSame
<1>11. CASE CreateAudioFails \/ CreateWriterFails \/ Unwind \/ Stop \/ StopReturns
  <2>1. UNCHANGED <<failed, last_error, callbacks, audio, writer>>
        /\ (app' # "stopped" \/ result' = last_error)
    BY <1>11 DEF CreateAudioFails, CreateWriterFails, Unwind, Stop, StopReturns, Return
  <2>. QED
    BY <2>1, ErrorSame
<1>12. CASE UNCHANGED vars
  BY <1>12, ErrorSame DEF vars
<1>. QED
  BY <1>1, <1>2, <1>3, <1>4, <1>5, <1>6, <1>7, <1>8, <1>9, <1>10, <1>11, <1>12, Zenon
     DEF Next, AudioTask, WriterTask, AppTask

(* A number below a bound may grow.                                        *)
LEMMA OneMore == ASSUME NEW n \in Nat, NEW k \in 0 .. n, k < n PROVE k + 1 \in 0 .. n
OBVIOUS

(* The counters stay within their bounds.                                  *)
LEMMA CountTypeNext ==
    ASSUME CountType, PlaceType, [Next]_vars PROVE CountType'
<1>. USE PipelineAssumption DEF CountType, Session, Preparing, audioVars, writerVars, appVars
<1>1. CASE AudioCapture
  <2>1. PICK quiet \in BOOLEAN :
           LET frames == frames_in_file + 1
               run    == IF quiet THEN quiet_run + 1 ELSE 0
               split  == SplitHere(frames, run)
           IN  /\ frames_in_file' = IF split THEN 0 ELSE frames
               /\ quiet_run' = IF split THEN 0 ELSE run
    BY <1>1 DEF AudioCapture
  <2>2. frames_in_file' \in 0 .. SplitForce
    BY <2>1 DEF SplitHere
  <2>3. quiet_run' \in Nat
    BY <2>1
  <2>4. seq' \in 0 .. MaxFrames + 1
    BY <1>1 DEF AudioCapture
  <2>. QED
    BY <1>1, <2>2, <2>3, <2>4 DEF AudioCapture
<1>2. CASE AudioLoop \/ AudioFails \/ AudioPublish \/ AudioExit
  BY <1>2 DEF AudioLoop, AudioFails, AudioPublish, AudioExit
<1>3. CASE WriterTask
  BY <1>3 DEF WriterTask, WriterTop, WriterReceive, WriterIdle, WriterExitCheck, WriterWrite,
     WriterPages, WriterRename, WriterBegin, WriterFails, WriterPublish, WriterEnd, WriterExit
<1>4. CASE AppTask
  <2>1. CASE StartBegin
    <3>1. session < MaxSessions /\ session' = session + 1 /\ seq' = 0 /\ app' = "create audio"
      BY <2>1 DEF StartBegin
    <3>2. session \in 0 .. MaxSessions
      OBVIOUS
    <3>3. session' \in 0 .. MaxSessions
      <4>1. session + 1 \in 0 .. MaxSessions
        BY <3>1, <3>2, OneMore, Zenon
      <4>. QED
        BY <3>1, <4>1, Zenon
    <3>4. 0 \in 0 .. MaxFrames + 1
      OBVIOUS
    <3>. QED
      BY <2>1, <3>1, <3>3, <3>4 DEF StartBegin
  <2>2. CASE CreateAudio
    <3>1. /\ frames_in_file' = 0 /\ quiet_run' = 0 /\ app' = "create writer"
          /\ UNCHANGED <<session, seq>>
      BY <2>2 DEF CreateAudio
    <3>2. 0 \in 0 .. SplitForce
      OBVIOUS
    <3>. QED
      BY <3>1, <3>2
  <2>3. CASE CreateAudioFails \/ CreateWriter \/ CreateWriterFails \/ Unwind
    BY <2>3 DEF CreateAudioFails, CreateWriter, CreateWriterFails, Unwind, Return
  <2>4. CASE StartBusy \/ WaitTimesOut \/ StartFails \/ Stop \/ StopReturns
    BY <2>4 DEF StartBusy, WaitTimesOut, StartFails, Stop, StopReturns, Return
  <2>5. CASE Start \/ InitI2s \/ InitCodec \/ InitOpus
    BY <2>5 DEF Start, InitI2s, InitCodec, InitOpus, Return
  <2>. QED
    BY <1>4, <2>1, <2>2, <2>3, <2>4, <2>5, Zenon DEF AppTask
<1>5. CASE UNCHANGED vars
  BY <1>5 DEF vars
<1>. QED
  BY <1>1, <1>2, <1>3, <1>4, <1>5 DEF Next, AudioTask

-----------------------------------------------------------------------------
(* The packet of a captured frame is one.                                  *)
LEMMA CapturedPacket ==
    ASSUME NEW s \in Session, NEW k \in 0 .. MaxFrames, NEW b \in BOOLEAN
    PROVE  [session |-> s, seq |-> k + 1, split |-> b] \in Packet
<1>1. k + 1 \in 1 .. MaxFrames + 1
  BY PipelineAssumption
<1>. QED
  BY <1>1 DEF Packet

(* NoPacket is not a packet: its number is 0.                              *)
LEMMA NoPacketIsNone == NoPacket \notin Packet
<1>1. SUFFICES ASSUME NoPacket \in Packet PROVE FALSE
  OBVIOUS
<1>2. NoPacket.seq \in 1 .. MaxFrames + 1
  BY <1>1 DEF Packet
<1>3. NoPacket.seq = 0
  BY DEF NoPacket
<1>. QED
  BY <1>2, <1>3, PipelineAssumption

(* Which actions change the queue, the packet in hand and the numbers.     *)
LEMMA QueueChanges ==
    ASSUME [Next]_vars
    PROVE  /\ \/ UNCHANGED <<write_queue, session, seq>>
              \/ AudioCapture \/ WriterReceive \/ WriterEnd \/ StartBegin \/ Unwind
           /\ \/ UNCHANGED packet
              \/ WriterReceive \/ WriterWrite \/ WriterFails
           /\ \/ UNCHANGED store
              \/ WriterWrite \/ WriterPages \/ WriterRename \/ WriterBegin \/ WriterFails \/ WriterEnd
              \/ StartBegin \/ CreateAudioFails \/ Unwind
<1>. USE DEF writerVars
<1>1. CASE AudioTask
  BY <1>1, Zenon DEF AudioTask, AudioLoop, AudioCapture, AudioFails, AudioPublish, AudioExit
<1>2. CASE WriterTask
  BY <1>2, Zenon DEF WriterTask, WriterTop, WriterReceive, WriterIdle, WriterExitCheck, WriterWrite,
     WriterPages, WriterRename, WriterBegin, WriterFails, WriterPublish, WriterEnd, WriterExit
<1>3. CASE AppTask
  BY <1>3, Zenon DEF AppTask, StartBusy, Start, WaitTimesOut, InitI2s, InitCodec, InitOpus, StartFails,
     StartBegin, CreateAudio, CreateAudioFails, CreateWriter, CreateWriterFails, Unwind, Stop,
     StopReturns
<1>4. CASE UNCHANGED vars
  BY <1>4, Zenon DEF vars
<1>. QED
  BY <1>1, <1>2, <1>3, <1>4, Zenon DEF Next

(* AudioCapture puts the next packet at the end of the queue.              *)
LEMMA CaptureAppends ==
    ASSUME CountType, AudioCapture
    PROVE  \E p \in Packet : /\ p.session = session /\ p.seq = seq + 1
                             /\ write_queue' = Append(write_queue, p)
<1>1. PICK quiet \in BOOLEAN :
         LET frames == frames_in_file + 1
             run    == IF quiet THEN quiet_run + 1 ELSE 0
             split  == SplitHere(frames, run)
         IN  write_queue' = Append(write_queue, [session |-> session, seq |-> seq + 1,
                                                 split |-> split])
  BY DEF AudioCapture
<1>2. PICK b : /\ b = SplitHere(frames_in_file + 1, IF quiet THEN quiet_run + 1 ELSE 0)
               /\ write_queue' = Append(write_queue, [session |-> session, seq |-> seq + 1, split |-> b])
  BY <1>1, Zenon
<1>3. b \in BOOLEAN
  BY <1>2, Zenon DEF SplitHere
<1>4. seq \in 0 .. MaxFrames /\ session \in Session
  BY PipelineAssumption DEF CountType, AudioCapture
<1>5. PICK p : p = [session |-> session, seq |-> seq + 1, split |-> b]
  OBVIOUS
<1>6. p \in Packet
  BY <1>3, <1>4, <1>5, CapturedPacket
<1>. QED
  BY <1>2, <1>5, <1>6

(* The queue never holds more than it has room for, and the writer has a   *)
(* packet in hand exactly while it writes one.                             *)
LEMMA QueueTypeNext ==
    ASSUME CountType, PlaceType, PlaceInv, QueueType, [Next]_vars PROVE QueueType'
<1>1. write_queue' \in Seq(Packet) /\ Len(write_queue') <= QueueDepth
  <2>1. CASE UNCHANGED write_queue
    BY <2>1 DEF QueueType
  <2>2. CASE AudioCapture
    <3>1. PICK p \in Packet : write_queue' = Append(write_queue, p)
      BY <2>2, CaptureAppends
    <3>2. Len(write_queue) < QueueDepth
      BY <2>2 DEF AudioCapture
    <3>. QED
      BY <3>1, <3>2, PipelineAssumption DEF QueueType
  <2>3. CASE WriterReceive
    <3>1. write_queue # << >> /\ write_queue' = Tail(write_queue)
      BY <2>3 DEF WriterReceive
    <3>. QED
      BY <3>1, PipelineAssumption DEF QueueType
  <2>4. CASE write_queue' = << >>
    BY <2>4, PipelineAssumption
  <2>. QED
    BY <2>1, <2>2, <2>3, <2>4, QueueChanges DEF WriterEnd, StartBegin, Unwind
<1>2. packet' \in Packet \cup {NoPacket} /\ (packet' # NoPacket <=> writer' = "write")
  <2>1. CASE WriterReceive
    <3>1. write_queue # << >> /\ packet' = Head(write_queue) /\ writer' = "write"
      BY <2>1 DEF WriterReceive
    <3>2. packet' \in Packet
      BY <3>1 DEF QueueType
    <3>. QED
      BY <3>1, <3>2, NoPacketIsNone
  <2>2. CASE WriterWrite \/ WriterFails
    BY <2>2 DEF WriterWrite, WriterFails
  <2>3. CASE UNCHANGED packet /\ (writer' = "write" <=> writer = "write")
    BY <2>3 DEF QueueType
  <2>4. CASE AudioTask
    BY <2>3, <2>4 DEF AudioTask, AudioLoop, AudioCapture, AudioFails, AudioPublish, AudioExit, writerVars
  <2>5. CASE WriterTask
    <3>1. \/ WriterReceive \/ WriterWrite \/ WriterFails
          \/ UNCHANGED packet /\ writer' # "write" /\ writer # "write"
      BY <2>5 DEF WriterTask, WriterTop, WriterIdle, WriterExitCheck, WriterPages,
         WriterRename, WriterBegin, WriterPublish, WriterEnd, WriterExit
    <3>. QED
      BY <2>1, <2>2, <2>3, <3>1
  <2>6. CASE AppTask
    <3>1. UNCHANGED packet /\ (UNCHANGED writer \/ CreateWriter)
      BY <2>6, Zenon DEF AppTask, StartBusy, Start, WaitTimesOut, InitI2s, InitCodec, InitOpus, StartFails,
         StartBegin, CreateAudio, CreateAudioFails, CreateWriter, CreateWriterFails, Unwind, Stop,
         StopReturns, writerVars
    <3>2. CASE CreateWriter
      BY <3>1, <3>2, <2>3 DEF CreateWriter, PlaceInv
    <3>. QED
      BY <2>3, <3>1, <3>2
  <2>7. CASE UNCHANGED vars
    BY <2>3, <2>7 DEF vars, writerVars
  <2>. QED
    BY <2>4, <2>5, <2>6, <2>7 DEF Next
<1>. QED
  BY <1>1, <1>2 DEF QueueType

-----------------------------------------------------------------------------
(* OpenFile takes the first name that was never used.                      *)
Opened(n, s) ==
    /\ file_session[n] = 0 /\ \A k \in Name : k < n => file_session[k] # 0
    /\ open = NoName /\ open' = n /\ accepted' = << >>
    /\ disk[n].packets = << >>
    /\ disk' = [disk EXCEPT ![n].kind = "partial"]
    /\ file_session' = [file_session EXCEPT ![n] = s]

(* recording_store_begin, as Opened says it.                               *)
LEMMA OpenFileEffect ==
    ASSUME StoreType, NEW s \in Session, OpenFile(s)
    PROVE  \E n \in Name : Opened(n, s)
<1>1. PICK U : U = {n \in Name : file_session[n] = 0}
  OBVIOUS
<1>2. PICK n : n = (CHOOSE m \in U : \A k \in U : m <= k)
  OBVIOUS
<1>3. U # {} /\ Log!LogOpen(n) /\ file_session' = [file_session EXCEPT ![n] = s]
  BY <1>1, <1>2, Zenon DEF OpenFile
<1>4. U \in SUBSET Nat
  BY <1>1 DEF Name
<1>5. \E m \in U : \A k \in U : m <= k
  BY <1>3, <1>4, LeastNumber
<1>6. n \in U /\ \A k \in U : n <= k
  BY <1>2, <1>5, Zenon
<1>7. n \in Name /\ file_session[n] = 0
  BY <1>1, <1>6
<1>8. ASSUME NEW k \in Name, k < n PROVE file_session[k] # 0
  BY <1>1, <1>6, <1>7, <1>8 DEF Name
<1>9. disk[n].packets = << >>
  BY <1>3 DEF Log!LogOpen, Log!Absent
<1>. QED
  BY <1>3, <1>7, <1>8, <1>9 DEF Log!LogOpen, Opened

(* What is given up or discarded: the file is closed, and keeps a part of  *)
(* what was accepted.                                                      *)
Kept(q) ==
    /\ \/ disk' = [disk EXCEPT ![open].packets = q]
       \/ disk' = [disk EXCEPT ![open] = Log!Absent] /\ q = << >>
    /\ Len(q) <= Len(accepted) /\ \A i \in 1 .. Len(q) : q[i] = accepted[i]
Dropped ==
    /\ UNCHANGED file_session
    /\ open' = NoName
    /\ open = NoName => UNCHANGED <<accepted, disk>>
    /\ open # NoName => accepted' = << >> /\ \E q \in Seq(Packet) : Kept(q)

(* A file that is given up keeps what Dropped says.                        *)
LEMMA GaveUpEffect == ASSUME StoreType, Log!LogGiveUp, UNCHANGED file_session PROVE Dropped
<1>1. PICK k \in Len(disk[open].packets) .. Len(accepted) :
         disk' = [disk EXCEPT ![open].packets = SubSeq(accepted, 1, k)]
  BY DEF Log!LogGiveUp, Log!Prefix
<1>2. open \in Name /\ open # NoName /\ open' = NoName /\ accepted' = << >>
  BY DEF Log!LogGiveUp, StoreType, NoName
<1>3. accepted \in Seq(Packet) /\ disk[open].packets \in Seq(Packet)
  BY <1>2 DEF StoreType
<1>4. k \in 0 .. Len(accepted)
  BY <1>1, <1>3
<1>5. PICK q : q = SubSeq(accepted, 1, k)
  OBVIOUS
<1>6. q \in Seq(Packet) /\ Len(q) = k /\ \A i \in 1 .. k : q[i] = accepted[i]
  BY <1>3, <1>4, <1>5
<1>7. disk' = [disk EXCEPT ![open].packets = q] /\ Len(q) <= Len(accepted)
  BY <1>1, <1>4, <1>5, <1>6
<1>8. \A i \in 1 .. Len(q) : q[i] = accepted[i]
  BY <1>6
<1>9. Kept(q)
  BY <1>6, <1>7, <1>8 DEF Kept
<1>. QED
  BY <1>2, <1>6, <1>9 DEF Dropped

(* recording_store_abort(true), whether a file is open or not.             *)
LEMMA GiveUpEffect == ASSUME StoreType, GiveUp PROVE Dropped
<1>1. CASE open = NoName
  BY <1>1 DEF GiveUp, Dropped
<1>2. CASE open # NoName
  BY <1>2, GaveUpEffect DEF GiveUp
<1>. QED
  BY <1>1, <1>2

(* recording_store_abort(false), whether or not the file can be removed.   *)
LEMMA DiscardEffect == ASSUME StoreType, Discard PROVE Dropped /\ accepted = << >>
<1>1. CASE Log!LogGiveUp /\ accepted = << >>
  BY <1>1, GaveUpEffect DEF Discard
<1>2. CASE Log!LogDiscard
  <2>1. /\ open # NoName /\ accepted = << >> /\ open' = NoName /\ UNCHANGED <<accepted, file_session>>
        /\ disk' = [disk EXCEPT ![open] = Log!Absent]
    BY <1>2 DEF Log!LogDiscard, Discard
  <2>2. PICK q : q = << >> /\ q \in Seq(Packet)
    <3>1. << >> \in Seq(Packet)
      OBVIOUS
    <3>. QED
      BY <3>1
  <2>3. Len(q) <= Len(accepted) /\ \A i \in 1 .. Len(q) : q[i] = accepted[i]
    BY <2>1, <2>2
  <2>4. accepted' = << >>
    BY <2>1
  <2>5. Kept(q)
    BY <2>1, <2>2, <2>3 DEF Kept
  <2>. QED
    BY <2>1, <2>2, <2>4, <2>5 DEF Dropped
<1>. QED
  BY <1>1, <1>2 DEF Discard

(* A start opens a file for the session it begins.                         *)
LEMMA StartOpens ==
    ASSUME CountType, StoreType, StartBegin PROVE \E n \in Name : Opened(n, session')
<1>1. app = "open" /\ session' = session + 1 /\ OpenFile(session')
  BY DEF StartBegin
<1>2. session \in 0 .. MaxSessions /\ session < MaxSessions
  BY <1>1 DEF CountType, Session, Preparing
<1>3. session + 1 \in 0 .. MaxSessions
  BY <1>2, PipelineAssumption, OneMore, Zenon
<1>4. session' \in Session
  BY <1>1, <1>3, Zenon DEF Session
<1>. QED
  BY <1>1, <1>4, OpenFileEffect

(* Every step on the store is one of these.                                *)
LEMMA StoreSteps ==
    ASSUME CountType, StoreType, [Next]_vars
    PROVE  \/ UNCHANGED store
           \/ WriterWrite \/ WriterPages \/ WriterRename
           \/ Dropped /\ (WriterFails \/ WriterEnd)
           \/ Dropped /\ accepted = << >> /\ (CreateAudioFails \/ Unwind)
           \/ WriterBegin /\ \E n \in Name : Opened(n, session)
           \/ StartBegin /\ \E n \in Name : Opened(n, session')
<1>1. CASE WriterBegin
  <2>1. session \in Session
    BY DEF CountType
  <2>. QED
    BY <1>1, <2>1, OpenFileEffect DEF WriterBegin
<1>2. CASE StartBegin
  BY <1>2, StartOpens
<1>3. CASE WriterFails
  <2>1. UNCHANGED store \/ GiveUp
    BY <1>3, Zenon DEF WriterFails
  <2>. QED
    BY <1>3, <2>1, GiveUpEffect
<1>4. CASE WriterEnd
  <2>1. UNCHANGED store \/ GiveUp \/ Discard
    BY <1>4, Zenon DEF WriterEnd
  <2>. QED
    BY <1>4, <2>1, GiveUpEffect, DiscardEffect
<1>5. CASE CreateAudioFails \/ Unwind
  <2>1. Discard
    BY <1>5 DEF CreateAudioFails, Unwind
  <2>. QED
    BY <1>5, <2>1, DiscardEffect
<1>. QED
  BY <1>1, <1>2, <1>3, <1>4, <1>5, QueueChanges

(* The store's variables keep their types.                                 *)
FileRecord == [kind : {"absent", "partial", "final"}, packets : Seq(Packet)]

(* A file record keeps its type when its packets change.                   *)
LEMMA SetPackets ==
    ASSUME NEW r \in FileRecord, NEW q \in Seq(Packet)
    PROVE  [r EXCEPT !.packets = q] \in FileRecord
BY DEF FileRecord

(* A file record keeps its type when its kind changes.                     *)
LEMMA SetKind ==
    ASSUME NEW r \in FileRecord, NEW k \in {"absent", "partial", "final"}
    PROVE  [r EXCEPT !.kind = k] \in FileRecord
BY DEF FileRecord

(* The store's variables keep their types at every step.                   *)
LEMMA StoreTypeNext ==
    ASSUME CountType, QueueType, StoreType, CountType', [Next]_vars PROVE StoreType'
<1>. USE DEF FileRecord
<1>1. CASE UNCHANGED store
  BY <1>1 DEF StoreType, store
<1>2. CASE WriterWrite
  <2>1. /\ open \in Name /\ open' = open /\ UNCHANGED file_session
        /\ accepted' = Append(accepted, packet) /\ packet \in Packet
    BY <1>2 DEF WriterWrite, Log!LogAccept, StoreType, QueueType
  <2>2. PICK k \in Len(disk[open].packets) .. Len(accepted) :
           disk' = [disk EXCEPT ![open].packets = SubSeq(accepted, 1, k)]
    BY <1>2 DEF WriterWrite, Log!LogAccept, Log!Prefix
  <2>3. SubSeq(accepted, 1, k) \in Seq(Packet)
    BY <2>1, <2>2 DEF StoreType
  <2>4. disk' \in [Name -> FileRecord]
    BY <2>1, <2>2, <2>3 DEF StoreType
  <2>. QED
    BY <2>1, <2>4 DEF StoreType
<1>3. CASE WriterPages \/ WriterRename
  <2>1. /\ open \in Name /\ open' \in {open, NoName} /\ UNCHANGED file_session
        /\ accepted' = accepted \/ accepted' = << >>
    BY <1>3 DEF WriterPages, WriterRename, Log!LogFlush, Log!LogFinalize, StoreType
  <2>2. \/ disk' = [disk EXCEPT ![open].packets = accepted]
        \/ disk' = [disk EXCEPT ![open].kind = "final"]
    BY <1>3 DEF WriterPages, WriterRename, Log!LogFlush, Log!LogFinalize
  <2>3. disk' \in [Name -> FileRecord]
    BY <2>1, <2>2 DEF StoreType
  <2>4. accepted' \in Seq(Packet)
    <3>1. << >> \in Seq(Packet)
      OBVIOUS
    <3>2. accepted \in Seq(Packet)
      BY DEF StoreType
    <3>. QED
      BY <2>1, <3>1, <3>2, Zenon
  <2>5. open' \in Name \cup {NoName}
    BY <2>1
  <2>. QED
    BY <2>1, <2>3, <2>4, <2>5 DEF StoreType
<1>4. CASE Dropped
  <2>1. CASE open = NoName
    BY <1>4, <2>1 DEF Dropped, StoreType
  <2>2. CASE open # NoName
    <3>1. PICK q \in Seq(Packet) : Kept(q)
      BY <1>4, <2>2 DEF Dropped
    <3>2. /\ open \in Name /\ open' = NoName /\ accepted' = << >> /\ UNCHANGED file_session
      BY <1>4, <2>2 DEF Dropped, StoreType
    <3>3. Log!Absent \in FileRecord
      BY DEF Log!Absent
    <3>4. disk' \in [Name -> FileRecord]
      <4>1. CASE disk' = [disk EXCEPT ![open].packets = q]
        BY <3>1, <3>2, <4>1 DEF StoreType
      <4>2. CASE disk' = [disk EXCEPT ![open] = Log!Absent]
        <5>. HIDE DEF FileRecord
        <5>1. disk \in [Name -> FileRecord]
          BY DEF StoreType, FileRecord
        <5>. QED
          BY <3>2, <3>3, <4>2, <5>1
      <4>. QED
        BY <3>1, <4>1, <4>2 DEF Kept
    <3>. QED
      BY <3>2, <3>4 DEF StoreType
  <2>. QED
    BY <2>1, <2>2
<1>5. CASE \E n \in Name : (Opened(n, session) /\ UNCHANGED session) \/ Opened(n, session')
  <2>1. PICK n \in Name, s \in Session : Opened(n, s)
    BY <1>5 DEF CountType
  <2>2. open' \in Name /\ accepted' = << >> /\ file_session' \in [Name -> Session]
    BY <2>1 DEF Opened, StoreType
  <2>3. disk' \in [Name -> FileRecord]
    BY <2>1 DEF Opened, StoreType
  <2>. QED
    BY <2>2, <2>3 DEF StoreType
<1>. QED
  BY <1>1, <1>2, <1>3, <1>4, <1>5, StoreSteps DEF WriterBegin

-----------------------------------------------------------------------------
(* Where the store is open follows the tasks' places.                      *)
LEMMA OpenInvNext ==
    ASSUME PlaceType, PlaceInv, StoreType, CountType, OpenInv, [Next]_vars PROVE OpenInv'
<1>. USE DEF Creating, Looping, Checking, Splitting, Publishing, NoName
<1>1. CASE AudioTask
  <2>1. UNCHANGED <<app, writer, open, accepted>>
    BY <1>1, Zenon DEF AudioTask, AudioLoop, AudioCapture, AudioFails, AudioPublish, AudioExit,
       appVars, writerVars, store
  <2>. QED
    BY <2>1, Zenon DEF OpenInv
<1>2. CASE WriterTop \/ WriterReceive \/ WriterIdle \/ WriterExitCheck
  <2>1. /\ UNCHANGED <<app, open, accepted>>
        /\ writer \in {"top", "receive", "running?", "audio?", "queue?"}
        /\ writer' \in {"top", "receive", "write", "running?", "audio?", "queue?", "end"}
    BY <1>2 DEF WriterTop, WriterReceive, WriterIdle, WriterExitCheck, appVars, store
  <2>2. app \notin Creating
    BY <2>1 DEF PlaceInv, TasksExited
  <2>3. open # NoName
    BY <2>1 DEF OpenInv
  <2>. QED
    BY <2>1, <2>2, <2>3 DEF OpenInv
<1>3. CASE WriterWrite
  <2>1. /\ UNCHANGED <<app, open>> /\ open # NoName
        /\ writer = "write" /\ writer' \in {"split: pages", "top"}
    BY <1>3 DEF WriterWrite, Log!LogAccept, appVars
  <2>2. app \notin Creating
    BY <2>1 DEF PlaceInv, TasksExited
  <2>. QED
    BY <2>1, <2>2 DEF OpenInv
<1>4. CASE WriterPages
  <2>1. /\ UNCHANGED <<app, open>> /\ open # NoName
        /\ writer \in {"split: pages", "end: pages"} /\ writer' \in {"split: rename", "end: rename"}
    BY <1>4 DEF WriterPages, Log!LogFlush, appVars
  <2>2. app \notin Creating
    BY <2>1 DEF PlaceInv, TasksExited
  <2>. QED
    BY <2>1, <2>2 DEF OpenInv
<1>5. CASE WriterRename
  <2>1. /\ UNCHANGED app /\ open' = NoName /\ accepted' = << >>
        /\ writer \in {"split: rename", "end: rename"} /\ writer' \in {"split: begin", "wait"}
    BY <1>5 DEF WriterRename, Log!LogFinalize, appVars
  <2>2. app \notin Creating
    BY <2>1 DEF PlaceInv, TasksExited
  <2>. QED
    BY <2>1, <2>2 DEF OpenInv
<1>6. CASE WriterBegin
  <2>1. UNCHANGED app /\ writer = "split: begin" /\ writer' = "top"
    BY <1>6 DEF WriterBegin, appVars
  <2>2. open' # NoName
    <3>1. PICK n \in Name : Opened(n, session)
      BY <1>6, OpenFileEffect DEF WriterBegin, CountType
    <3>. QED
      BY <3>1 DEF Opened, Name
  <2>3. app \notin Creating
    BY <2>1 DEF PlaceInv, TasksExited
  <2>. QED
    BY <2>1, <2>2, <2>3 DEF OpenInv
<1>7. CASE WriterFails
  <2>1. UNCHANGED app /\ writer # "none" /\ writer' \in {"end", "wait", "publish: end", "publish: wait"}
    BY <1>7 DEF WriterFails, appVars
  <2>2. app \notin Creating
    BY <2>1 DEF PlaceInv, TasksExited
  <2>3. writer' \in {"wait", "publish: wait"} => open' = NoName
    <3>1. SUFFICES ASSUME writer' \in {"wait", "publish: wait"} PROVE open' = NoName
      OBVIOUS
    <3>2. GiveUp
      BY <1>7, <3>1 DEF WriterFails
    <3>. QED
      BY <3>2, GiveUpEffect DEF Dropped
  <2>4. open' = NoName => accepted' = << >>
    <3>1. UNCHANGED store \/ GiveUp
      BY <1>7, Zenon DEF WriterFails
    <3>. QED
      BY <3>1, GiveUpEffect DEF Dropped, OpenInv, store
  <2>. QED
    BY <2>1, <2>2, <2>3, <2>4 DEF OpenInv
<1>8. CASE WriterPublish
  <2>1. /\ UNCHANGED <<app, open, accepted>>
        /\ \/ writer = "publish: end" /\ writer' = "end"
           \/ writer = "publish: wait" /\ writer' = "wait"
    BY <1>8 DEF WriterPublish, appVars, store
  <2>2. app \notin Creating
    BY <2>1 DEF PlaceInv, TasksExited
  <2>. QED
    BY <2>1, <2>2 DEF OpenInv
<1>9. CASE WriterEnd
  <2>1. UNCHANGED app /\ writer = "end" /\ writer' \in {"wait", "end: pages"}
    BY <1>9 DEF WriterEnd, appVars
  <2>2. app \notin Creating
    BY <2>1 DEF PlaceInv, TasksExited
  <2>3. CASE writer' = "wait"
    <3>1. GiveUp \/ Discard
      BY <1>9, <2>3 DEF WriterEnd
    <3>2. open' = NoName /\ accepted' = << >>
      BY <3>1, GiveUpEffect, DiscardEffect DEF Dropped, OpenInv
    <3>. QED
      BY <2>1, <2>2, <2>3, <3>2 DEF OpenInv
  <2>4. CASE writer' = "end: pages"
    <3>1. accepted # << >> /\ UNCHANGED store
      BY <1>9, <2>4 DEF WriterEnd
    <3>2. open # NoName
      BY <3>1 DEF OpenInv
    <3>. QED
      BY <2>1, <2>2, <2>4, <3>1, <3>2 DEF OpenInv, store
  <2>. QED
    BY <2>1, <2>3, <2>4
<1>10. CASE WriterExit
  <2>1. UNCHANGED <<app, open, accepted>> /\ writer = "wait" /\ writer' = "none"
    BY <1>10 DEF WriterExit, store
  <2>2. open = NoName
    BY <2>1 DEF OpenInv
  <2>3. app \notin Creating
    BY <2>1 DEF PlaceInv, TasksExited
  <2>. QED
    BY <2>1, <2>2, <2>3 DEF OpenInv
<1>11. CASE StartBegin
  <2>1. PICK n \in Name : Opened(n, session')
    BY <1>11, StartOpens
  <2>2. open' # NoName /\ accepted' = << >>
    BY <2>1 DEF Opened, Name
  <2>3. UNCHANGED writer /\ writer = "none" /\ app' = "create audio"
    BY <1>11 DEF StartBegin, writerVars, PlaceInv, TasksExited, Preparing
  <2>. QED
    BY <2>2, <2>3 DEF OpenInv
<1>12. CASE CreateAudioFails \/ Unwind
  <2>1. Discard /\ UNCHANGED writer /\ app' = "idle" /\ writer = "none"
    BY <1>12 DEF CreateAudioFails, Unwind, Return, writerVars, PlaceInv, TasksExited
  <2>2. open' = NoName /\ accepted' = << >>
    BY <2>1, DiscardEffect DEF Dropped
  <2>. QED
    BY <2>1, <2>2 DEF OpenInv
<1>13. CASE CreateWriter
  <2>1. UNCHANGED <<open, accepted>> /\ writer' = "top" /\ app' = "idle" /\ app \in Creating
    BY <1>13 DEF CreateWriter, Return, store
  <2>2. open # NoName
    BY <2>1 DEF OpenInv
  <2>. QED
    BY <2>1, <2>2 DEF OpenInv
<1>14. CASE CreateAudio \/ CreateWriterFails
  <2>1. UNCHANGED <<open, accepted, writer>> /\ app' \in Creating /\ app \in Creating
    BY <1>14 DEF CreateAudio, CreateWriterFails, store, writerVars
  <2>. QED
    BY <2>1, Zenon DEF OpenInv
<1>15. CASE StartBusy \/ Start \/ WaitTimesOut \/ InitI2s \/ InitCodec \/ InitOpus \/ StartFails
  <2>1. UNCHANGED <<open, accepted, writer>> /\ app' \notin Creating /\ app \notin Creating
    BY <1>15 DEF StartBusy, Start, WaitTimesOut, InitI2s, InitCodec, InitOpus, StartFails, Return, Idle,
       store, writerVars
  <2>. QED
    BY <2>1, Zenon DEF OpenInv
<1>16. CASE Stop \/ StopReturns
  <2>1. UNCHANGED <<open, accepted, writer>> /\ app' \notin Creating /\ app \notin Creating
    BY <1>16 DEF Stop, StopReturns, Idle, store, writerVars
  <2>. QED
    BY <2>1, Zenon DEF OpenInv
<1>17. CASE UNCHANGED vars
  <2>1. UNCHANGED <<app, writer, open, accepted>>
    BY <1>17 DEF vars, appVars, writerVars, store
  <2>. QED
    BY <2>1, Zenon DEF OpenInv
<1>. QED
  BY <1>1, <1>2, <1>3, <1>4, <1>5, <1>6, <1>7, <1>8, <1>9, <1>10, <1>11, <1>12, <1>13, <1>14,
     <1>15, <1>16, <1>17, Zenon DEF Next, WriterTask, AppTask

-----------------------------------------------------------------------------
(* What the steps do to the contents of the files.                         *)
SameFiles == UNCHANGED file_session /\ \A n \in Name : Content(n)' = Content(n)

(* What a file holds is a sequence of packets.                             *)
LEMMA ContentType == ASSUME StoreType, NEW n \in Name PROVE Content(n) \in Seq(Packet)
BY DEF StoreType, Content

(* And so it is after a step that keeps the types.                         *)
LEMMA ContentTypeNext == ASSUME StoreType', NEW n \in Name PROVE Content(n)' \in Seq(Packet)
BY DEF StoreType, Content

(* A step that leaves the store alone leaves the contents alone.           *)
LEMMA StoreSame == ASSUME UNCHANGED store PROVE SameFiles
BY DEF SameFiles, store, Content

(* Finishing a file moves its packets to the medium and changes none.      *)
LEMMA CloseEffect ==
    ASSUME StoreType, WriterPages \/ WriterRename
    PROVE  SameFiles /\ open \in Name /\ open # NoName /\ open' \in {open, NoName}
<1>1. CASE WriterPages
  BY <1>1 DEF WriterPages, Log!LogFlush, StoreType, SameFiles, Content
<1>2. CASE WriterRename
  <2>1. /\ open # NoName /\ disk[open].packets = accepted /\ open' = NoName /\ UNCHANGED file_session
        /\ disk' = [disk EXCEPT ![open].kind = "final"]
    BY <1>2 DEF WriterRename, Log!LogFinalize
  <2>2. open \in Name
    BY <2>1 DEF StoreType
  <2>3. ASSUME NEW n \in Name PROVE disk'[n].packets = disk[n].packets
    BY <2>1 DEF StoreType
  <2>4. ASSUME NEW n \in Name PROVE Content(n)' = Content(n)
    BY <2>1, <2>3 DEF Content, Name, NoName
  <2>. QED
    BY <2>1, <2>2, <2>4 DEF SameFiles
<1>. QED
  BY <1>1, <1>2

(* Writing a packet puts it at the end of the open file.                   *)
LEMMA WriteEffect ==
    ASSUME StoreType, QueueType, WriterWrite
    PROVE  /\ open \in Name /\ open' = open /\ packet \in Packet /\ UNCHANGED file_session
           /\ \A n \in Name : Content(n)' = IF n = open THEN Append(Content(n), packet) ELSE Content(n)
<1>1. /\ open \in Name /\ open # NoName /\ open' = open /\ UNCHANGED file_session
      /\ accepted' = Append(accepted, packet) /\ packet \in Packet
  BY DEF WriterWrite, Log!LogAccept, StoreType, QueueType
<1>2. PICK k \in Len(disk[open].packets) .. Len(accepted) :
         disk' = [disk EXCEPT ![open].packets = SubSeq(accepted, 1, k)]
  BY DEF WriterWrite, Log!LogAccept, Log!Prefix
<1>3. ASSUME NEW n \in Name, n # open PROVE disk'[n] = disk[n]
  BY <1>2, <1>3 DEF StoreType
<1>4. ASSUME NEW n \in Name
      PROVE  Content(n)' = IF n = open THEN Append(Content(n), packet) ELSE Content(n)
  BY <1>1, <1>3 DEF Content
<1>. QED
  BY <1>1, <1>4

(* Giving a file up only shortens it.                                      *)
LEMMA DropEffect ==
    ASSUME StoreType, Dropped, NEW n \in Name
    PROVE  /\ n # open => Content(n)' = Content(n)
           /\ Len(Content(n)') <= Len(Content(n))
           /\ \A i \in 1 .. Len(Content(n)') : Content(n)'[i] = Content(n)[i]
<1>1. n # NoName /\ open' = NoName
  BY DEF Dropped, Name, NoName
<1>2. Content(n)' = disk'[n].packets
  BY <1>1 DEF Content
<1>3. CASE n # open
  <2>1. disk'[n] = disk[n]
    <3>1. CASE open = NoName
      BY <3>1 DEF Dropped
    <3>2. CASE open # NoName
      <4>1. PICK q \in Seq(Packet) : Kept(q)
        BY <3>2 DEF Dropped
      <4>. QED
        BY <4>1, <1>3 DEF Kept, StoreType
    <3>. QED
      BY <3>1, <3>2
  <2>2. Content(n) = disk[n].packets /\ Content(n) \in Seq(Packet)
    BY <1>3, ContentType DEF Content
  <2>3. Content(n)' = Content(n)
    BY <1>2, <2>1, <2>2
  <2>. QED
    BY <1>3, <2>2, <2>3
<1>4. CASE n = open
  <2>1. PICK q \in Seq(Packet) : Kept(q)
    BY <1>1, <1>4 DEF Dropped
  <2>2. disk'[n].packets = q
    BY <1>4, <2>1 DEF Kept, StoreType, Log!Absent
  <2>3. Content(n) = accepted
    BY <1>4 DEF Content
  <2>. QED
    BY <1>2, <1>4, <2>1, <2>2, <2>3 DEF Kept
<1>. QED
  BY <1>3, <1>4

(* Dropping a file that holds nothing loses nothing.                       *)
LEMMA DropNothing ==
    ASSUME StoreType, Dropped, accepted = << >> PROVE SameFiles
<1>1. ASSUME NEW n \in Name PROVE Content(n)' = Content(n)
  <2>1. CASE n # open
    BY <2>1, DropEffect
  <2>2. CASE n = open
    <3>1. Content(n) = << >>
      BY <2>2 DEF Content
    <3>2. PICK q \in Seq(Packet) : Kept(q)
      BY <2>2 DEF Dropped, Name, NoName
    <3>3. disk'[n].packets = q /\ Len(q) <= 0
      BY <2>2, <3>2 DEF Kept, StoreType, Log!Absent
    <3>4. q = << >>
      BY <3>3
    <3>. QED
      BY <2>2, <3>1, <3>3, <3>4 DEF Content, Dropped, Name, NoName
  <2>. QED
    BY <2>1, <2>2
<1>. QED
  BY <1>1 DEF SameFiles, Dropped

(* Opening a file adds an empty one and changes no other.                  *)
LEMMA OpenedEffect ==
    ASSUME StoreType, NEW n \in Name, NEW s \in Session, Opened(n, s)
    PROVE  /\ open' = n /\ file_session'[n] = s /\ Content(n)' = << >>
           /\ \A m \in Name : m # n => Content(m)' = Content(m) /\ file_session'[m] = file_session[m]
<1>1. /\ open = NoName /\ open' = n /\ accepted' = << >>
      /\ disk' = [disk EXCEPT ![n].kind = "partial"]
      /\ file_session' = [file_session EXCEPT ![n] = s]
  BY DEF Opened
<1>2. ASSUME NEW m \in Name, m # n PROVE disk'[m] = disk[m] /\ file_session'[m] = file_session[m]
  BY <1>1, <1>2 DEF StoreType
<1>3. ASSUME NEW m \in Name, m # n PROVE Content(m)' = Content(m)
  <2>1. m # NoName
    BY DEF Name, NoName
  <2>. QED
    BY <1>1, <1>2, <1>3, <2>1 DEF Content
<1>. QED
  BY <1>1, <1>2, <1>3 DEF StoreType, Content

-----------------------------------------------------------------------------
(* The session only changes when a start begins one.                       *)
LEMMA SessionChanges ==
    ASSUME [Next]_vars PROVE UNCHANGED session \/ StartBegin
BY QueueChanges DEF AudioCapture, WriterReceive, WriterEnd, Unwind

(* The order of the files is about whose they are and which is open.       *)
LEMMA OrderSame ==
    ASSUME OrderInv, UNCHANGED <<session, file_session>>, open' \in {open, NoName} PROVE OrderInv'
BY DEF OrderInv, LastFile

(* The next file comes after all others and belongs to the latest session. *)
LEMMA OrderOpened ==
    ASSUME CountType, StoreType, OrderInv, NEW n \in Name, session \in Nat, session' \in Session,
           session' >= session, session' # 0, Opened(n, session')
    PROVE  OrderInv'
<1>1. /\ file_session[n] = 0 /\ open' = n
      /\ file_session' = [file_session EXCEPT ![n] = session']
      /\ \A k \in Name : k < n => file_session[k] # 0
  BY DEF Opened
<1>2. \A m \in Name : file_session[m] \in Nat /\ file_session[m] <= session
  BY DEF OrderInv, StoreType, Session
<1>3. \A m \in Name : n < m => file_session[m] = 0
  BY <1>1 DEF OrderInv
<1>4. \A m \in Name : m # n => file_session'[m] = file_session[m]
  BY <1>1 DEF StoreType
<1>5. file_session'[n] = session'
  BY <1>1 DEF StoreType
<1>6. session' \in Nat
  BY DEF Session
<1>7. \A m \in Name : file_session'[m] <= session'
  BY <1>2, <1>4, <1>5, <1>6
<1>8. ASSUME NEW l \in Name, NEW m \in Name, l < m, file_session'[m] # 0
      PROVE  file_session'[l] # 0 /\ file_session'[l] <= file_session'[m]
  <2>. USE DEF Name
  <2>1. CASE m = n
    BY <1>1, <1>2, <1>4, <1>5, <1>6, <1>8, <2>1
  <2>2. CASE m # n /\ l # n
    <3>1. file_session[m] # 0
      BY <1>4, <1>8, <2>2
    <3>2. file_session[l] # 0 /\ file_session[l] <= file_session[m]
      BY <3>1, <1>8 DEF OrderInv
    <3>. QED
      BY <1>4, <2>2, <3>2
  <2>3. CASE m # n /\ l = n
    BY <1>3, <1>4, <1>8, <2>3
  <2>. QED
    BY <2>1, <2>2, <2>3
<1>9. LastFile(n)'
  <2>1. CASE n # MaxFiles
    <3>1. n + 1 \in Name /\ n < n + 1 /\ n + 1 # n
      BY <2>1, PipelineAssumption DEF Name
    <3>2. file_session'[n + 1] = 0
      BY <1>3, <1>4, <3>1
    <3>. QED
      BY <3>2 DEF LastFile
  <2>. QED
    BY <2>1 DEF LastFile
<1>10. (open # NoName => file_session[open] = session /\ LastFile(open) /\ session # 0)'
  BY <1>1, <1>5, <1>9 DEF LastFile
<1>. QED
  BY <1>1, <1>7, <1>8, <1>10 DEF OrderInv

(* The files of the sessions follow one another.                           *)
LEMMA OrderInvNext ==
    ASSUME PlaceType, CountType, CountType', StoreType, QueueInv, QueueType, OrderInv, [Next]_vars
    PROVE  OrderInv'
<1>0. session \in Nat /\ session' \in Session
  BY DEF CountType, Session
<1>1. CASE UNCHANGED store /\ UNCHANGED session
  BY <1>1, OrderSame DEF store
<1>2. CASE WriterWrite
  <2>1. UNCHANGED <<session, file_session, open>>
    BY <1>2, WriteEffect DEF WriterWrite
  <2>. QED
    BY <2>1, OrderSame
<1>3. CASE WriterPages \/ WriterRename
  <2>1. UNCHANGED session
    BY <1>3 DEF WriterPages, WriterRename
  <2>. QED
    BY <1>3, <2>1, CloseEffect, OrderSame DEF SameFiles
<1>4. CASE Dropped /\ UNCHANGED session
  BY <1>4, OrderSame DEF Dropped
<1>5. CASE WriterBegin
  <2>1. PICK n \in Name : Opened(n, session)
    BY <1>5, <1>0, OpenFileEffect DEF WriterBegin, CountType
  <2>2. UNCHANGED session /\ session # 0
    BY <1>5 DEF WriterBegin, QueueInv
  <2>. QED
    BY <1>0, <2>1, <2>2, OrderOpened
<1>6. CASE StartBegin
  <2>1. PICK n \in Name : Opened(n, session')
    BY <1>6, StartOpens
  <2>2. session' = session + 1
    BY <1>6 DEF StartBegin
  <2>. QED
    BY <1>0, <2>1, <2>2, OrderOpened
<1>. QED
  BY <1>1, <1>2, <1>3, <1>4, <1>5, <1>6, StoreSteps, SessionChanges

-----------------------------------------------------------------------------
(* A packet that is taken out of the queue is the oldest one.              *)
LEMMA QueueInvNext ==
    ASSUME PlaceType, PlaceInv, CountType, QueueType, StoreType, OpenInv, OrderInv, QueueInv, [Next]_vars
    PROVE  QueueInv'
<1>1. /\ session \in Nat /\ seq \in Nat /\ write_queue \in Seq(Packet)
      /\ packet \in Packet \cup {NoPacket}
  BY PipelineAssumption DEF CountType, Session, QueueType
<1>2. (\A k \in 1 .. Len(write_queue) : /\ write_queue[k].session = session
                                        /\ write_queue[k].seq = seq - Len(write_queue) + k)'
  <2>1. CASE UNCHANGED <<write_queue, session, seq>>
    BY <2>1 DEF QueueInv
  <2>2. CASE AudioCapture
    <3>1. PICK p \in Packet : /\ p.session = session /\ p.seq = seq + 1
                              /\ write_queue' = Append(write_queue, p)
      BY <2>2, CaptureAppends
    <3>2. session' = session /\ seq' = seq + 1
      BY <2>2 DEF AudioCapture
    <3>3. ASSUME NEW k \in 1 .. Len(write_queue')
          PROVE  /\ write_queue'[k].session = session'
                 /\ write_queue'[k].seq = seq' - Len(write_queue') + k
      <4>1. Len(write_queue') = Len(write_queue) + 1
        BY <1>1, <3>1
      <4>2. CASE k = Len(write_queue) + 1
        <5>1. write_queue'[k] = p
          BY <1>1, <3>1, <4>2
        <5>. QED
          BY <1>1, <3>1, <3>2, <4>1, <4>2, <5>1
      <4>3. CASE k \in 1 .. Len(write_queue)
        <5>1. write_queue'[k] = write_queue[k]
          BY <1>1, <3>1, <4>3
        <5>2. write_queue[k].session = session /\ write_queue[k].seq = seq - Len(write_queue) + k
          BY <4>3 DEF QueueInv
        <5>. QED
          BY <1>1, <3>2, <4>1, <4>3, <5>1, <5>2
      <4>. QED
        BY <1>1, <4>1, <4>2, <4>3
    <3>. QED
      BY <3>3
  <2>3. CASE WriterReceive
    <3>1. write_queue # << >> /\ write_queue' = Tail(write_queue) /\ session' = session /\ seq' = seq
      BY <2>3 DEF WriterReceive
    <3>2. Len(write_queue') = Len(write_queue) - 1 /\ Len(write_queue) \in Nat
      BY <1>1, <3>1
    <3>3. ASSUME NEW k \in 1 .. Len(write_queue')
          PROVE  /\ write_queue'[k].session = session'
                 /\ write_queue'[k].seq = seq' - Len(write_queue') + k
      <4>1. write_queue'[k] = write_queue[k + 1] /\ k + 1 \in 1 .. Len(write_queue)
        BY <1>1, <3>1, <3>2
      <4>2. /\ write_queue[k + 1].session = session
            /\ write_queue[k + 1].seq = seq - Len(write_queue) + (k + 1)
        BY <4>1 DEF QueueInv
      <4>. QED
        BY <1>1, <3>1, <3>2, <4>1, <4>2
    <3>. QED
      BY <3>3
  <2>4. CASE write_queue' = << >>
    BY <2>4
  <2>. QED
    BY <2>1, <2>2, <2>3, <2>4, QueueChanges DEF WriterEnd, StartBegin, Unwind
<1>3. packet' # NoPacket => packet'.session = session' /\ packet'.seq = seq' - Len(write_queue')
  <2>1. CASE WriterReceive
    <3>1. /\ write_queue # << >> /\ packet' = write_queue[1] /\ write_queue' = Tail(write_queue)
          /\ session' = session /\ seq' = seq
      BY <1>1, <2>1 DEF WriterReceive
    <3>2. Len(write_queue') = Len(write_queue) - 1 /\ 1 \in 1 .. Len(write_queue)
      BY <1>1, <3>1
    <3>3. write_queue[1].session = session /\ write_queue[1].seq = seq - Len(write_queue) + 1
      BY <3>2 DEF QueueInv
    <3>. QED
      BY <1>1, <3>1, <3>2, <3>3
  <2>2. CASE WriterWrite \/ WriterFails
    BY <2>2 DEF WriterWrite, WriterFails
  <2>3. CASE UNCHANGED packet /\ writer = "write"
    <3>1. CASE UNCHANGED <<write_queue, session, seq>>
      BY <2>3, <3>1 DEF QueueInv
    <3>2. CASE AudioCapture
      <4>1. PICK p \in Packet : write_queue' = Append(write_queue, p)
        BY <3>2, CaptureAppends
      <4>2. session' = session /\ seq' = seq + 1
        BY <3>2 DEF AudioCapture
      <4>3. Len(write_queue') = Len(write_queue) + 1
        BY <1>1, <4>1
      <4>. QED
        BY <1>1, <2>3, <4>2, <4>3 DEF QueueInv
    <3>. QED
      BY <2>3, <3>1, <3>2, QueueChanges
         DEF WriterReceive, WriterEnd, StartBegin, Unwind, PlaceInv, TasksExited, Preparing
  <2>4. CASE UNCHANGED packet /\ writer # "write"
    BY <2>4 DEF QueueType
  <2>. QED
    BY <2>1, <2>2, <2>3, <2>4, QueueChanges
<1>4. audio' # "none" \/ writer' # "none" => session' # 0
  <2>1. session # 0 => session' # 0
    <3>1. session' = session \/ session' = session + 1
      BY SessionChanges DEF StartBegin
    <3>. QED
      BY <1>1, <3>1
  <2>2. CASE CreateAudio \/ CreateWriter
    <3>1. app \in Creating
      BY <2>2 DEF CreateAudio, CreateWriter, Creating
    <3>. QED
      BY <2>1, <3>1 DEF OpenInv, OrderInv
  <2>3. CASE (audio' # "none" => audio # "none") /\ (writer' # "none" => writer # "none")
    BY <2>1, <2>3 DEF QueueInv
  <2>4. CASE AudioTask
    BY <2>3, <2>4 DEF AudioTask, AudioLoop, AudioCapture, AudioFails, AudioPublish, AudioExit, writerVars
  <2>5. CASE WriterTask
    BY <2>3, <2>5 DEF WriterTask, WriterTop, WriterReceive, WriterIdle, WriterExitCheck, WriterWrite,
       WriterPages, WriterRename, WriterBegin, WriterFails, WriterPublish, WriterEnd, WriterExit, audioVars
  <2>6. CASE AppTask
    BY <2>2, <2>3, <2>6, Zenon DEF AppTask, StartBusy, Start, WaitTimesOut, InitI2s, InitCodec, InitOpus,
       StartFails, StartBegin, CreateAudioFails, CreateWriterFails, Unwind, Stop, StopReturns,
       audioVars, writerVars
  <2>7. CASE UNCHANGED vars
    BY <2>3, <2>7 DEF vars, audioVars, writerVars
  <2>. QED
    BY <2>4, <2>5, <2>6, <2>7 DEF Next
<1>. QED
  BY <1>2, <1>3, <1>4 DEF QueueInv

-----------------------------------------------------------------------------
(* A file keeps its place in the numbering when it, the file before it and *)
(* what belongs to whom stay as they are.                                  *)
LEMMA BeforeSame ==
    ASSUME NEW n \in Name, file_session'[n] = file_session[n],
           n # 1 => file_session'[n - 1] = file_session[n - 1] /\ Content(n - 1)' = Content(n - 1)
    PROVE  (FirstFile(n)' <=> FirstFile(n)) /\ Before(n)' = Before(n)
<1>1. FirstFile(n)' <=> FirstFile(n)
  BY DEF FirstFile
<1>2. CASE FirstFile(n)
  BY <1>1, <1>2 DEF Before
<1>3. CASE ~ FirstFile(n)
  <2>1. n # 1 /\ ~ FirstFile(n)'
    BY <1>1, <1>3 DEF FirstFile
  <2>2. Content(n - 1)' = Content(n - 1)
    BY <2>1
  <2>. QED
    BY <1>3, <2>1, <2>2 DEF Before
<1>. QED
  BY <1>1, <1>2, <1>3

(* The same for every file when no contents change.                        *)
LEMMA BeforeKept ==
    ASSUME SameFiles, NEW n \in Name
    PROVE  /\ (FirstFile(n)' <=> FirstFile(n)) /\ Before(n)' = Before(n)
           /\ Content(n)' = Content(n)
           /\ n # 1 => Content(n - 1)' = Content(n - 1)
<1>1. n # 1 => n - 1 \in Name
  BY PipelineAssumption DEF Name
<1>. QED
  BY <1>1, BeforeSame DEF SameFiles

(* The numbering through the files is about their contents only.           *)
LEMMA FilesSame == ASSUME FilesInv, SameFiles PROVE FilesInv'
<1>1. ASSUME NEW n \in Name, file_session'[n] # 0 PROVE FileInv(n)'
  <2>1. FileInv(n) /\ file_session'[n] = file_session[n]
    BY <1>1 DEF FilesInv, SameFiles
  <2>2. /\ FirstFile(n)' <=> FirstFile(n)
        /\ Before(n)' = Before(n) /\ Content(n)' = Content(n)
        /\ n # 1 => Content(n - 1)' = Content(n - 1)
    BY BeforeKept
  <2>3. (FirstFile(n) \/ Content(n - 1) # << >>)'
    BY <2>1, <2>2 DEF FileInv, FirstFile
  <2>4. ASSUME NEW k \in 1 .. Len(Content(n)')
        PROVE  Content(n)'[k].session = file_session'[n] /\ Content(n)'[k].seq = Before(n)' + k
    BY <2>1, <2>2 DEF FileInv
  <2>. QED
    BY <2>3, <2>4 DEF FileInv
<1>. QED
  BY <1>1 DEF FilesInv

(* The file being written is the last one: nothing is numbered after it.   *)
LEMMA NothingAfter ==
    ASSUME OrderInv, NEW n \in Name, n # 1, file_session[n] # 0, open # NoName
    PROVE  n - 1 # open
<1>1. SUFFICES ASSUME n - 1 = open PROVE FALSE
  OBVIOUS
<1>2. LastFile(n - 1)
  BY <1>1 DEF OrderInv
<1>3. n - 1 # MaxFiles /\ n = (n - 1) + 1
  BY PipelineAssumption DEF Name
<1>. QED
  BY <1>2, <1>3 DEF LastFile

(* A file comes after a number.                                            *)
LEMMA BeforeInt ==
    ASSUME StoreType, FilesInv, NEW n \in Name, file_session[n] # 0
    PROVE  Before(n) \in Int
<1>1. CASE FirstFile(n)
  BY <1>1 DEF Before
<1>2. CASE ~ FirstFile(n)
  <2>1. n - 1 \in Name
    BY <1>2, PipelineAssumption DEF Name, FirstFile
  <2>2. Content(n - 1) # << >> /\ Content(n - 1) \in Seq(Packet)
    BY <1>2, <2>1, ContentType DEF FilesInv, FileInv
  <2>3. Content(n - 1)[Len(Content(n - 1))] \in Packet
    BY <2>2
  <2>4. Content(n - 1)[Len(Content(n - 1))].seq \in Int
    BY <2>3, PipelineAssumption DEF Packet
  <2>. QED
    BY <1>2, <2>4 DEF Before
<1>. QED
  BY <1>1, <1>2

(* The packets of a session are numbered through its files: the packet in  *)
(* hand is the one after the last that was written.                        *)
LEMMA FilesInvNext ==
    ASSUME PlaceType, CountType, CountType', QueueType, StoreType, StoreType', OpenInv, OrderInv, FilesInv,
           QueueInv, StepInv, [Next]_vars
    PROVE  FilesInv'
<1>0. session \in Nat /\ session' \in Session /\ session \in Session
  BY DEF CountType, Session
<1>1. CASE UNCHANGED store
  BY <1>1, StoreSame, FilesSame
<1>2. CASE WriterWrite
  <2>1. /\ open \in Name /\ open' = open /\ packet \in Packet /\ UNCHANGED file_session
        /\ \A n \in Name : Content(n)' = IF n = open THEN Append(Content(n), packet) ELSE Content(n)
    BY <1>2, WriteEffect
  <2>2. open # NoName /\ writer = "write" /\ packet # NoPacket
    BY <1>2 DEF WriterWrite, Log!LogAccept, QueueType
  <2>3. PICK m \in Name : IsTail(m)
    BY <2>2 DEF StepInv, Lossless, Looping
  <2>4. m = open
    BY <2>2, <2>3 DEF IsTail
  <2>5. packet.session = session /\ packet.seq = seq - Len(write_queue)
    BY <2>2 DEF QueueInv
  <2>6. Unsaved = Len(write_queue) + 1
    BY <2>2 DEF Unsaved
  <2>7. ASSUME NEW n \in Name, file_session'[n] # 0 PROVE FileInv(n)'
    <3>1. FileInv(n) /\ file_session'[n] = file_session[n] /\ file_session[n] # 0
      BY <2>1, <2>7 DEF FilesInv
    <3>2. n # 1 => n - 1 \in Name /\ n - 1 # open
      BY <2>2, <3>1, NothingAfter, PipelineAssumption DEF Name
    <3>3. n # 1 => file_session'[n - 1] = file_session[n - 1] /\ Content(n - 1)' = Content(n - 1)
      BY <2>1, <3>2
    <3>4. (FirstFile(n)' <=> FirstFile(n)) /\ Before(n)' = Before(n)
      BY <3>1, <3>3, BeforeSame
    <3>5. (FirstFile(n) \/ Content(n - 1) # << >>)'
      BY <3>1, <3>3, <3>4 DEF FileInv, FirstFile
    <3>6. CASE n # open
      <4>1. Content(n)' = Content(n)
        BY <2>1, <3>6
      <4>. QED
        BY <3>1, <3>4, <3>5, <4>1 DEF FileInv
    <3>7. CASE n = open
      <4>1. Content(n)' = Append(Content(n), packet) /\ Content(n) \in Seq(Packet)
        BY <2>1, <3>7, ContentType
      <4>2. Len(Content(n)') = Len(Content(n)) + 1 /\ Len(Content(n)) \in Nat
        BY <2>1, <4>1
      <4>3. Before(n) + Len(Content(n)) + (Len(write_queue) + 1) = seq /\ file_session[n] = session
        BY <2>3, <2>4, <2>6, <3>7 DEF IsTail
      <4>4. seq \in Nat /\ Len(write_queue) \in Nat
        BY PipelineAssumption DEF CountType, QueueType
      <4>5. Before(n) \in Int
        BY <3>1, BeforeInt
      <4>6. packet.seq = Before(n) + (Len(Content(n)) + 1)
        BY <2>5, <4>2, <4>3, <4>4, <4>5
      <4>7. ASSUME NEW k \in 1 .. Len(Content(n)')
            PROVE  Content(n)'[k].session = file_session'[n] /\ Content(n)'[k].seq = Before(n)' + k
        <5>1. CASE k = Len(Content(n)) + 1
          <6>1. Content(n)'[k] = packet
            BY <2>1, <4>1, <5>1
          <6>. QED
            BY <2>5, <3>1, <3>4, <4>3, <4>6, <5>1, <6>1
        <5>2. CASE k \in 1 .. Len(Content(n))
          <6>1. Content(n)'[k] = Content(n)[k]
            BY <2>1, <4>1, <5>2
          <6>. QED
            BY <3>1, <3>4, <5>2, <6>1 DEF FileInv
        <5>. QED
          BY <4>2, <5>1, <5>2
      <4>. QED
        BY <3>5, <4>7 DEF FileInv
    <3>. QED
      BY <3>6, <3>7
  <2>. QED
    BY <2>7 DEF FilesInv
<1>3. CASE WriterPages \/ WriterRename
  BY <1>3, CloseEffect, FilesSame
<1>4. CASE Dropped
  <2>1. CASE open = NoName
    <3>1. UNCHANGED store
      BY <1>4, <2>1 DEF Dropped, store
    <3>. QED
      BY <3>1, StoreSame, FilesSame
  <2>2. CASE open # NoName
    <3>1. ASSUME NEW n \in Name, file_session'[n] # 0 PROVE FileInv(n)'
      <4>1. FileInv(n) /\ UNCHANGED file_session /\ file_session[n] # 0
        BY <1>4, <3>1 DEF FilesInv, Dropped
      <4>2. n # 1 => n - 1 \in Name /\ n - 1 # open
        BY <2>2, <4>1, NothingAfter, PipelineAssumption DEF Name
      <4>3. n # 1 => file_session'[n - 1] = file_session[n - 1] /\ Content(n - 1)' = Content(n - 1)
        BY <1>4, <4>1, <4>2, DropEffect
      <4>4. (FirstFile(n)' <=> FirstFile(n)) /\ Before(n)' = Before(n)
        BY <4>1, <4>3, BeforeSame
      <4>5. (FirstFile(n) \/ Content(n - 1) # << >>)'
        BY <4>1, <4>3, <4>4 DEF FileInv, FirstFile
      <4>6. /\ Len(Content(n)') <= Len(Content(n)) /\ Len(Content(n)) \in Nat /\ Len(Content(n)') \in Nat
            /\ \A i \in 1 .. Len(Content(n)') : Content(n)'[i] = Content(n)[i]
        BY <1>4, DropEffect, ContentType, ContentTypeNext
      <4>7. ASSUME NEW k \in 1 .. Len(Content(n)')
            PROVE  Content(n)'[k].session = file_session'[n] /\ Content(n)'[k].seq = Before(n)' + k
        <5>1. Content(n)'[k] = Content(n)[k] /\ k \in 1 .. Len(Content(n))
          BY <4>6
        <5>. QED
          BY <4>1, <4>4, <5>1 DEF FileInv
      <4>. QED
        BY <4>5, <4>7 DEF FileInv
    <3>. QED
      BY <3>1 DEF FilesInv
  <2>. QED
    BY <2>1, <2>2
<1>5. CASE WriterBegin \/ StartBegin
  <2>1. PICK n \in Name : Opened(n, session')
    BY <1>0, <1>5, OpenFileEffect, StartOpens DEF WriterBegin
  <2>2. /\ open' = n /\ file_session'[n] = session' /\ Content(n)' = << >>
        /\ \A m \in Name : m # n => Content(m)' = Content(m) /\ file_session'[m] = file_session[m]
    BY <1>0, <2>1, OpenedEffect
  <2>3. file_session[n] = 0 /\ \A k \in Name : k < n => file_session[k] # 0
    BY <2>1 DEF Opened
  <2>4. ASSUME NEW m \in Name, m # n, file_session'[m] # 0 PROVE FileInv(m)'
    <3>1. FileInv(m) /\ file_session'[m] = file_session[m] /\ file_session[m] # 0
      BY <2>2, <2>4 DEF FilesInv
    <3>2. m < n
      BY <2>3, <2>4, <3>1 DEF OrderInv, Name
    <3>3. m # 1 => m - 1 \in Name /\ m - 1 # n
      BY <3>2, PipelineAssumption DEF Name
    <3>4. m # 1 => file_session'[m - 1] = file_session[m - 1] /\ Content(m - 1)' = Content(m - 1)
      BY <2>2, <3>3
    <3>5. (FirstFile(m)' <=> FirstFile(m)) /\ Before(m)' = Before(m)
      BY <3>1, <3>4, BeforeSame
    <3>6. (FirstFile(m) \/ Content(m - 1) # << >>)'
      BY <3>1, <3>4, <3>5 DEF FileInv, FirstFile
    <3>7. Content(m)' = Content(m)
      BY <2>2, <2>4
    <3>. QED
      BY <3>1, <3>5, <3>6, <3>7 DEF FileInv
  <2>5. FileInv(n)'
    <3>1. (FirstFile(n) \/ Content(n - 1) # << >>)'
      <4>1. CASE n = 1
        BY <4>1 DEF FirstFile
      <4>2. CASE n # 1
        <5>1. n - 1 \in Name /\ n - 1 # n /\ n - 1 < n
          BY <4>2, PipelineAssumption DEF Name
        <5>2. /\ file_session'[n - 1] = file_session[n - 1] /\ file_session[n - 1] # 0
              /\ Content(n - 1)' = Content(n - 1)
          BY <2>2, <2>3, <5>1
        <5>3. CASE StartBegin
          <6>1. session' = session + 1 /\ file_session[n - 1] <= session /\ file_session[n - 1] \in Nat
            <7>1. session' = session + 1
              BY <5>3 DEF StartBegin
            <7>2. file_session[n - 1] <= session /\ file_session[n - 1] \in Nat
              BY <5>1 DEF OrderInv, StoreType, Session
            <7>. QED
              BY <7>1, <7>2
          <6>2. file_session[n - 1] # session'
            BY <1>0, <6>1
          <6>3. file_session'[n - 1] # file_session'[n]
            BY <2>2, <5>2, <6>2
          <6>. QED
            BY <6>3 DEF FirstFile
        <5>4. CASE WriterBegin
          <6>1. writer = "split: begin"
            BY <5>4 DEF WriterBegin
          <6>2. PICK m \in Name : IsTail(m)
            BY <6>1 DEF StepInv, Lossless, Looping, Splitting
          <6>3. m = n - 1
            <7>1. file_session[m] # 0 /\ LastFile(m)
              BY <6>2 DEF IsTail
            <7>2. m < n
              BY <2>3, <7>1 DEF OrderInv, Name
            <7>3. ~ (m < n - 1)
              <8>1. SUFFICES ASSUME m < n - 1 PROVE FALSE
                OBVIOUS
              <8>2. m # MaxFiles /\ m + 1 \in Name /\ m + 1 < n
                BY <8>1, PipelineAssumption DEF Name
              <8>. QED
                BY <2>3, <7>1, <8>2 DEF LastFile
            <7>. QED
              BY <7>2, <7>3 DEF Name
          <6>4. Content(n - 1) # << >>
            BY <6>1, <6>2, <6>3 DEF IsTail
          <6>. QED
            BY <5>2, <6>4
        <5>. QED
          BY <1>5, <5>3, <5>4
      <4>. QED
        BY <4>1, <4>2
    <3>2. Len(Content(n)') = 0
      BY <2>2
    <3>3. 1 .. Len(Content(n)') = {}
      BY <3>2
    <3>. QED
      BY <3>1, <3>3 DEF FileInv
  <2>6. ASSUME NEW m \in Name, file_session'[m] # 0 PROVE FileInv(m)'
    BY <2>4, <2>5, <2>6
  <2>. QED
    BY <2>6 DEF FilesInv
<1>. QED
  BY <1>1, <1>2, <1>3, <1>4, <1>5, StoreSteps

-----------------------------------------------------------------------------
(* Only a start makes a recording that has lost nothing.                   *)
LEMMA LosslessBefore ==
    ASSUME FlagType, PlaceType, PlaceInv, [Next]_vars, Lossless', ~ StartBegin
    PROVE  /\ Lossless /\ ~ WriterFails /\ ~ CreateAudioFails /\ ~ Unwind
           /\ WriterEnd => failed = FALSE
<1>. USE DEF Lossless, Looping, Checking, Splitting
<1>1. CASE AudioTask
  <2>1. UNCHANGED <<app, writer, started>> /\ (failed' = failed \/ failed' = TRUE)
    BY <1>1, Zenon DEF AudioTask, AudioLoop, AudioCapture, AudioFails, AudioPublish, AudioExit,
       appVars, writerVars
  <2>2. Lossless
    BY <2>1
  <2>3. audio # "none"
    BY <1>1 DEF AudioTask, AudioLoop, AudioCapture, AudioFails, AudioPublish, AudioExit
  <2>4. ~ CreateAudioFails /\ ~ Unwind
    BY <2>3 DEF CreateAudioFails, Unwind, TasksExited, PlaceInv
  <2>5. ~ WriterFails
    <3>1. CASE writer = "write" \/ writer \in {"split: pages", "split: rename", "split: begin", "end: pages", "end: rename"}
      <4>1. SUFFICES ASSUME WriterFails PROVE FALSE
        OBVIOUS
      <4>2. writer' # writer
        BY <3>1, <4>1 DEF WriterFails
      <4>. QED
        BY <2>1, <4>2
    <3>2. CASE ~ (writer = "write" \/ writer \in {"split: pages", "split: rename", "split: begin", "end: pages", "end: rename"})
      BY <3>2 DEF WriterFails
    <3>. QED
      BY <3>1, <3>2
  <2>6. ~ WriterEnd
    <3>1. SUFFICES ASSUME WriterEnd PROVE FALSE
      OBVIOUS
    <3>2. writer = "end" /\ writer' # "end"
      BY <3>1 DEF WriterEnd
    <3>. QED
      BY <2>1, <3>2
  <2>. QED
    BY <2>2, <2>4, <2>5, <2>6
<1>2. CASE WriterTask
  <2>1. UNCHANGED <<app, started>> /\ (failed' = failed \/ failed' = TRUE)
    BY <1>2, Zenon DEF WriterTask, WriterTop, WriterReceive, WriterIdle, WriterExitCheck, WriterWrite,
       WriterPages, WriterRename, WriterBegin, WriterFails, WriterPublish, WriterEnd, WriterExit, appVars
  <2>2. writer' \in Looping => writer \in Looping
    BY <1>2 DEF WriterTask, WriterTop, WriterReceive, WriterIdle, WriterExitCheck, WriterWrite,
       WriterPages, WriterRename, WriterBegin, WriterFails, WriterPublish, WriterEnd, WriterExit
  <2>3. writer # "none"
    BY <1>2 DEF WriterTask, WriterTop, WriterReceive, WriterIdle, WriterExitCheck, WriterWrite,
       WriterPages, WriterRename, WriterBegin, WriterFails, WriterPublish, WriterEnd, WriterExit
  <2>4. app \notin {"create audio", "create writer", "unwind"}
    BY <2>3 DEF PlaceInv, TasksExited, Creating
  <2>5. Lossless
    BY <2>1, <2>2, <2>4
  <2>6. ~ WriterFails
    <3>1. SUFFICES ASSUME WriterFails PROVE FALSE
      OBVIOUS
    <3>2. failed' = TRUE /\ writer' \notin Looping
      BY <3>1 DEF WriterFails
    <3>. QED
      BY <2>1, <2>4, <3>2
  <2>7. WriterEnd => failed = FALSE
    <3>1. SUFFICES ASSUME WriterEnd PROVE failed = FALSE
      OBVIOUS
    <3>2. writer' \notin Looping /\ failed' = failed
      BY <3>1 DEF WriterEnd
    <3>. QED
      BY <2>1, <2>4, <3>2
  <2>. QED
    BY <2>4, <2>5, <2>6, <2>7 DEF CreateAudioFails, Unwind
<1>3. CASE AppTask /\ ~ StartBegin
  <2>1. ~ CreateAudioFails /\ ~ Unwind
    <3>1. SUFFICES ASSUME CreateAudioFails \/ Unwind PROVE FALSE
      OBVIOUS
    <3>2. /\ writer' = "none" /\ started' = FALSE /\ app' = "idle"
      BY <3>1 DEF CreateAudioFails, Unwind, Return, PlaceInv, TasksExited, Creating, writerVars
    <3>. QED
      BY <3>2
  <2>2. CASE CreateAudio \/ CreateWriter
    <3>1. app \in {"create audio", "create writer"} /\ writer = "none"
      BY <2>2 DEF CreateAudio, CreateWriter, PlaceInv, TasksExited
    <3>. QED
      BY <2>1, <3>1 DEF WriterFails, WriterEnd
  <2>3. CASE StartBusy \/ Start \/ WaitTimesOut \/ InitI2s \/ InitCodec \/ InitOpus \/ StartFails
    <3>1. UNCHANGED <<writer, failed, started>> /\ app' \notin {"create audio", "create writer"}
      BY <2>3 DEF StartBusy, Start, WaitTimesOut, InitI2s, InitCodec, InitOpus, StartFails, Return, writerVars
    <3>2. Lossless
      BY <3>1
    <3>3. ~ WriterFails /\ ~ WriterEnd
      BY <3>1 DEF WriterFails, WriterEnd
    <3>. QED
      BY <2>1, <3>2, <3>3
  <2>4. CASE CreateWriterFails \/ Stop \/ StopReturns
    <3>1. UNCHANGED <<writer, failed, started>> /\ app' \notin {"create audio", "create writer"}
      BY <2>4 DEF CreateWriterFails, Stop, StopReturns, writerVars
    <3>2. Lossless
      BY <3>1
    <3>3. ~ WriterFails /\ ~ WriterEnd
      BY <3>1 DEF WriterFails, WriterEnd
    <3>. QED
      BY <2>1, <3>2, <3>3
  <2>. QED
    BY <1>3, <2>1, <2>2, <2>3, <2>4 DEF AppTask
<1>4. CASE UNCHANGED vars
  <2>1. UNCHANGED <<app, writer, started, failed>>
    BY <1>4 DEF vars, appVars, writerVars
  <2>. QED
    BY <2>1 DEF WriterFails, WriterEnd, CreateAudioFails, Unwind, Return
<1>. QED
  BY <1>1, <1>2, <1>3, <1>4 DEF Next

(* How many packets are queued or in hand.                                 *)
LEMMA UnsavedType == ASSUME QueueType PROVE Unsaved \in Nat
<1>1. Len(write_queue) \in Nat
  BY DEF QueueType
<1>. QED
  BY <1>1 DEF Unsaved

(* The writer only opens the next part after one that holds something.     *)
PartHeld(n) == writer' = "split: begin" => Content(n) # << >>

(* The running session's last file stays so while nothing is written to    *)
(* it, as long as what is captured is queued.                              *)
LEMMA TailKept ==
    ASSUME StoreType, FilesInv, CountType, QueueType, SameFiles, NEW n, IsTail(n), session' = session,
           seq' \in Int, Unsaved' \in Int, seq' = Unsaved' + (seq - Unsaved), open' \in {open, NoName},
           PartHeld(n)
    PROVE  IsTail(n)'
<1>1. n \in Name /\ file_session'[n] = session' /\ session' # 0 /\ LastFile(n)'
  BY DEF IsTail, SameFiles, LastFile
<1>2. Before(n)' = Before(n) /\ Content(n)' = Content(n)
  BY <1>1, BeforeKept
<1>3. Before(n) \in Int /\ Len(Content(n)) \in Nat
  <2>1. file_session[n] # 0
    BY DEF IsTail
  <2>2. Before(n) \in Int
    BY <1>1, <2>1, BeforeInt
  <2>3. Content(n) \in Seq(Packet)
    BY <1>1, ContentType
  <2>. QED
    BY <2>2, <2>3
<1>4. Unsaved \in Int /\ seq \in Int
  BY UnsavedType, PipelineAssumption DEF CountType
<1>5. Before(n) + Len(Content(n)) + Unsaved = seq
  BY DEF IsTail
<1>6. Before(n)' + Len(Content(n)') + Unsaved' = seq'
  <2>1. Before(n) + Len(Content(n)) + Unsaved' = seq'
    <3>1. PICK b \in Int, u \in Int, v \in Int :
             b = Before(n) + Len(Content(n)) /\ u = Unsaved /\ v = Unsaved'
      BY <1>3, <1>4
    <3>2. b = seq - u
      BY <1>4, <1>5, <3>1
    <3>3. seq' = v + b
      BY <3>1, <3>2
    <3>. QED
      BY <3>1, <3>3
  <2>. QED
    BY <1>2, <2>1
<1>7. writer' = "split: begin" => Content(n)' # << >>
  BY <1>2 DEF PartHeld
<1>8. open' \in {n, NoName}
  BY DEF IsTail
<1>. QED
  BY <1>1, <1>6, <1>7, <1>8 DEF IsTail

(* Until the writer gives up, what it has written, has in hand and finds   *)
(* in the queue is everything captured (audio_pipeline.c, audio_task and   *)
(* writer_task).                                                           *)
LEMMA StepInvNext ==
    ASSUME Inv, [Next]_vars, CountType', QueueType', StoreType', OpenInv', OrderInv', FilesInv'
    PROVE  StepInv'
<1>. USE DEF Inv
<1>1. SUFFICES ASSUME Lossless' PROVE \E n \in Name : IsTail(n)'
  BY DEF StepInv
<1>2. /\ session \in Nat /\ session \in Session /\ seq \in Nat /\ write_queue \in Seq(Packet)
      /\ session' \in Session /\ session' \in Nat
  BY PipelineAssumption DEF CountType, Session, QueueType
<1>3. CASE StartBegin
  <2>1. PICK n \in Name : Opened(n, session')
    BY <1>3, StartOpens
  <2>2. /\ open' = n /\ file_session'[n] = session' /\ Content(n)' = << >>
        /\ \A m \in Name : m # n => file_session'[m] = file_session[m]
    BY <1>2, <2>1, OpenedEffect
  <2>3. session' = session + 1 /\ seq' = 0 /\ write_queue' = << >> /\ UNCHANGED writerVars
    BY <1>3 DEF StartBegin
  <2>4. FirstFile(n)'
    <3>1. CASE n = 1
      BY <3>1 DEF FirstFile
    <3>2. CASE n # 1
      <4>1. n - 1 \in Name /\ n - 1 # n
        BY <3>2, PipelineAssumption DEF Name
      <4>2. file_session'[n - 1] = file_session[n - 1]
        BY <2>2, <4>1
      <4>3. file_session[n - 1] <= session /\ file_session[n - 1] \in Nat
        BY <4>1 DEF OrderInv, StoreType, Session
      <4>4. file_session[n - 1] # session'
        BY <1>2, <2>3, <4>3
      <4>. QED
        BY <2>2, <4>2, <4>4 DEF FirstFile
    <3>. QED
      BY <3>1, <3>2
  <2>5. Before(n)' = 0
    BY <2>4 DEF Before
  <2>6. Unsaved' = 0 /\ writer' = "none"
    <3>1. writer = "none" /\ packet = NoPacket
      BY <1>3 DEF StartBegin, PlaceInv, TasksExited, Preparing, QueueType
    <3>. QED
      BY <2>3, <3>1 DEF Unsaved, writerVars
  <2>7. n # NoName
    BY DEF Name, NoName
  <2>8. LastFile(n)' /\ session' # 0
    BY <2>2, <2>7 DEF OrderInv
  <2>9. Before(n)' + Len(Content(n)') + Unsaved' = seq'
    BY <2>2, <2>3, <2>5, <2>6
  <2>. QED
    BY <2>2, <2>6, <2>8, <2>9 DEF IsTail
<1>4. CASE ~ StartBegin
  <2>1. Lossless /\ ~ WriterFails /\ ~ CreateAudioFails /\ ~ Unwind /\ (WriterEnd => failed = FALSE)
    BY <1>1, <1>4, LosslessBefore
  <2>2. PICK n \in Name : IsTail(n)
    BY <2>1 DEF StepInv
  <2>3. session' = session
    BY <1>4, SessionChanges
  <2>10. Unsaved \in Nat /\ StoreType /\ FilesInv /\ CountType /\ QueueType
    BY UnsavedType
  <2>4. file_session[n] # 0 /\ Content(n) \in Seq(Packet) /\ Before(n) \in Int
    BY <2>2, BeforeInt, ContentType DEF IsTail
  <2>5. CASE AudioCapture
    <3>1. PICK p \in Packet : write_queue' = Append(write_queue, p)
      BY <2>5, CaptureAppends
    <3>2. seq' = seq + 1 /\ UNCHANGED store /\ UNCHANGED writerVars
      BY <2>5 DEF AudioCapture
    <3>3. Unsaved' = Unsaved + 1
      BY <1>2, <3>1, <3>2 DEF Unsaved, writerVars
    <3>4. SameFiles /\ open' = open /\ writer' = writer
      BY <3>2, StoreSame DEF store, writerVars
    <3>5. seq' \in Int /\ Unsaved' \in Int /\ seq' = Unsaved' + (seq - Unsaved)
      BY <1>2, <2>10, <3>2, <3>3
    <3>6. PartHeld(n)
      BY <2>2, <3>4 DEF IsTail, PartHeld
    <3>. QED
      BY <2>2, <2>3, <2>10, <3>4, <3>5, <3>6, TailKept
  <2>6. CASE WriterReceive
    <3>1. /\ write_queue # << >> /\ write_queue' = Tail(write_queue) /\ packet' = Head(write_queue)
          /\ writer = "receive" /\ writer' = "write" /\ seq' = seq /\ UNCHANGED store
      BY <2>6 DEF WriterReceive
    <3>2. packet = NoPacket /\ packet' # NoPacket
      BY <3>1 DEF QueueType
    <3>3. Unsaved' = Unsaved + 0
      BY <1>2, <3>1, <3>2 DEF Unsaved
    <3>4. seq' = seq + 0
      BY <1>2, <3>1
    <3>5. SameFiles /\ open' = open
      BY <3>1, StoreSame DEF store
    <3>6. seq' \in Int /\ Unsaved' \in Int /\ seq' = Unsaved' + (seq - Unsaved)
      BY <1>2, <2>10, <3>3, <3>4
    <3>7. PartHeld(n)
      BY <3>1 DEF PartHeld
    <3>. QED
      BY <2>2, <2>3, <2>10, <3>5, <3>6, <3>7, TailKept
  <2>7. CASE WriterWrite
    <3>1. /\ open \in Name /\ open' = open /\ packet \in Packet /\ UNCHANGED file_session
          /\ \A m \in Name : Content(m)' = IF m = open THEN Append(Content(m), packet) ELSE Content(m)
      BY <2>7, WriteEffect
    <3>2. open # NoName /\ packet # NoPacket /\ packet' = NoPacket /\ UNCHANGED <<seq, write_queue>>
      BY <2>7, <3>1 DEF WriterWrite, Log!LogAccept, QueueType
    <3>3. n = open
      BY <2>2, <3>2 DEF IsTail
    <3>4. Content(n)' = Append(Content(n), packet)
      BY <3>1, <3>3
    <3>5. n # 1 => n - 1 \in Name /\ n - 1 # open
      BY <2>4, <3>2, <3>3, PipelineAssumption DEF Name
    <3>6. n # 1 => file_session'[n - 1] = file_session[n - 1] /\ Content(n - 1)' = Content(n - 1)
      BY <3>1, <3>5
    <3>7. Before(n)' = Before(n)
      BY <3>1, <3>6, BeforeSame
    <3>8. Len(Content(n)') = Len(Content(n)) + 1 /\ Content(n)' # << >>
      BY <2>4, <3>1, <3>4
    <3>9. Unsaved = Len(write_queue) + 1 /\ Unsaved' = Len(write_queue)
      BY <3>2 DEF Unsaved
    <3>10. Before(n) + Len(Content(n)) + Unsaved = seq
      BY <2>2 DEF IsTail
    <3>11. Before(n)' + Len(Content(n)') + Unsaved' = seq'
      <4>1. Len(Content(n)) \in Nat /\ Len(write_queue) \in Nat
        BY <1>2, <2>4
      <4>2. Before(n) + (Len(Content(n)) + 1) + Len(write_queue) = seq
        BY <1>2, <2>4, <3>9, <3>10, <4>1
      <4>. QED
        BY <3>2, <3>7, <3>8, <3>9, <4>2
    <3>12. file_session'[n] = session' /\ session' # 0 /\ LastFile(n)' /\ open' \in {n, NoName}
      BY <2>2, <2>3, <3>1, <3>3 DEF IsTail, LastFile
    <3>. QED
      BY <3>8, <3>11, <3>12 DEF IsTail
  <2>8. CASE WriterBegin
    <3>1. PICK m \in Name : Opened(m, session)
      BY <1>2, <2>8, OpenFileEffect DEF WriterBegin
    <3>2. /\ open' = m /\ file_session'[m] = session /\ Content(m)' = << >>
          /\ \A k \in Name : k # m => Content(k)' = Content(k) /\ file_session'[k] = file_session[k]
      BY <1>2, <3>1, OpenedEffect
    <3>3. writer = "split: begin" /\ writer' = "top" /\ UNCHANGED <<seq, write_queue, packet>>
      BY <2>8 DEF WriterBegin
    <3>4. m = n + 1
      <4>1. LastFile(n) /\ file_session[m] = 0 /\ \A k \in Name : k < m => file_session[k] # 0
        BY <2>2, <3>1 DEF IsTail, Opened
      <4>2. n < m
        BY <2>4, <4>1 DEF OrderInv, Name
      <4>3. ~ (n + 1 < m)
        <5>1. SUFFICES ASSUME n + 1 < m PROVE FALSE
          OBVIOUS
        <5>2. n # MaxFiles /\ n + 1 \in Name
          BY <5>1, PipelineAssumption DEF Name
        <5>. QED
          BY <4>1, <5>1, <5>2 DEF LastFile
      <4>. QED
        BY <4>2, <4>3 DEF Name
    <3>5. /\ file_session'[m - 1] = session /\ Content(m - 1)' = Content(n) /\ Content(n) # << >>
          /\ m - 1 = n /\ m # 1
      <4>1. m - 1 = n /\ m # 1 /\ n # m
        BY <3>4 DEF Name
      <4>2. file_session'[n] = session /\ Content(n)' = Content(n)
        BY <2>2, <3>2, <4>1 DEF IsTail
      <4>3. Content(n) # << >>
        BY <2>2, <3>3 DEF IsTail
      <4>4. Content(m - 1)' = Content(n)'
        BY <4>1
      <4>. QED
        BY <4>1, <4>2, <4>3, <4>4
    <3>6. Before(m)' = Content(n)[Len(Content(n))].seq
      BY <3>2, <3>5 DEF Before, FirstFile
    <3>7. Content(n)[Len(Content(n))].seq = Before(n) + Len(Content(n))
      <4>1. Len(Content(n)) \in 1 .. Len(Content(n))
        BY <2>4, <3>5
      <4>. QED
        BY <2>4, <4>1 DEF FilesInv, FileInv
    <3>8. Before(m)' + Len(Content(m)') + Unsaved' = seq'
      <4>1. Before(n) + Len(Content(n)) + Unsaved = seq
        BY <2>2 DEF IsTail
      <4>2. Unsaved' = Unsaved /\ Len(Content(m)') = 0
        BY <3>2, <3>3 DEF Unsaved
      <4>3. Before(m)' = Before(n) + Len(Content(n)) /\ Len(Content(n)) \in Nat
        BY <2>4, <3>6, <3>7
      <4>4. Before(m)' + 0 + Unsaved = seq
        BY <2>4, <4>1, <4>3
      <4>. QED
        BY <3>3, <4>2, <4>4
    <3>9. LastFile(m)' /\ session' # 0
      BY <3>2 DEF OrderInv, Name, NoName
    <3>. QED
      BY <2>3, <3>2, <3>3, <3>8, <3>9 DEF IsTail
  <2>9. CASE ~ AudioCapture /\ ~ WriterReceive /\ ~ WriterWrite /\ ~ WriterBegin
    <3>1. UNCHANGED <<write_queue, seq>>
      <4>1. CASE WriterEnd
        BY <2>1, <4>1 DEF WriterEnd
      <4>. QED
        BY <1>4, <2>1, <2>9, <4>1, QueueChanges
    <3>2. UNCHANGED packet
      BY <2>1, <2>9, QueueChanges
    <3>3. Unsaved' = Unsaved + 0 /\ seq' = seq + 0
      BY <1>2, <3>1, <3>2 DEF Unsaved, QueueType
    <3>4. SameFiles /\ open' \in {open, NoName}
      <4>1. CASE UNCHANGED store
        BY <4>1, StoreSame DEF store
      <4>2. CASE WriterPages \/ WriterRename
        BY <4>2, CloseEffect
      <4>3. CASE WriterEnd
        <5>1. UNCHANGED store \/ Discard
          BY <2>1, <4>3 DEF WriterEnd
        <5>2. CASE Discard
          <6>1. Dropped /\ accepted = << >>
            BY <5>2, DiscardEffect
          <6>. QED
            BY <6>1, DropNothing DEF Dropped
        <5>. QED
          BY <4>1, <5>1, <5>2
      <4>. QED
        BY <1>4, <2>1, <2>9, <4>1, <4>2, <4>3, StoreSteps
    <3>5. PartHeld(n)
      <4>1. CASE WriterRename
        <5>1. accepted # << >> /\ open # NoName
          BY <4>1 DEF WriterRename, Log!LogFinalize
        <5>2. n = open
          BY <2>2, <5>1 DEF IsTail
        <5>. QED
          BY <5>1, <5>2 DEF Content, PartHeld
      <4>2. CASE UNCHANGED writer
        BY <2>2, <4>2 DEF IsTail, PartHeld
      <4>3. CASE writer' # "split: begin"
        BY <4>3 DEF PartHeld
      <4>4. CASE AudioTask \/ UNCHANGED vars
        BY <4>2, <4>4 DEF AudioTask, AudioLoop, AudioCapture, AudioFails, AudioPublish, AudioExit,
           vars, writerVars
      <4>5. CASE WriterTask
        <5>1. WriterRename \/ writer' # "split: begin"
          BY <2>1, <4>5 DEF WriterTask, WriterTop, WriterReceive, WriterIdle, WriterExitCheck, WriterWrite,
             WriterPages, WriterBegin, WriterPublish, WriterEnd, WriterExit
        <5>. QED
          BY <4>1, <4>3, <5>1
      <4>6. CASE AppTask
        <5>1. UNCHANGED writer \/ CreateWriter
          BY <4>6, Zenon DEF AppTask, StartBusy, Start, WaitTimesOut, InitI2s, InitCodec, InitOpus, StartFails,
             StartBegin, CreateAudio, CreateAudioFails, CreateWriterFails, Unwind, Stop,
             StopReturns, writerVars
        <5>. QED
          BY <4>2, <4>3, <5>1 DEF CreateWriter
      <4>. QED
        BY <4>4, <4>5, <4>6 DEF Next
    <3>6. seq' \in Int /\ Unsaved' \in Int /\ seq' = Unsaved' + (seq - Unsaved)
      BY <1>2, <2>10, <3>3
    <3>. QED
      BY <2>2, <2>3, <2>10, <3>4, <3>5, <3>6, TailKept
  <2>. QED
    BY <2>5, <2>6, <2>7, <2>8, <2>9
<1>. QED
  BY <1>3, <1>4

-----------------------------------------------------------------------------
(* What a step does to the kinds of the closed parts.                      *)
LEMMA KindInvNext ==
    ASSUME FlagType, PlaceType, CountType, CountType', QueueType, StoreType, StoreType', OpenInv, OrderInv,
           KindInv, [Next]_vars
    PROVE  KindInv'
<1>0. session \in Nat /\ session \in Session /\ session' \in Session
  BY DEF CountType, Session
<1>1. CASE StartBegin
  <2>1. PICK n \in Name : Opened(n, session')
    BY <1>1, StartOpens
  <2>2. open' = n /\ \A m \in Name : m # n => file_session'[m] = file_session[m]
    BY <1>0, <1>1, <2>1, OpenedEffect
  <2>3. session' = session + 1
    BY <1>1 DEF StartBegin
  <2>4. ASSUME NEW m \in Name, file_session'[m] = session', m # open' PROVE FALSE
    <3>1. file_session[m] <= session /\ file_session[m] \in Nat
      BY DEF OrderInv, StoreType, Session
    <3>2. file_session'[m] = file_session[m]
      BY <2>2, <2>4
    <3>. QED
      BY <1>0, <2>3, <2>4, <3>1, <3>2
  <2>. QED
    BY <2>4 DEF KindInv
<1>2. CASE ~ StartBegin
  <2>1. session' = session
    BY <1>2, SessionChanges
  <2>2. SUFFICES ASSUME failed' = FALSE,
                        NEW m \in Name, file_session'[m] = session', m # open', disk'[m].packets # << >>
                 PROVE  disk'[m].kind = "final"
    BY DEF KindInv
  <2>3. failed = FALSE /\ ~ WriterFails
    <3>1. failed' = failed \/ AudioFails \/ WriterFails
      BY <1>2, FlagChanges DEF AudioPublish, WriterPublish, CreateAudioFails, CreateWriterFails, Stop
    <3>2. ~ AudioFails /\ ~ WriterFails
      BY <2>2 DEF AudioFails, WriterFails
    <3>. QED
      BY <2>2, <3>1, <3>2
  <2>4. CASE UNCHANGED store
    BY <2>1, <2>2, <2>3, <2>4 DEF store, KindInv
  <2>5. CASE WriterWrite
    <3>1. /\ open' = open /\ UNCHANGED file_session
      BY <2>5, WriteEffect
    <3>2. PICK k \in Len(disk[open].packets) .. Len(accepted) :
             disk' = [disk EXCEPT ![open].packets = SubSeq(accepted, 1, k)]
      BY <2>5 DEF WriterWrite, Log!LogAccept, Log!Prefix
    <3>3. disk'[m] = disk[m]
      BY <2>2, <3>1, <3>2 DEF StoreType
    <3>. QED
      BY <2>1, <2>2, <2>3, <3>1, <3>3 DEF KindInv
  <2>6. CASE WriterPages
    <3>1. open' = open /\ UNCHANGED file_session /\ disk' = [disk EXCEPT ![open].packets = accepted]
      BY <2>6 DEF WriterPages, Log!LogFlush
    <3>2. disk'[m] = disk[m]
      BY <2>2, <3>1 DEF StoreType
    <3>. QED
      BY <2>1, <2>2, <2>3, <3>1, <3>2 DEF KindInv
  <2>7. CASE WriterRename
    <3>1. UNCHANGED file_session /\ disk' = [disk EXCEPT ![open].kind = "final"]
      BY <2>7 DEF WriterRename, Log!LogFinalize
    <3>2. CASE m = open
      BY <3>1, <3>2 DEF StoreType
    <3>3. CASE m # open
      <4>1. disk'[m] = disk[m]
        BY <3>1, <3>3 DEF StoreType
      <4>. QED
        BY <2>1, <2>2, <2>3, <3>1, <3>3, <4>1 DEF KindInv
    <3>. QED
      BY <3>2, <3>3
  <2>8. CASE Dropped /\ accepted = << >>
    <3>1. UNCHANGED file_session /\ open' = NoName
      BY <2>8 DEF Dropped
    <3>2. SameFiles
      BY <2>8, DropNothing
    <3>3. Content(m)' = disk'[m].packets
      BY <3>1 DEF Content, Name, NoName
    <3>4. m # open
      BY <2>2, <2>8, <3>2, <3>3 DEF SameFiles, Content
    <3>5. disk'[m] = disk[m]
      <4>1. CASE open = NoName
        BY <2>8, <4>1 DEF Dropped
      <4>2. CASE open # NoName
        <5>1. PICK q \in Seq(Packet) : Kept(q)
          BY <2>8, <4>2 DEF Dropped
        <5>. QED
          BY <5>1, <3>4 DEF Kept, StoreType
      <4>. QED
        BY <4>1, <4>2
    <3>. QED
      BY <2>1, <2>2, <2>3, <3>1, <3>4, <3>5 DEF KindInv
  <2>9. CASE WriterEnd
    <3>1. UNCHANGED store \/ Discard
      BY <2>3, <2>9 DEF WriterEnd
    <3>2. Discard => Dropped /\ accepted = << >>
      BY DiscardEffect
    <3>. QED
      BY <2>4, <2>8, <3>1, <3>2
  <2>10. CASE WriterBegin
    <3>1. PICK n \in Name : Opened(n, session)
      BY <1>0, <2>10, OpenFileEffect DEF WriterBegin
    <3>2. open = NoName /\ open' = n /\ disk' = [disk EXCEPT ![n].kind = "partial"]
          /\ file_session' = [file_session EXCEPT ![n] = session]
      BY <3>1 DEF Opened
    <3>3. disk'[m] = disk[m] /\ file_session'[m] = file_session[m] /\ m # open
      BY <2>2, <3>2 DEF StoreType, Name, NoName
    <3>. QED
      BY <2>1, <2>2, <2>3, <3>3 DEF KindInv
  <2>. QED
    BY <1>2, <2>3, <2>4, <2>5, <2>6, <2>7, <2>8, <2>9, <2>10, StoreSteps
<1>. QED
  BY <1>1, <1>2

-----------------------------------------------------------------------------
(* Every step keeps all of it.                                             *)
LEMMA InvNext == ASSUME Inv, [Next]_vars PROVE Inv'
<1>1. /\ FlagType /\ PlaceType /\ CountType /\ QueueType /\ StoreType
      /\ PlaceInv /\ HeldInv /\ OpenInv /\ ErrorInv /\ ExitInv
      /\ OrderInv /\ FilesInv /\ QueueInv /\ StepInv /\ KindInv
  BY DEF Inv
<1>2. FlagType' /\ PlaceType' /\ CountType'
  BY <1>1, FlagTypeNext, PlaceTypeNext, CountTypeNext
<1>3. QueueType' /\ StoreType'
  BY <1>1, <1>2, QueueTypeNext, StoreTypeNext
<1>4. PlaceInv' /\ HeldInv' /\ ExitInv'
  BY <1>1, PlaceInvNext, HeldInvNext, ExitInvNext
<1>5. OpenInv' /\ ErrorInv'
  BY <1>1, OpenInvNext, ErrorInvNext
<1>6. OrderInv' /\ QueueInv'
  BY <1>1, <1>2, OrderInvNext, QueueInvNext
<1>7. FilesInv'
  BY <1>1, <1>2, <1>3, FilesInvNext
<1>8. StepInv'
  BY <1>2, <1>3, <1>5, <1>6, <1>7, StepInvNext
<1>9. KindInv'
  BY <1>1, <1>2, <1>3, KindInvNext
<1>. QED
  BY <1>2, <1>3, <1>4, <1>5, <1>6, <1>7, <1>8, <1>9 DEF Inv

(* The inductive invariant of the pipeline.                                *)
THEOREM Invariant == Spec => []Inv
BY InvInit, InvNext, PTL DEF Spec

-----------------------------------------------------------------------------
(* The parts of a session's files, one after the other, are its packets    *)
(* from the first on.                                                      *)
Parts(s) == [n \in Name |-> IF file_session[n] # s THEN << >> ELSE Content(n)]
GoodTo(s, g, i) ==
    /\ Captured(s, g[i])
    /\ \A n \in 1 .. i : file_session[n] = s /\ (\A m \in n + 1 .. i : file_session[m] # s)
                            => Len(g[i]) = Before(n) + Len(Content(n))
    /\ (\A m \in 1 .. i : file_session[m] # s) => g[i] = << >>

(* It is so of the first file.                                             *)
LEMMA GoodFirst ==
    ASSUME StoreType, FilesInv, NEW s \in Nat \ {0}, MaxFiles # 0, NEW g, g[1] = Parts(s)[1]
    PROVE  GoodTo(s, g, 1)
<1>1. 1 \in Name
  BY PipelineAssumption DEF Name
<1>2. CASE file_session[1] # s
  <2>1. g[1] = << >>
    BY <1>1, <1>2 DEF Parts
  <2>2. Captured(s, g[1])
    BY <2>1 DEF Captured
  <2>. QED
    BY <1>2, <2>1, <2>2 DEF GoodTo
<1>3. CASE file_session[1] = s
  <2>1. g[1] = Content(1) /\ Content(1) \in Seq(Packet)
    BY <1>1, <1>3, ContentType DEF Parts
  <2>2. FileInv(1) /\ Before(1) = 0
    BY <1>1, <1>3 DEF FilesInv, Before, FirstFile
  <2>3. ASSUME NEW k \in 1 .. Len(g[1]) PROVE g[1][k].session = s /\ g[1][k].seq = k
    BY <1>3, <2>1, <2>2 DEF FileInv
  <2>4. Captured(s, g[1])
    BY <2>3 DEF Captured
  <2>5. Len(g[1]) = Before(1) + Len(Content(1))
    BY <2>1, <2>2
  <2>. QED
    BY <1>3, <2>4, <2>5 DEF GoodTo
<1>. QED
  BY <1>2, <1>3

(* It is so up to a file when it is so up to the one before it.            *)
LEMMA GoodNext ==
    ASSUME StoreType, OrderInv, FilesInv, NEW s \in Nat \ {0}, NEW i \in 2 .. MaxFiles,
           NEW g, g[i - 1] \in Seq(Packet), g[i] = g[i - 1] \o Parts(s)[i], GoodTo(s, g, i - 1)
    PROVE  GoodTo(s, g, i)
<1>1. i \in Name /\ i - 1 \in Name /\ i # 1 /\ i - 1 < i /\ 1 .. i = (1 .. i - 1) \cup {i}
  BY PipelineAssumption DEF Name
<1>2. CASE file_session[i] # s
  <2>1. g[i] = g[i - 1]
    BY <1>1, <1>2 DEF Parts
  <2>2. Captured(s, g[i])
    BY <2>1 DEF GoodTo
  <2>3. ASSUME NEW n \in 1 .. i, file_session[n] = s, \A m \in n + 1 .. i : file_session[m] # s
        PROVE  Len(g[i]) = Before(n) + Len(Content(n))
    <3>1. n \in 1 .. i - 1
      BY <1>1, <1>2, <2>3
    <3>2. \A m \in n + 1 .. i - 1 : file_session[m] # s
      BY <2>3
    <3>. QED
      BY <2>1, <2>3, <3>1, <3>2 DEF GoodTo
  <2>4. ASSUME \A m \in 1 .. i : file_session[m] # s PROVE g[i] = << >>
    BY <1>1, <2>1, <2>4 DEF GoodTo
  <2>. QED
    BY <2>2, <2>3, <2>4 DEF GoodTo
<1>3. CASE file_session[i] = s
  <2>1. g[i] = g[i - 1] \o Content(i) /\ Content(i) \in Seq(Packet)
    BY <1>1, <1>3, ContentType DEF Parts
  <2>2. FileInv(i)
    BY <1>1, <1>3 DEF FilesInv
  <2>3. Len(g[i - 1]) = Before(i)
    <3>1. CASE FirstFile(i)
      <4>1. file_session[i - 1] # s
        BY <1>1, <1>3, <3>1 DEF FirstFile
      <4>2. ASSUME NEW m \in 1 .. i - 1 PROVE file_session[m] # s
        <5>1. m \in Name /\ (m = i - 1 \/ m < i - 1)
          <6>1. i \in Nat /\ MaxFiles \in Nat /\ i <= MaxFiles
            BY PipelineAssumption
          <6>. QED
            BY <6>1 DEF Name
        <5>2. file_session[i - 1] \in Nat /\ file_session[m] \in Nat /\ file_session[i - 1] # 0
              /\ file_session[i - 1] <= s
          BY <1>1, <1>3, <5>1 DEF OrderInv, StoreType, Session
        <5>3. m < i - 1 => file_session[m] <= file_session[i - 1]
          BY <1>1, <5>1, <5>2 DEF OrderInv
        <5>. QED
          BY <4>1, <5>1, <5>2, <5>3
      <4>3. g[i - 1] = << >>
        BY <4>2 DEF GoodTo
      <4>. QED
        BY <3>1, <4>3 DEF Before
    <3>2. CASE ~ FirstFile(i)
      <4>1. file_session[i - 1] = s /\ Content(i - 1) # << >> /\ Content(i - 1) \in Seq(Packet)
        BY <1>1, <1>3, <2>2, <3>2, ContentType DEF FirstFile, FileInv
      <4>2. Len(g[i - 1]) = Before(i - 1) + Len(Content(i - 1))
        <5>1. i - 1 \in 1 .. i - 1 /\ (i - 1) + 1 .. i - 1 = {}
          BY <1>1 DEF Name
        <5>. QED
          BY <4>1, <5>1 DEF GoodTo
      <4>3. Content(i - 1)[Len(Content(i - 1))].seq = Before(i - 1) + Len(Content(i - 1))
        <5>1. FileInv(i - 1)
          BY <1>1, <4>1 DEF FilesInv
        <5>2. Len(Content(i - 1)) \in 1 .. Len(Content(i - 1))
          BY <4>1
        <5>. QED
          BY <5>1, <5>2 DEF FileInv
      <4>. QED
        BY <3>2, <4>2, <4>3 DEF Before
    <3>. QED
      BY <3>1, <3>2
  <2>4. Len(g[i]) = Before(i) + Len(Content(i))
    <3>1. Len(g[i]) = Len(g[i - 1]) + Len(Content(i))
      BY <2>1
    <3>. QED
      BY <2>3, <3>1
  <2>5. ASSUME NEW k \in 1 .. Len(g[i]) PROVE g[i][k].session = s /\ g[i][k].seq = k
    <3>1. CASE k \in 1 .. Len(g[i - 1])
      <4>1. g[i][k] = g[i - 1][k]
        BY <2>1, <3>1
      <4>. QED
        BY <3>1, <4>1 DEF GoodTo, Captured
    <3>2. CASE k \notin 1 .. Len(g[i - 1])
      <4>1. /\ k - Len(g[i - 1]) \in 1 .. Len(Content(i))
            /\ g[i][k] = Content(i)[k - Len(g[i - 1])]
        BY <2>1, <3>2
      <4>2. /\ Content(i)[k - Len(g[i - 1])].session = s
            /\ Content(i)[k - Len(g[i - 1])].seq = Before(i) + (k - Len(g[i - 1]))
        BY <1>3, <2>2, <4>1 DEF FileInv
      <4>. QED
        BY <2>3, <4>1, <4>2
    <3>. QED
      BY <3>1, <3>2
  <2>6. Captured(s, g[i])
    BY <2>5 DEF Captured
  <2>7. ASSUME NEW n \in 1 .. i, file_session[n] = s, \A m \in n + 1 .. i : file_session[m] # s
        PROVE  Len(g[i]) = Before(n) + Len(Content(n))
    <3>1. n = i
      BY <1>1, <1>3, <2>7
    <3>. QED
      BY <2>4, <3>1
  <2>. QED
    BY <1>1, <1>3, <2>6, <2>7 DEF GoodTo
<1>. QED
  BY <1>2, <1>3

(* What the files of a session hold, from FilesInv.                        *)
LEMMA SavedFacts ==
    ASSUME StoreType, OrderInv, FilesInv, NEW s \in Nat \ {0}
    PROVE  /\ Saved(s) \in Seq(Packet) /\ Captured(s, Saved(s))
           /\ \A n \in Name : file_session[n] = s /\ LastFile(n)
                                 => Len(Saved(s)) = Before(n) + Len(Content(n))
<1>1. Saved(s) = FlattenSeq(Parts(s))
  BY DEF Saved, Parts, Content
<1>2. CASE MaxFiles = 0
  <2>1. Name = {} /\ Parts(s) = << >>
    BY <1>2 DEF Name, Parts
  <2>2. Saved(s) = << >>
    BY <1>1, <2>1 DEF FlattenSeq
  <2>. QED
    BY <2>1, <2>2 DEF Captured
<1>3. CASE MaxFiles # 0
  <2>1. Parts(s) \in [1 .. MaxFiles -> Seq(Packet)]
    <3>1. << >> \in Seq(Packet)
      OBVIOUS
    <3>2. ASSUME NEW n \in Name
          PROVE  (IF file_session[n] # s THEN << >> ELSE Content(n)) \in Seq(Packet)
      BY <3>1, ContentType
    <3>. QED
      BY <3>2 DEF Parts, Name
  <2>2. MaxFiles \in Nat \ {0}
    BY <1>3, PipelineAssumption
  <2>3. PICK g \in [1 .. MaxFiles -> Seq(Packet)] :
           Joined(Parts(s), g, MaxFiles) /\ g[MaxFiles] = FlattenSeq(Parts(s))
    BY <2>1, <2>2, FlattenSteps
  <2>4. \A i \in 1 .. MaxFiles : GoodTo(s, g, i)
    <3>1. 1 \in {i \in 1 .. MaxFiles : GoodTo(s, g, i)}
      <4>1. 1 \in 1 .. MaxFiles
        BY <2>2
      <4>2. g[1] = Parts(s)[1]
        BY <2>3, <4>1 DEF Joined
      <4>. QED
        BY <1>3, <4>1, <4>2, GoodFirst
    <3>2. ASSUME NEW i \in 2 .. MaxFiles, GoodTo(s, g, i - 1) PROVE GoodTo(s, g, i)
      <4>1. i \in 1 .. MaxFiles /\ i - 1 \in 1 .. MaxFiles /\ i # 1
        BY <2>2
      <4>2. g[i] = g[i - 1] \o Parts(s)[i]
        BY <2>3, <4>1 DEF Joined
      <4>3. g[i - 1] \in Seq(Packet)
        BY <4>1
      <4>. QED
        BY <3>2, <4>2, <4>3, GoodNext
    <3>3. \A i \in 2 .. MaxFiles : i \in 1 .. MaxFiles
      BY <2>2
    <3>4. 1 .. MaxFiles \subseteq {i \in 1 .. MaxFiles : GoodTo(s, g, i)}
      BY <2>2, <3>1, <3>2, <3>3, UpTo
    <3>. QED
      BY <3>4
  <2>5. GoodTo(s, g, MaxFiles) /\ Saved(s) = g[MaxFiles] /\ g[MaxFiles] \in Seq(Packet)
    BY <1>1, <2>2, <2>3, <2>4
  <2>6. ASSUME NEW n \in Name, file_session[n] = s, LastFile(n)
        PROVE  Len(Saved(s)) = Before(n) + Len(Content(n))
    <3>1. ASSUME NEW m \in n + 1 .. MaxFiles PROVE file_session[m] # s
      <4>1. m \in Name /\ n + 1 \in Name /\ (m = n + 1 \/ n + 1 < m)
        BY <2>2 DEF Name
      <4>2. file_session[n + 1] = 0
        BY <2>6, <4>1 DEF LastFile, Name
      <4>3. file_session[m] = 0
        BY <4>1, <4>2 DEF OrderInv
      <4>. QED
        BY <4>3
    <3>2. n \in 1 .. MaxFiles
      BY DEF Name
    <3>. QED
      BY <2>5, <2>6, <3>1, <3>2 DEF GoodTo
  <2>. QED
    BY <2>5, <2>6 DEF GoodTo
<1>. QED
  BY <1>2, <1>3

-----------------------------------------------------------------------------
(* Types of the pipeline's shared variables and of the tasks' positions    *)
(* (audio_pipeline.c, the module's static state).                          *)
THEOREM TypeCorrect == Spec => []TypeOK
<1>1. ASSUME Inv PROVE TypeOK
  <2>. USE <1>1 DEF Inv
  <2>1. /\ running \in BOOLEAN /\ failed \in BOOLEAN /\ last_error \in {"OK", "FAIL"}
        /\ result \in {"none", "OK", "FAIL", "TIMEOUT"} /\ started \in BOOLEAN /\ callbacks \in 0 .. 1
    BY DEF FlagType
  <2>2. /\ session \in Session /\ seq \in 0 .. MaxFrames + 1
        /\ frames_in_file \in 0 .. SplitForce /\ quiet_run \in Nat
    BY DEF CountType
  <2>3. /\ write_queue \in Seq(Packet) /\ Len(write_queue) <= QueueDepth
        /\ packet \in Packet \cup {NoPacket}
    BY DEF QueueType
  <2>4. file_session \in [Name -> Session] /\ open \in Name \cup {NoName}
    BY DEF StoreType
  <2>5. audio \in {"none", "loop", "capture", "publish", "exit"}
    BY DEF PlaceType, AudioPlaces
  <2>6. writer \in {"none", "top", "receive", "write", "running?", "audio?", "queue?",
                    "split: pages", "split: rename", "split: begin", "end", "end: pages",
                    "end: rename", "publish: end", "publish: wait", "wait"}
    BY DEF PlaceType, WriterPlaces, Looping, Checking, Splitting, Ending, Publishing
  <2>7. app \in {"idle", "start", "codec", "opus", "open", "create audio", "create writer", "unwind",
                 "stop", "stopped"}
    BY DEF PlaceType, Calling, Preparing, Creating
  <2>8. resources \subseteq Resource
    <3>1. CASE resources = Resource \/ resources = {"i2s"} \/ resources = {"i2s", "codec"}
      BY <3>1 DEF Resource
    <3>2. CASE resources = {}
      BY <3>2 DEF Resource
    <3>3. CASE ~ TasksExited \/ app \in {"open"} \cup Creating
      BY <3>1, <3>3 DEF HeldInv
    <3>4. CASE TasksExited /\ app \in Calling \cup {"codec", "opus"}
      BY <3>1, <3>2, <3>4 DEF HeldInv
    <3>. QED
      BY <3>3, <3>4 DEF PlaceType, Preparing
  <2>9. leaked \in BOOLEAN
    BY DEF HeldInv
  <2>. QED
    BY <2>1, <2>2, <2>3, <2>4, <2>5, <2>6, <2>7, <2>8, <2>9, Zenon DEF TypeOK
<1>. QED
  BY <1>1, Invariant, PTL

(* Channel, codec and encoder exist while a task may use them, and are     *)
(* gone, with the store closed, once a session or a start is over,         *)
(* whichever step failed; only the channel that a failed init_i2s made     *)
(* stays (audio_pipeline.c, deinit_session_resources and who calls it).    *)
THEOREM SessionResources == Spec => []ResourcesOwned
<1>1. ASSUME Inv PROVE ResourcesOwned
  BY <1>1 DEF Inv, HeldInv, OpenInv, PlaceInv, ResourcesOwned, TasksExited, Idle, Calling, Creating
<1>. QED
  BY <1>1, Invariant, PTL

(* Whatever was lost to a failure, the files of a session hold its first   *)
(* packets, in order, and nothing of another session (audio_pipeline.c,    *)
(* writer_task, and xQueueReset at both ends of a session).                *)
THEOREM NeverAHole == Spec => []SavedIsAPrefix
<1>1. ASSUME Inv PROVE SavedIsAPrefix
  <2>1. ASSUME NEW s \in 1 .. session PROVE Captured(s, Saved(s))
    <3>1. s \in Nat \ {0}
      BY PipelineAssumption DEF Inv, CountType, Session
    <3>. QED
      BY <3>1, SavedFacts, <1>1 DEF Inv
  <2>. QED
    BY <2>1 DEF SavedIsAPrefix
<1>. QED
  BY <1>1, Invariant, PTL

(* Joining does not depend on where it begins.                             *)
LEMMA JoinedThrice ==
    ASSUME NEW a \in Seq(Packet), NEW h \in Seq(Packet), NEW w \in Seq(Packet)
    PROVE  (a \o h) \o w = a \o (h \o w)
BY ConcatAssociative

(* Packets that follow those captured so far.                              *)
LEMMA CapturedJoined ==
    ASSUME NEW a \in Seq(Packet), NEW t \in Seq(Packet), NEW s, NEW q \in Nat,
           Captured(s, a), Len(a) + Len(t) = q,
           \A k \in 1 .. Len(t) : t[k].session = s /\ t[k].seq = Len(a) + k
    PROVE  Len(a \o t) = q /\ Captured(s, a \o t)
<1>1. Len(a \o t) = q
  OBVIOUS
<1>2. ASSUME NEW i \in 1 .. Len(a \o t) PROVE (a \o t)[i].session = s /\ (a \o t)[i].seq = i
  <2>1. CASE i \in 1 .. Len(a)
    BY <2>1 DEF Captured
  <2>2. CASE i \notin 1 .. Len(a)
    <3>1. (a \o t)[i] = t[i - Len(a)] /\ i - Len(a) \in 1 .. Len(t)
      BY <2>2
    <3>2. t[i - Len(a)].session = s /\ t[i - Len(a)].seq = Len(a) + (i - Len(a))
      BY <3>1
    <3>3. i \in Int /\ Len(a) \in Int
      OBVIOUS
    <3>4. Len(a) + (i - Len(a)) = i
      BY <3>3
    <3>. QED
      BY <3>1, <3>2, <3>4
  <2>. QED
    BY <2>1, <2>2
<1>. QED
  BY <1>1, <1>2 DEF Captured

(* "refusing silent packet loss" (audio_pipeline.c, audio_task): as long as *)
(* nothing failed, every packet captured is in a file, in the writer's     *)
(* hand or in the queue, in order, across every split.                     *)
THEOREM NothingLostSilently == Spec => []NoSilentLoss
<1>1. ASSUME Inv PROVE NoSilentLoss
  <2>. USE <1>1 DEF Inv
  <2>1. SUFFICES ASSUME writer # "none", ~ failed,
                        NEW all, all = Saved(session) \o InHand \o write_queue
                 PROVE  Len(all) = seq /\ Captured(session, all)
    BY Zenon DEF NoSilentLoss
  <2>2. failed = FALSE /\ started = TRUE
    BY <2>1 DEF FlagType, PlaceInv
  <2>3. PICK n \in Name : IsTail(n)
    BY <2>2 DEF StepInv, Lossless
  <2>4. session \in Nat \ {0} /\ seq \in Nat /\ write_queue \in Seq(Packet)
    <3>1. session # 0
      BY <2>3 DEF IsTail
    <3>2. session \in Nat /\ seq \in Nat
      BY PipelineAssumption DEF CountType, Session
    <3>3. write_queue \in Seq(Packet)
      BY DEF QueueType
    <3>. QED
      BY <3>1, <3>2, <3>3
  <2>5. /\ Saved(session) \in Seq(Packet) /\ Captured(session, Saved(session))
        /\ Len(Saved(session)) = Before(n) + Len(Content(n))
    BY <2>3, <2>4, SavedFacts DEF IsTail
  <2>6. PICK t : t = InHand \o write_queue
    OBVIOUS
  <2>7. /\ t \in Seq(Packet) /\ Len(t) = Unsaved
        /\ \A k \in 1 .. Len(t) : t[k].session = session /\ t[k].seq = seq - Len(t) + k
    <3>1. CASE packet = NoPacket
      <4>1. t = write_queue
        BY <2>4, <2>6, <3>1 DEF InHand
      <4>. QED
        BY <2>4, <3>1, <4>1 DEF Unsaved, QueueInv
    <3>2. CASE packet # NoPacket
      <4>1. t = <<packet>> \o write_queue /\ packet \in Packet
        BY <2>6, <3>2 DEF InHand, QueueType
      <4>2. t \in Seq(Packet) /\ Len(t) = Len(write_queue) + 1 /\ t[1] = packet
        BY <2>4, <4>1
      <4>3. ASSUME NEW k \in 1 .. Len(t), k # 1
            PROVE  t[k].session = session /\ t[k].seq = seq - Len(t) + k
        <5>1. t[k] = write_queue[k - 1] /\ k - 1 \in 1 .. Len(write_queue)
          BY <2>4, <4>1, <4>2, <4>3
        <5>2. write_queue[k - 1].session = session
              /\ write_queue[k - 1].seq = seq - Len(write_queue) + (k - 1)
          BY <5>1 DEF QueueInv
        <5>. QED
          BY <2>4, <4>2, <5>1, <5>2
      <4>4. t[1].session = session /\ t[1].seq = seq - Len(t) + 1
        BY <2>4, <3>2, <4>2 DEF QueueInv
      <4>5. Len(t) = Unsaved
        BY <3>2, <4>2 DEF Unsaved
      <4>. QED
        BY <4>2, <4>3, <4>4, <4>5
    <3>. QED
      BY <3>1, <3>2
  <2>8. all = Saved(session) \o t
    <3>1. InHand \in Seq(Packet)
      BY DEF InHand, QueueType
    <3>2. (Saved(session) \o InHand) \o write_queue = Saved(session) \o (InHand \o write_queue)
      <4>1. write_queue \in Seq(Packet) /\ Saved(session) \in Seq(Packet)
        BY <2>4, <2>5
      <4>2. PICK a \in Seq(Packet), h \in Seq(Packet), w \in Seq(Packet) :
               a = Saved(session) /\ h = InHand /\ w = write_queue
        BY <3>1, <4>1
      <4>3. (a \o h) \o w = a \o (h \o w)
        BY JoinedThrice
      <4>. QED
        BY <4>2, <4>3, Zenon
    <3>. QED
      BY <2>1, <2>6, <3>2, Zenon
  <2>9. Before(n) + Len(Content(n)) + Unsaved = seq
    BY <2>3 DEF IsTail
  <2>10. Len(Saved(session)) + Len(t) = seq
    BY <2>5, <2>7, <2>9
  <2>11. \A k \in 1 .. Len(t) : t[k].session = session /\ t[k].seq = Len(Saved(session)) + k
    <3>1. seq - Len(t) = Len(Saved(session))
      <4>1. Len(t) \in Nat /\ Len(Saved(session)) \in Nat
        BY <2>5, <2>7
      <4>. QED
        BY <2>4, <2>10, <4>1
    <3>. QED
      BY <2>7, <3>1
  <2>12. session \in Nat /\ seq \in Nat /\ Captured(session, Saved(session))
    BY <2>4, <2>5
  <2>13. PICK a \in Seq(Packet), q \in Nat : a = Saved(session) /\ q = seq
    BY <2>5, <2>12
  <2>14. Len(a \o t) = q /\ Captured(session, a \o t)
    <3>1. Captured(session, a) /\ Len(a) + Len(t) = q /\ t \in Seq(Packet)
      BY <2>7, <2>10, <2>12, <2>13
    <3>2. \A k \in 1 .. Len(t) : t[k].session = session /\ t[k].seq = Len(a) + k
      BY <2>11, <2>13
    <3>. HIDE <1>1 DEF Inv
    <3>. QED
      BY <3>1, <3>2, CapturedJoined
  <2>. QED
    BY <2>8, <2>13, <2>14, Zenon
<1>. QED
  BY <1>1, Invariant, PTL

(* audio_pipeline_stop returns OK only with every captured packet in a     *)
(* finished file, and a failure is reported to it and once to the callback *)
(* (audio_pipeline.c, audio_pipeline_stop and report_failure).             *)
THEOREM StopIsHonest == Spec => []StopTellsTheTruth
<1>1. ASSUME Inv PROVE StopTellsTheTruth
  <2>. USE <1>1 DEF Inv
  <2>1. SUFFICES ASSUME app = "stopped", started
                 PROVE  \/ /\ result = "OK" /\ callbacks = 0
                           /\ Len(Saved(session)) = seq
                           /\ \A n \in Name : file_session[n] = session /\ disk[n].packets # << >> =>
                                              disk[n].kind = "final"
                        \/ result = "FAIL" /\ callbacks = 1
    BY Zenon DEF StopTellsTheTruth
  <2>2. audio = "none" /\ writer = "none" /\ result = last_error
    BY <2>1 DEF PlaceInv, TasksExited, ErrorInv
  <2>3. CASE failed = FALSE
    <3>1. started = TRUE
      BY <2>1 DEF FlagType
    <3>2. result = "OK" /\ callbacks = 0
      BY <2>2, <2>3 DEF ErrorInv
    <3>3. open = NoName
      BY <2>1, <2>2 DEF OpenInv, Creating
    <3>4. PICK n \in Name : IsTail(n)
      BY <2>3, <3>1 DEF StepInv, Lossless
    <3>5. write_queue = << >> /\ packet = NoPacket
      BY <2>2, <2>3, <3>1 DEF ExitInv, QueueType
    <3>6. Unsaved = 0
      BY <3>5 DEF Unsaved
    <3>7. session \in Nat \ {0}
      <4>1. session # 0
        BY <3>4 DEF IsTail
      <4>2. session \in Nat
        BY DEF CountType, Session
      <4>. QED
        BY <4>1, <4>2
    <3>8. /\ Saved(session) \in Seq(Packet)
          /\ Len(Saved(session)) = Before(n) + Len(Content(n))
      BY <3>4, <3>7, SavedFacts DEF IsTail
    <3>9. Len(Saved(session)) = seq
      <4>1. Len(Saved(session)) + Unsaved = seq /\ Len(Saved(session)) \in Nat
        <5>1. Before(n) + Len(Content(n)) + Unsaved = seq
          BY <3>4 DEF IsTail
        <5>. QED
          BY <3>8, <5>1
      <4>. QED
        BY <3>6, <4>1
    <3>10. \A m \in Name : file_session[m] = session /\ disk[m].packets # << >> => disk[m].kind = "final"
      BY <2>3, <3>3 DEF KindInv, Name, NoName
    <3>. QED
      BY <3>2, <3>9, <3>10
  <2>4. CASE failed = TRUE
    BY <2>2, <2>4 DEF ErrorInv, Publishing
  <2>. QED
    BY <2>3, <2>4 DEF FlagType
<1>. QED
  BY <1>1, Invariant, PTL
=============================================================================
