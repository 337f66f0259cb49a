-------------------------- MODULE AppControlProofs --------------------------
(***************************************************************************)
(* Invariants of AppControl for every length of the event queue, every set *)
(* of host messages and every number of inputs.                            *)
(***************************************************************************)
EXTENDS AppControl, SequenceTheorems, TLAPS

(* The types, in parts.                                                    *)
EventSet == {"front down", "front up", "side up", "connected", "disconnected",
             "ota begin", "ota progress", "ota end", "sleep", "sync done", "audio error"} \cup UiStates

QueueType == events \in Seq(EventSet) /\ Len(events) <= EventDepth

WordType ==
    /\ task \in {"loop", "start", "stop", "ota stop"}
    /\ ui \in {"ready", "recording", "thinking", "confirm", "error"}
    /\ mode \in {"click", "hold"}
    /\ pipe \in {"off", "on", "ending"} /\ sync \in {"off", "running", "notified"}
    /\ power \in {"on", "sleep", "restart"}

FlagsType ==
    {recording, ota_updating, down, primary, rec_lock, ota_lock, sleep_timer, pipe_failed,
     ota_active, connected, stale, dropped} \subseteq BOOLEAN

InputsType == inputs \in 0 .. MaxInputs

(* The type invariant, in parts.                                           *)
LEMMA Parts == TypeOK <=> QueueType /\ WordType /\ FlagsType /\ InputsType
  BY DEF TypeOK, QueueType, WordType, FlagsType, InputsType, EventSet

-----------------------------------------------------------------------------
(* The queue.                                                              *)
LEMMA PostKeeps ==
    ASSUME ControlAssumption, QueueType, NEW e \in EventSet, Post(e)
    PROVE  /\ QueueType'
           /\ \A x : Queued(x) => Queued(x)'
           /\ dropped => dropped'
           /\ Queued(e)' \/ dropped'
           /\ dropped' \/ (/\ Len(events') = Len(events) + 1
                           /\ events'[Len(events) + 1] = e
                           /\ \A i \in 1 .. Len(events) : events'[i] = events[i])
<1>0. EventDepth \in Nat
  BY DEF ControlAssumption
<1>1. CASE Len(events) < EventDepth
  <2>1. events' = Append(events, e) /\ dropped' = dropped
    BY <1>1 DEF Post
  <2>2. /\ Len(events') = Len(events) + 1 /\ events' \in Seq(EventSet)
        /\ events'[Len(events) + 1] = e
        /\ \A i \in 1 .. Len(events) : events'[i] = events[i]
    BY <2>1 DEF QueueType
  <2>3. QueueType'
    BY <1>0, <1>1, <2>2 DEF QueueType
  <2>4. Len(events) \in Nat
    BY DEF QueueType
  <2>5. Queued(e)' /\ \A x : Queued(x) => Queued(x)'
    BY <2>2, <2>4 DEF Queued
  <2>. QED
    BY <2>1, <2>2, <2>3, <2>5
<1>2. CASE ~(Len(events) < EventDepth)
  BY <1>2 DEF Post, QueueType, Queued
<1>. QED
  BY <1>1, <1>2

(* What two events posted one after the other leave in the queue.          *)
LEMMA BothKeeps ==
    ASSUME ControlAssumption, QueueType, NEW e \in EventSet, NEW f \in EventSet, PostBoth(e, f)
    PROVE  /\ QueueType'
           /\ \A x : Queued(x) => Queued(x)'
           /\ dropped => dropped'
           /\ dropped' \/ (/\ Len(events') = Len(events) + 2
                           /\ events'[Len(events) + 1] = e /\ events'[Len(events) + 2] = f
                           /\ \A i \in 1 .. Len(events) : events'[i] = events[i])
<1>0. EventDepth \in Nat /\ Len(events) \in Nat /\ Len(events) <= EventDepth /\ events \in Seq(EventSet)
  BY DEF ControlAssumption, QueueType
<1>1. PICK room : room = EventDepth - Len(events)
  OBVIOUS
<1>2. PICK n : n = IF room > 2 THEN 2 ELSE room
  OBVIOUS
<1>3. n \in 0 .. 2 /\ Len(events) + n <= EventDepth /\ (room < 2 \/ n = 2)
  BY <1>0, <1>1, <1>2
<1>4. PICK t : t = SubSeq(<<e, f>>, 1, n)
  OBVIOUS
<1>5. t \in Seq(EventSet) /\ Len(t) = n /\ (n = 2 => t[1] = e /\ t[2] = f)
  BY <1>3, <1>4
<1>6. events' = events \o t /\ dropped' = (dropped \/ room < 2)
  BY <1>1, <1>2, <1>4 DEF PostBoth
<1>7. /\ events' \in Seq(EventSet) /\ Len(events') = Len(events) + n
      /\ \A i \in 1 .. Len(events) : events'[i] = events[i]
  BY <1>0, <1>3, <1>5, <1>6
<1>8. QueueType'
  BY <1>0, <1>3, <1>7 DEF QueueType
<1>9. \A x : Queued(x) => Queued(x)'
  BY <1>0, <1>3, <1>7 DEF Queued
<1>10. ASSUME n = 2
       PROVE  events'[Len(events) + 1] = e /\ events'[Len(events) + 2] = f
  <2>1. \A i \in 1 .. Len(events) + 2 :
           (events \o t)[i] = IF i <= Len(events) THEN events[i] ELSE t[i - Len(events)]
    BY <1>0, <1>5, <1>10, ConcatProperties
  <2>2. /\ Len(events) + 1 \in 1 .. Len(events) + 2 /\ Len(events) + 2 \in 1 .. Len(events) + 2
        /\ (Len(events) + 1) - Len(events) = 1 /\ (Len(events) + 2) - Len(events) = 2
        /\ ~(Len(events) + 1 <= Len(events)) /\ ~(Len(events) + 2 <= Len(events))
    BY <1>0
  <2>. QED
    BY <1>5, <1>6, <1>10, <2>1, <2>2
<1>. QED
  BY <1>3, <1>6, <1>7, <1>8, <1>9, <1>10

(* What taking an event leaves in the queue.                               *)
LEMMA TakeKeeps ==
    ASSUME ControlAssumption, QueueType, NEW e, Take(e)
    PROVE  /\ QueueType' /\ e \in EventSet
           /\ Len(events) \in Nat \ {0} /\ Len(events') = Len(events) - 1 /\ events[1] = e
           /\ \A i \in 1 .. Len(events') : events'[i] = events[i + 1]
           /\ \A x : x # e /\ Queued(x) => Queued(x)'
<1>1. /\ events \in Seq(EventSet) /\ events # << >> /\ events[1] = e /\ events' = Tail(events)
  BY DEF Take, QueueType
<1>2. /\ Len(events) \in Nat \ {0} /\ Len(events') = Len(events) - 1 /\ events' \in Seq(EventSet)
      /\ \A i \in 1 .. Len(events') : events'[i] = events[i + 1]
  BY <1>1
<1>3. QueueType' /\ e \in EventSet
  <2>1. EventDepth \in Nat /\ Len(events) <= EventDepth
    BY DEF ControlAssumption, QueueType
  <2>2. Len(events') <= EventDepth
    BY ONLY <1>2, <2>1
  <2>. QED
    BY <1>1, <1>2, <2>2 DEF QueueType
<1>4. ASSUME NEW x, x # e, Queued(x) PROVE Queued(x)'
  <2>1. PICK i \in 1 .. Len(events) : events[i] = x
    BY <1>4 DEF Queued
  <2>2. i # 1
    BY <1>1, <1>4, <2>1
  <2>3. i - 1 \in 1 .. Len(events') /\ (i - 1) + 1 = i
    BY <1>2, <2>2
  <2>4. events'[i - 1] = x
    BY <1>2, <2>1, <2>3
  <2>. QED
    BY <2>3, <2>4 DEF Queued
<1>. QED
  BY <1>1, <1>2, <1>3, <1>4

(* What any step may do to the queue.                                      *)
LEMMA EventStep ==
    ASSUME Next
    PROVE  \/ UNCHANGED <<events, dropped>>
           \/ \E e \in EventSet : Post(e)
           \/ PostBoth("ota end", "disconnected")
           \/ \E e : Take(e) /\ UNCHANGED dropped
<1>. USE DEF control, pipeline, radio, history, EventSet
<1>1. CASE Environment
  BY <1>1 DEF Environment, Button, HostUiState, HostMode, Connect, Disconnect, OtaBegin, OtaData, OtaAbort,
              OtaRefused, OtaRestart, TimerFires, SyncEnds, PipeFails, PipeEnds
<1>2. CASE FrontDownStop \/ FrontDownConfirm \/ FrontDownStart \/ FrontUp \/ SideUp
  BY <1>2 DEF FrontDownStop, FrontDownConfirm, FrontDownStart, FrontUp, SideUp
<1>3. CASE Started \/ StartFails \/ StopReturns \/ StopTimesOut
  BY <1>3 DEF Started, StartFails, StopReturns, StopTimesOut, AfterStop
<1>4. CASE SyncDone \/ BleConnected \/ BleDisconnected \/ AudioError
  BY <1>4 DEF SyncDone, BleConnected, BleDisconnected, AudioError
<1>5. CASE OtaBegun \/ OtaProgressed \/ OtaEnded
  BY <1>5 DEF OtaBegun, OtaProgressed, OtaEnded
<1>6. CASE StayAwake \/ DeepSleep \/ \E s \in UiStates : UiState(s)
  BY <1>6 DEF StayAwake, DeepSleep, UiState
<1>. QED
  BY <1>1, <1>2, <1>3, <1>4, <1>5, <1>6 DEF Next, Handlers

(* The queue keeps its type and its length.                                *)
LEMMA QueueNext ==
    ASSUME ControlAssumption, QueueType, Next
    PROVE  QueueType' /\ (dropped => dropped')
<1>1. CASE UNCHANGED <<events, dropped>>
  BY <1>1 DEF QueueType
<1>2. ASSUME NEW e \in EventSet, Post(e) PROVE QueueType' /\ (dropped => dropped')
  BY <1>2, PostKeeps
<1>3. CASE PostBoth("ota end", "disconnected")
  <2>1. "ota end" \in EventSet /\ "disconnected" \in EventSet
    BY DEF EventSet
  <2>. QED
    BY <1>3, <2>1, BothKeeps
<1>4. ASSUME NEW e, Take(e), UNCHANGED dropped PROVE QueueType' /\ (dropped => dropped')
  BY <1>4, TakeKeeps
<1>. QED
  BY <1>1, <1>2, <1>3, <1>4, EventStep

-----------------------------------------------------------------------------
(* The types of the rest.                                                  *)
LEMMA FlagsNext == ASSUME FlagsType, Next PROVE FlagsType'
<1>. USE DEF FlagsType, control, pipeline, radio, history, Input, RestartTimer, BeginStop
<1>1. CASE Button \/ HostUiState \/ HostMode \/ TimerFires \/ SyncEnds \/ PipeFails \/ PipeEnds
  BY <1>1 DEF Button, HostUiState, HostMode, TimerFires, SyncEnds, PipeFails, PipeEnds, Post
<1>2. CASE Connect \/ Disconnect \/ OtaBegin \/ OtaData \/ OtaAbort \/ OtaRefused \/ OtaRestart
  BY <1>2 DEF Connect, Disconnect, OtaBegin, OtaData, OtaAbort, OtaRefused, OtaRestart, Post, PostBoth
<1>3. CASE FrontDownStop \/ FrontDownConfirm \/ FrontDownStart \/ FrontUp \/ SideUp
  BY <1>3 DEF FrontDownStop, FrontDownConfirm, FrontDownStart, FrontUp, SideUp, MayStart
<1>4. CASE Started \/ StartFails \/ StopReturns \/ StopTimesOut
  BY <1>4 DEF Started, StartFails, StopReturns, StopTimesOut, AfterStop, Post
<1>5. CASE SyncDone \/ BleConnected \/ BleDisconnected \/ AudioError
  BY <1>5 DEF SyncDone, BleConnected, BleDisconnected, AudioError
<1>6. CASE OtaBegun \/ OtaProgressed \/ OtaEnded
  BY <1>6 DEF OtaBegun, OtaProgressed, OtaEnded
<1>7. CASE StayAwake \/ DeepSleep \/ \E s \in UiStates : UiState(s)
  BY <1>7 DEF StayAwake, DeepSleep, UiState
<1>. QED
  BY <1>1, <1>2, <1>3, <1>4, <1>5, <1>6, <1>7 DEF Next, Environment, Handlers

(* Positions and states keep their types.                                  *)
LEMMA WordNext == ASSUME ControlAssumption, WordType, Next PROVE WordType'
<1>0. UiStates \subseteq {"ready", "recording", "thinking", "confirm", "error"}
  BY DEF ControlAssumption
<1>. USE DEF WordType, control, pipeline, radio, history, Input, BeginStop
<1>1. CASE Button \/ HostUiState \/ HostMode \/ TimerFires \/ SyncEnds \/ PipeFails \/ PipeEnds
  BY <1>1, ZenonT(40) DEF Button, HostUiState, HostMode, TimerFires, SyncEnds, PipeFails, PipeEnds
<1>7. CASE Connect \/ Disconnect \/ OtaBegin \/ OtaData \/ OtaAbort \/ OtaRefused \/ OtaRestart
  BY <1>7, ZenonT(40) DEF Connect, Disconnect, OtaBegin, OtaData, OtaAbort, OtaRefused, OtaRestart
<1>2. CASE FrontDownStop \/ FrontDownConfirm \/ FrontDownStart \/ FrontUp \/ SideUp
  BY <1>2, ZenonT(40) DEF FrontDownStop, FrontDownConfirm, FrontDownStart, FrontUp, SideUp
<1>3. CASE Started \/ StartFails \/ StopReturns \/ StopTimesOut
  BY <1>3, ZenonT(40) DEF Started, StartFails, StopReturns, StopTimesOut, AfterStop
<1>4. CASE SyncDone \/ BleConnected \/ BleDisconnected \/ AudioError
  BY <1>4, ZenonT(40) DEF SyncDone, BleConnected, BleDisconnected, AudioError
<1>5. CASE OtaBegun \/ OtaProgressed \/ OtaEnded
  BY <1>5, ZenonT(40) DEF OtaBegun, OtaProgressed, OtaEnded
<1>6. CASE StayAwake \/ DeepSleep
  BY <1>6, ZenonT(40) DEF StayAwake, DeepSleep
<1>8. ASSUME NEW s \in UiStates, UiState(s) PROVE WordType'
  <2>1. ui' \in {ui, s}
    BY <1>8 DEF UiState
  <2>2. UNCHANGED <<task, mode, pipe, sync, power>>
    BY <1>8 DEF UiState
  <2>. QED
    BY <1>0, <2>1, <2>2
<1>. QED
  BY <1>1, <1>2, <1>3, <1>4, <1>5, <1>6, <1>7, <1>8 DEF Next, Environment, Handlers

(* The inputs stay within their bound.                                     *)
LEMMA InputsNext == ASSUME ControlAssumption, InputsType, Next PROVE InputsType'
<1>1. MaxInputs \in Nat /\ inputs \in 0 .. MaxInputs
  BY DEF ControlAssumption, InputsType
<1>2. inputs' = inputs \/ (inputs < MaxInputs /\ inputs' = inputs + 1)
  <2>. USE DEF control, pipeline, radio, history, Input
  <2>1. CASE Environment
    BY <2>1 DEF Environment, Button, HostUiState, HostMode, Connect, Disconnect, OtaBegin, OtaData,
                OtaAbort, OtaRefused, OtaRestart, TimerFires, SyncEnds, PipeFails, PipeEnds
  <2>2. CASE Handlers
    BY <2>2 DEF Handlers, FrontDownStop, FrontDownConfirm, FrontDownStart, FrontUp, SideUp, Started,
                StartFails, StopReturns, StopTimesOut, AfterStop, SyncDone, BleConnected,
                BleDisconnected, AudioError, OtaBegun, OtaProgressed, OtaEnded, StayAwake, DeepSleep,
                UiState
  <2>. QED
    BY <2>1, <2>2 DEF Next
<1>. QED
  BY ONLY <1>1, <1>2 DEF InputsType

-----------------------------------------------------------------------------
(* The order of the events of an update.  Every begin or progress in the   *)
(* queue q is followed by an end once the update is over (Ended), and no   *)
(* disconnect overtakes that end (Ordered).  Position 0 stands for what    *)
(* the application has handled, u.                                         *)
Opens == {"ota begin", "ota progress"}
At(q, u, j) == IF j = 0 THEN u ELSE q[j]
Closed(q, j, k) == \E m \in j + 1 .. k : q[m] = "ota end"
Ended(q, u) == \A j \in 0 .. Len(q) : At(q, u, j) \in Opens => Closed(q, j, Len(q))
Ordered(q, u) ==
    \A i \in 1 .. Len(q) : q[i] = "disconnected"
        => \A j \in 0 .. i - 1 : At(q, u, j) \in Opens => Closed(q, j, i - 1)

(* Handling e, the application goes from u to w.                           *)
Handles(u, e, w) == w \in Opens => e \in Opens \/ (u \in Opens /\ e # "ota end")

(* One event at the end of a well ordered queue.                           *)
LEMMA AppendOrder ==
    ASSUME NEW q \in Seq(EventSet), NEW r \in Seq(EventSet), NEW n \in Nat, Len(q) = n, Len(r) = n + 1,
           \A i \in 1 .. n : r[i] = q[i], NEW u
    PROVE  /\ Ordered(q, u) /\ (r[n + 1] = "disconnected" => Ended(q, u)) => Ordered(r, u)
           /\ r[n + 1] = "ota end" => Ended(r, u)
           /\ r[n + 1] \notin Opens /\ Ended(q, u) => Ended(r, u)
<1>1. ASSUME NEW j \in 0 .. n PROVE At(r, u, j) = At(q, u, j)
  BY <1>1 DEF At
<1>2. ASSUME NEW j \in 0 .. n, NEW k \in 0 .. n, Closed(q, j, k) PROVE Closed(r, j, k)
  <2>1. PICK m \in j + 1 .. k : q[m] = "ota end"
    BY <1>2 DEF Closed
  <2>2. m \in 1 .. n
    OBVIOUS
  <2>3. r[m] = "ota end"
    BY <2>1, <2>2
  <2>. QED
    BY <2>3 DEF Closed
<1>3. ASSUME NEW j \in 0 .. n, Closed(r, j, n) PROVE Closed(r, j, n + 1)
  <2>1. PICK m \in j + 1 .. n : r[m] = "ota end"
    BY <1>3 DEF Closed
  <2>2. m \in j + 1 .. n + 1
    OBVIOUS
  <2>. QED
    BY <2>1, <2>2 DEF Closed
<1>4. ASSUME Ordered(q, u), r[n + 1] = "disconnected" => Ended(q, u) PROVE Ordered(r, u)
  <2>1. ASSUME NEW i \in 1 .. n + 1, r[i] = "disconnected", NEW j \in 0 .. i - 1, At(r, u, j) \in Opens
        PROVE  Closed(r, j, i - 1)
    <3>1. j \in 0 .. n /\ i - 1 \in 0 .. n
      BY <2>1
    <3>2. At(q, u, j) \in Opens
      BY <1>1, <2>1, <3>1
    <3>3. CASE i = n + 1
      <4>1. Closed(q, j, n) /\ i - 1 = n
        BY <1>4, <2>1, <3>1, <3>2, <3>3 DEF Ended
      <4>. QED
        BY <1>2, <3>1, <4>1
    <3>4. CASE i # n + 1
      <4>1. Closed(q, j, i - 1)
        BY <1>4, <2>1, <3>2, <3>4 DEF Ordered
      <4>. QED
        BY <1>2, <3>1, <4>1
    <3>. QED
      BY <3>3, <3>4
  <2>. QED
    BY <2>1 DEF Ordered
<1>5. ASSUME r[n + 1] = "ota end" PROVE Ended(r, u)
  <2>1. ASSUME NEW j \in 0 .. n + 1, At(r, u, j) \in Opens PROVE Closed(r, j, n + 1)
    <3>1. j # n + 1
      <4>1. CASE j = n + 1
        <5>0. j # 0 /\ r[j] = r[n + 1]
          BY <4>1
        <5>1. At(r, u, j) = "ota end"
          BY <1>5, <5>0 DEF At
        <5>. QED
          BY <2>1, <5>1 DEF Opens
      <4>. QED
        BY <4>1
    <3>2. n + 1 \in j + 1 .. n + 1
      BY <3>1
    <3>. QED
      BY <1>5, <3>2 DEF Closed
  <2>. QED
    BY <2>1 DEF Ended
<1>6. ASSUME r[n + 1] \notin Opens, Ended(q, u) PROVE Ended(r, u)
  <2>1. ASSUME NEW j \in 0 .. n + 1, At(r, u, j) \in Opens PROVE Closed(r, j, n + 1)
    <3>1. j \in 0 .. n
      BY <1>6, <2>1 DEF At
    <3>2. Closed(q, j, n)
      BY <1>1, <1>6, <2>1, <3>1 DEF Ended
    <3>. QED
      BY <1>2, <1>3, <3>1, <3>2
  <2>. QED
    BY <2>1 DEF Ended
<1>. QED
  BY <1>4, <1>5, <1>6

(* The end of an update and the disconnect, in this order, at its end.     *)
LEMMA AppendBoth ==
    ASSUME NEW q \in Seq(EventSet), NEW r \in Seq(EventSet), NEW n \in Nat, NEW k \in Nat, k = n + 1,
           Len(q) = n, Len(r) = k + 1,
           r[k] = "ota end", r[k + 1] = "disconnected", \A i \in 1 .. n : r[i] = q[i],
           NEW u, Ordered(q, u)
    PROVE  Ordered(r, u) /\ Ended(r, u)
<1>1. "ota end" \in EventSet /\ "ota end" # "disconnected" /\ "disconnected" \notin Opens
  BY DEF EventSet, Opens
<1>2. PICK e \in EventSet : e = "ota end"
  BY <1>1
<1>3. PICK s \in Seq(EventSet) : /\ Len(s) = Len(q) + 1 /\ s[Len(q) + 1] = "ota end"
                                /\ \A i \in 1 .. Len(q) : s[i] = q[i]
  <2>1. /\ Append(q, e) \in Seq(EventSet) /\ Len(Append(q, e)) = Len(q) + 1
        /\ Append(q, e)[Len(q) + 1] = e
        /\ \A i \in 1 .. Len(q) : Append(q, e)[i] = q[i]
    BY ONLY q \in Seq(EventSet), e \in EventSet, AppendProperties
  <2>. QED
    BY <1>2, <2>1, Zenon
<1>4. Len(s) = k /\ Len(s) = n + 1 /\ s[n + 1] = "ota end" /\ \A i \in 1 .. n : s[i] = q[i]
  BY ONLY <1>3, Len(q) = n, k = n + 1
<1>5. Ordered(s, u) /\ Ended(s, u)
  BY <1>1, <1>3, <1>4, AppendOrder
<1>6. \A i \in 1 .. k : r[i] = s[i]
  <2>1. \A i \in 1 .. k : i \in 1 .. n \/ i = k
    BY ONLY n \in Nat, k \in Nat, k = n + 1
  <2>2. r[k] = s[k]
    BY <1>4
  <2>. QED
    BY <1>4, <2>1, <2>2, Zenon
<1>7. /\ Ordered(s, u) /\ (r[k + 1] = "disconnected" => Ended(s, u)) => Ordered(r, u)
      /\ r[k + 1] \notin Opens /\ Ended(s, u) => Ended(r, u)
  <2>1. s \in Seq(EventSet) /\ Len(s) = k
    BY <1>3, <1>4, Zenon
  <2>. QED
    BY <1>6, <2>1, AppendOrder, Zenon
<1>. QED
  BY <1>1, <1>5, <1>7, Zenon

(* The first event of a well ordered queue is handled.                     *)
LEMMA TailOrder ==
    ASSUME NEW q \in Seq(EventSet), NEW r \in Seq(EventSet), NEW n \in Nat, Len(q) = n + 1, Len(r) = n,
           \A i \in 1 .. n : r[i] = q[i + 1], NEW u, NEW w,
           Handles(u, q[1], w)
    PROVE  /\ Ordered(q, u) => Ordered(r, w)
           /\ Ended(q, u) => Ended(r, w)
<1>1. ASSUME NEW j \in 0 .. n, NEW k \in 0 .. n, Closed(q, j + 1, k + 1) PROVE Closed(r, j, k)
  <2>1. PICK m \in (j + 1) + 1 .. k + 1 : q[m] = "ota end"
    BY <1>1 DEF Closed
  <2>2. m - 1 \in j + 1 .. k /\ m - 1 \in 1 .. n /\ (m - 1) + 1 = m
    OBVIOUS
  <2>. QED
    BY <2>1, <2>2 DEF Closed
<1>2. ASSUME NEW k \in 0 .. n, Closed(q, 0, k + 1), q[1] # "ota end" PROVE Closed(r, 0, k)
  <2>1. PICK m \in 0 + 1 .. k + 1 : q[m] = "ota end"
    BY <1>2 DEF Closed
  <2>2. m # 1
    BY <1>2, <2>1
  <2>3. m - 1 \in 0 + 1 .. k /\ m - 1 \in 1 .. n /\ (m - 1) + 1 = m
    BY <2>2
  <2>. QED
    BY <2>1, <2>3 DEF Closed
<1>3. ASSUME NEW j \in 0 .. n, At(r, w, j) \in Opens, NEW k \in 0 .. n, j <= k,
             \A l \in 0 .. k + 1 : At(q, u, l) \in Opens => Closed(q, l, k + 1)
      PROVE  Closed(r, j, k)
  <2>0. 0 \in 0 .. k + 1 /\ j + 1 \in 0 .. k + 1 /\ j + 1 # 0
    BY <1>3
  <2>1. CASE j # 0
    <3>1. At(q, u, j + 1) \in Opens
      BY <1>3, <2>0, <2>1 DEF At
    <3>. QED
      BY <1>1, <1>3, <2>0, <3>1
  <2>2. CASE j = 0
    <3>1. q[1] \in Opens \/ (u \in Opens /\ q[1] # "ota end")
      <4>1. w \in Opens
        BY <1>3, <2>2 DEF At
      <4>. QED
        BY <4>1 DEF Handles
    <3>2. CASE q[1] \in Opens
      <4>1. At(q, u, j + 1) \in Opens
        BY <2>2, <3>2 DEF At
      <4>. QED
        BY <1>1, <1>3, <2>0, <4>1
    <3>3. CASE u \in Opens /\ q[1] # "ota end"
      <4>1. At(q, u, 0) \in Opens
        BY <3>3 DEF At
      <4>2. Closed(q, 0, k + 1)
        BY <1>3, <2>0, <4>1
      <4>. QED
        BY <1>2, <1>3, <2>2, <3>3, <4>2
    <3>. QED
      BY <3>1, <3>2, <3>3
  <2>. QED
    BY <2>1, <2>2
<1>4. ASSUME Ordered(q, u), NEW i \in 1 .. n, r[i] = "disconnected", NEW j \in 0 .. i - 1,
             At(r, w, j) \in Opens
      PROVE  Closed(r, j, i - 1)
  <2>1. /\ i + 1 \in 1 .. n + 1 /\ (i + 1) - 1 = i /\ i - 1 \in 0 .. n /\ (i - 1) + 1 = i
        /\ j \in 0 .. n /\ j <= i - 1
    BY <1>4
  <2>2. q[i + 1] = "disconnected"
    BY <1>4
  <2>3. \A l \in 0 .. i : At(q, u, l) \in Opens => Closed(q, l, i)
    BY <1>4, <2>1, <2>2 DEF Ordered
  <2>. QED
    BY <1>3, <1>4, <2>1, <2>3
<1>5. ASSUME Ended(q, u), NEW j \in 0 .. n, At(r, w, j) \in Opens PROVE Closed(r, j, n)
  BY <1>3, <1>5 DEF Ended
<1>. QED
  BY <1>4, <1>5 DEF Ordered, Ended

Updating == IF ota_updating THEN "ota begin" ELSE "ota end"

OrderInv ==
    dropped = FALSE => /\ Ordered(events, Updating)
                       /\ ota_active = FALSE => Ended(events, Updating)

(* What may be posted when: a disconnect and nothing but an end come when  *)
(* the update is over.                                                     *)
Timely(e) ==
    /\ e = "disconnected" => ota_active = FALSE
    /\ ota_active' = FALSE => e \notin Opens /\ (e = "ota end" \/ ota_active = FALSE)

(* A posted event keeps the queue in order.                                *)
LEMMA OrderPost ==
    ASSUME ControlAssumption, QueueType, FlagsType, OrderInv, NEW e \in EventSet, Post(e), Timely(e),
           UNCHANGED ota_updating
    PROVE  OrderInv'
<1>. SUFFICES ASSUME dropped' = FALSE
              PROVE  /\ Ordered(events', Updating')
                     /\ ota_active' = FALSE => Ended(events', Updating')
  BY DEF OrderInv
<1>1. Len(events) \in Nat /\ events \in Seq(EventSet) /\ events' \in Seq(EventSet)
  BY PostKeeps DEF QueueType
<1>2. /\ Len(events') = Len(events) + 1 /\ events'[Len(events) + 1] = e
      /\ \A i \in 1 .. Len(events) : events'[i] = events[i]
  BY PostKeeps
<1>3. dropped = FALSE /\ Updating' = Updating
  BY PostKeeps DEF FlagsType, Updating
<1>4. Ordered(events, Updating) /\ (ota_active = FALSE => Ended(events, Updating))
  BY <1>3 DEF OrderInv
<1>5. /\ Ordered(events, Updating) /\ (e = "disconnected" => Ended(events, Updating))
            => Ordered(events', Updating)
      /\ e = "ota end" => Ended(events', Updating)
      /\ e \notin Opens /\ Ended(events, Updating) => Ended(events', Updating)
  BY <1>1, <1>2, AppendOrder
<1>6. Ordered(events', Updating)
  BY <1>4, <1>5, Zenon DEF Timely
<1>7. ASSUME ota_active' = FALSE PROVE Ended(events', Updating)
  BY <1>4, <1>5, <1>7, Zenon DEF Timely
<1>. QED
  BY <1>3, <1>6, <1>7

(* An update ended by a disconnect keeps the queue in order.               *)
LEMMA OrderBoth ==
    ASSUME ControlAssumption, QueueType, FlagsType, OrderInv, PostBoth("ota end", "disconnected"),
           UNCHANGED ota_updating
    PROVE  OrderInv'
<1>. SUFFICES ASSUME dropped' = FALSE
              PROVE  Ordered(events', Updating') /\ Ended(events', Updating')
  BY DEF OrderInv
<1>1. "ota end" \in EventSet /\ "disconnected" \in EventSet
  BY DEF EventSet
<1>2. dropped => dropped'
  BY <1>1, BothKeeps
<1>3. Len(events) \in Nat /\ events \in Seq(EventSet) /\ events' \in Seq(EventSet)
  <2>1. QueueType /\ QueueType'
    BY <1>1, BothKeeps
  <2>. QED
    BY ONLY <2>1 DEF QueueType
<1>4. /\ Len(events') = Len(events) + 2
      /\ events'[Len(events) + 1] = "ota end" /\ events'[Len(events) + 2] = "disconnected"
      /\ \A i \in 1 .. Len(events) : events'[i] = events[i]
  BY <1>1, BothKeeps
<1>5. dropped = FALSE /\ Updating' = Updating
  BY <1>2 DEF FlagsType, Updating
<1>6. Ordered(events, Updating)
  BY <1>5 DEF OrderInv
<1>7. Ordered(events', Updating) /\ Ended(events', Updating)
  <2>1. PICK n \in Nat : n = Len(events)
    BY <1>3
  <2>2. PICK k \in Nat : k = n + 1
    BY ONLY <2>1
  <2>3. k + 1 = n + 2
    BY ONLY <2>1, <2>2
  <2>4. /\ Len(events') = k + 1 /\ events'[k] = "ota end" /\ events'[k + 1] = "disconnected"
        /\ \A i \in 1 .. n : events'[i] = events[i]
    BY ONLY <1>4, <2>1, <2>2, <2>3
  <2>. QED
    BY <1>3, <1>6, <2>1, <2>2, <2>4, AppendBoth, Zenon
<1>. QED
  BY <1>5, <1>7

(* A handled event keeps the queue in order.                               *)
LEMMA OrderTake ==
    ASSUME ControlAssumption, QueueType, OrderInv, NEW e, Take(e), Handles(Updating, e, Updating'),
           UNCHANGED <<ota_active, dropped>>
    PROVE  OrderInv'
<1>1. events \in Seq(EventSet) /\ events' \in Seq(EventSet) /\ Len(events') \in Nat
  BY TakeKeeps DEF QueueType
<1>2. /\ Len(events) = Len(events') + 1 /\ events[1] = e
      /\ \A i \in 1 .. Len(events') : events'[i] = events[i + 1]
  BY <1>1, TakeKeeps
<1>3. Handles(Updating, events[1], Updating')
  BY <1>2
<1>4. /\ Ordered(events, Updating) => Ordered(events', Updating')
      /\ Ended(events, Updating) => Ended(events', Updating')
  BY <1>1, <1>2, <1>3, TailOrder
<1>. QED
  BY <1>4 DEF OrderInv

(* What does not touch queue and update keeps the order.                   *)
LEMMA OrderKept ==
    ASSUME OrderInv, UNCHANGED <<events, dropped, ota_updating, ota_active>>
    PROVE  OrderInv'
  BY DEF OrderInv, Updating

-----------------------------------------------------------------------------
(* The invariants.  An update is only active over a connection.            *)
LinkInv == connected = FALSE => ota_active = FALSE

(* What the application knows of its locks, and in which state it waits.   *)
LockInv ==
    /\ task = "loop" => rec_lock = recording
    /\ task # "loop" => recording = FALSE
    /\ task = "start" => ota_updating = FALSE /\ sync = "off"
    /\ task = "ota stop" => ota_updating = TRUE
    /\ ota_lock = TRUE => ota_updating = TRUE

(* While a recording runs or is about to, nothing else does: an update     *)
(* that came in between has its begin event in the queue.                  *)
Busy == recording = TRUE \/ task = "start"

RecInv ==
    /\ pipe = "on" => recording = TRUE \/ stale = TRUE
    /\ recording = TRUE => sync = "off"
    /\ Busy /\ ota_active = TRUE => dropped = TRUE \/ Queued("ota begin")
    /\ power # "on" => dropped = TRUE \/ recording = FALSE

(* Someone is left to arm the sleep timer of an idle device.               *)
Idle == task \in {"loop", "start"} /\ recording = FALSE /\ ota_updating = FALSE
SleepInv == Idle => sleep_timer = TRUE \/ dropped = TRUE \/ Queued("sleep")

Alive == power = "on" => OrderInv /\ SleepInv

Inv == TypeOK /\ LinkInv /\ LockInv /\ RecInv /\ Alive

-----------------------------------------------------------------------------
(* What a step leaves in the queue.                                        *)
LEMMA PostsKeep ==
    ASSUME ControlAssumption, QueueType, Environment \/ Started \/ StartFails \/ StopReturns \/ StopTimesOut
    PROVE  /\ \A x : Queued(x) => Queued(x)'
           /\ dropped => dropped'
<1>. USE DEF control, pipeline, radio, history, EventSet
<1>0. \/ UNCHANGED <<events, dropped>>
      \/ \E e \in EventSet : Post(e)
      \/ PostBoth("ota end", "disconnected")
  <2>1. CASE Environment
    BY <2>1 DEF Environment, Button, HostUiState, HostMode, Connect, Disconnect, OtaBegin, OtaData,
                OtaAbort, OtaRefused, OtaRestart, TimerFires, SyncEnds, PipeFails, PipeEnds
  <2>2. CASE Started \/ StartFails \/ StopReturns \/ StopTimesOut
    BY <2>2 DEF Started, StartFails, StopReturns, StopTimesOut, AfterStop
  <2>. QED
    BY <2>1, <2>2
<1>1. CASE UNCHANGED <<events, dropped>>
  BY <1>1 DEF Queued
<1>2. ASSUME NEW e \in EventSet, Post(e)
      PROVE  /\ \A x : Queued(x) => Queued(x)'
             /\ dropped => dropped'
  BY <1>2, PostKeeps
<1>3. CASE PostBoth("ota end", "disconnected")
  <2>1. "ota end" \in EventSet /\ "disconnected" \in EventSet
    OBVIOUS
  <2>. QED
    BY <1>3, <2>1, BothKeeps
<1>. QED
  BY <1>0, <1>1, <1>2, <1>3

-----------------------------------------------------------------------------
(* Every step keeps LinkInv.                                               *)
LEMMA LinkNext == ASSUME FlagsType, LinkInv, Next PROVE LinkInv'
<1>. USE DEF LinkInv, FlagsType, control, pipeline, radio, history, Input
<1>1. CASE Button \/ HostUiState \/ HostMode \/ TimerFires \/ SyncEnds \/ PipeFails \/ PipeEnds
  BY <1>1 DEF Button, HostUiState, HostMode, TimerFires, SyncEnds, PipeFails, PipeEnds
<1>2. CASE Connect \/ Disconnect
  BY <1>2 DEF Connect, Disconnect
<1>3. CASE OtaBegin \/ OtaData \/ OtaAbort \/ OtaRefused \/ OtaRestart
  BY <1>3 DEF OtaBegin, OtaData, OtaAbort, OtaRefused, OtaRestart
<1>4. CASE Handlers
  BY <1>4 DEF Handlers, FrontDownStop, FrontDownConfirm, FrontDownStart, FrontUp, SideUp, Started,
              StartFails, StopReturns, StopTimesOut, AfterStop, SyncDone, BleConnected,
              BleDisconnected, AudioError, OtaBegun, OtaProgressed, OtaEnded, StayAwake, DeepSleep,
              UiState
<1>. QED
  BY <1>1, <1>2, <1>3, <1>4 DEF Next, Environment

(* Every step keeps LockInv.                                               *)
LEMMA LockNext == ASSUME FlagsType, WordType, LockInv, Next PROVE LockInv'
<1>0. /\ rec_lock \in BOOLEAN /\ recording \in BOOLEAN /\ ota_updating \in BOOLEAN
      /\ ota_lock \in BOOLEAN
      /\ task \in {"loop", "start", "stop", "ota stop"} /\ sync \in {"off", "running", "notified"}
  BY DEF FlagsType, WordType
<1>. USE DEF LockInv
<1>1. CASE Environment
  <2>1. /\ UNCHANGED <<task, recording, ota_updating, rec_lock, ota_lock>>
        /\ sync' = sync \/ sync # "off"
    BY <1>1 DEF Environment, Button, HostUiState, HostMode, Connect, Disconnect, OtaBegin, OtaData,
                OtaAbort, OtaRefused, OtaRestart, TimerFires, SyncEnds, PipeFails, PipeEnds,
                control, pipeline, radio, history
  <2>. QED
    BY <2>1
<1>2. CASE FrontDownStop \/ FrontUp
  BY <1>0, <1>2 DEF FrontDownStop, FrontUp, Take, BeginStop, radio, pipeline, history
<1>3. CASE FrontDownConfirm \/ SyncDone \/ BleConnected
  BY <1>0, <1>3 DEF FrontDownConfirm, SyncDone, BleConnected, Take, radio, pipeline, history, control
<1>4. CASE FrontDownStart
  BY <1>0, <1>4 DEF FrontDownStart, Take, MayStart, radio
<1>5. CASE Started \/ StartFails
  BY <1>0, <1>5 DEF Started, StartFails, radio
<1>6. CASE StopReturns \/ StopTimesOut
  BY <1>0, <1>6 DEF StopReturns, StopTimesOut, AfterStop, radio
<1>7. CASE SideUp
  BY <1>0, <1>7 DEF SideUp, Take, control
<1>8. CASE BleDisconnected \/ AudioError
  BY <1>0, <1>8 DEF BleDisconnected, AudioError, Take, radio
<1>9. CASE OtaBegun
  BY <1>0, <1>9 DEF OtaBegun, Take, BeginStop, radio
<1>10. CASE OtaProgressed \/ OtaEnded
  BY <1>0, <1>10 DEF OtaProgressed, OtaEnded, Take, radio
<1>11. CASE StayAwake \/ DeepSleep \/ \E s \in UiStates : UiState(s)
  BY <1>0, <1>11 DEF StayAwake, DeepSleep, UiState, Take, radio, control
<1>. QED
  BY <1>1, <1>2, <1>3, <1>4, <1>5, <1>6, <1>7, <1>8, <1>9, <1>10, <1>11 DEF Next, Handlers

(* RecInv, clause by clause.                                               *)
LEMMA RunningIsKnown ==
    ASSUME FlagsType, WordType, pipe = "on" => recording = TRUE \/ stale = TRUE, Next
    PROVE  pipe' = "on" => recording' = TRUE \/ stale' = TRUE
<1>0. pipe \in {"off", "on", "ending"} /\ recording \in BOOLEAN /\ stale \in BOOLEAN
  BY DEF FlagsType, WordType
<1>1. CASE Environment
  <2>1. UNCHANGED <<recording, stale>> /\ (pipe' = pipe \/ pipe' # "on")
    BY <1>1 DEF Environment, Button, HostUiState, HostMode, Connect, Disconnect, OtaBegin, OtaData,
                OtaAbort, OtaRefused, OtaRestart, TimerFires, SyncEnds, PipeFails, PipeEnds,
                control, pipeline, radio, history
  <2>. QED
    BY <2>1
<1>2. CASE FrontDownStop \/ FrontUp
  BY <1>0, <1>2 DEF FrontDownStop, FrontUp, BeginStop, history
<1>3. CASE FrontDownConfirm \/ FrontDownStart \/ SideUp \/ SyncDone \/ BleConnected
  BY <1>3 DEF FrontDownConfirm, FrontDownStart, SideUp, SyncDone, BleConnected, pipeline, history, control
<1>4. CASE Started \/ StartFails
  BY <1>4 DEF Started, StartFails, pipeline
<1>5. CASE StopReturns \/ StopTimesOut
  BY <1>5 DEF StopReturns, StopTimesOut, AfterStop, pipeline, history
<1>6. CASE BleDisconnected \/ AudioError
  BY <1>0, <1>6 DEF BleDisconnected, AudioError, pipeline, history
<1>7. CASE OtaBegun
  BY <1>0, <1>7 DEF OtaBegun, BeginStop, history
<1>8. CASE OtaProgressed \/ OtaEnded
  BY <1>8 DEF OtaProgressed, OtaEnded, pipeline, history
<1>9. CASE StayAwake \/ DeepSleep \/ \E s \in UiStates : UiState(s)
  BY <1>9 DEF StayAwake, DeepSleep, UiState, pipeline, history, control
<1>. QED
  BY <1>1, <1>2, <1>3, <1>4, <1>5, <1>6, <1>7, <1>8, <1>9 DEF Next, Handlers

(* No step has a sync and a recording at once.                             *)
LEMMA NoSyncBeside ==
    ASSUME FlagsType, LockInv, recording = TRUE => sync = "off", Next
    PROVE  recording' = TRUE => sync' = "off"
<1>0. recording \in BOOLEAN
  BY DEF FlagsType
<1>1. CASE Environment
  <2>1. UNCHANGED recording /\ (sync' = sync \/ sync # "off")
    BY <1>1 DEF Environment, Button, HostUiState, HostMode, Connect, Disconnect, OtaBegin, OtaData,
                OtaAbort, OtaRefused, OtaRestart, TimerFires, SyncEnds, PipeFails, PipeEnds,
                control, pipeline, radio, history
  <2>. QED
    BY <2>1
<1>2. CASE Started
  BY <1>2 DEF Started, LockInv, radio
<1>3. CASE SideUp
  BY <1>0, <1>3 DEF SideUp, control
<1>4. CASE Handlers /\ ~Started /\ ~SideUp
  <2>1. UNCHANGED sync /\ (recording' = recording \/ recording' = FALSE)
    BY <1>4 DEF Handlers, FrontDownStop, FrontDownConfirm, FrontDownStart, FrontUp,
                StartFails, StopReturns, StopTimesOut, AfterStop, SyncDone, BleConnected,
                BleDisconnected, AudioError, OtaBegun, OtaProgressed, OtaEnded, StayAwake, DeepSleep,
                UiState, BeginStop, control, radio
  <2>. QED
    BY <2>1
<1>. QED
  BY <1>1, <1>2, <1>3, <1>4 DEF Next

(* An update that began beside a recording stays announced.                *)
LEMMA UpdateIsAnnounced ==
    ASSUME ControlAssumption, QueueType, FlagsType, LockInv,
           Busy /\ ota_active = TRUE => dropped = TRUE \/ Queued("ota begin"), Next
    PROVE  Busy' /\ ota_active' = TRUE => dropped' = TRUE \/ Queued("ota begin")'
<1>0. recording \in BOOLEAN /\ dropped \in BOOLEAN /\ dropped' \in BOOLEAN /\ ota_active \in BOOLEAN
  BY FlagsNext DEF FlagsType
<1>1. ASSUME Environment \/ Started \/ StartFails \/ StopReturns \/ StopTimesOut,
             Busy' => Busy, ota_active' = ota_active
      PROVE  Busy' /\ ota_active' = TRUE => dropped' = TRUE \/ Queued("ota begin")'
  BY <1>0, <1>1, PostsKeep
<1>2. ASSUME NEW e, Take(e), e # "ota begin", UNCHANGED dropped, Busy' => Busy, ota_active' = ota_active
      PROVE  Busy' /\ ota_active' = TRUE => dropped' = TRUE \/ Queued("ota begin")'
  BY <1>2, TakeKeeps
<1>3. CASE Environment
  <2>1. UNCHANGED Busy
    BY <1>3 DEF Environment, Button, HostUiState, HostMode, Connect, Disconnect, OtaBegin, OtaData,
                OtaAbort, OtaRefused, OtaRestart, TimerFires, SyncEnds, PipeFails, PipeEnds,
                control, pipeline, radio, history, Busy
  <2>2. CASE ota_active' = ota_active
    BY <1>1, <1>3, <2>1, <2>2
  <2>3. CASE ota_active' # ota_active /\ ota_active' = TRUE
    <3>1. Post("ota begin")
      BY <1>3, <2>3 DEF Environment, Button, HostUiState, HostMode, Connect, Disconnect, OtaBegin, OtaData,
                OtaAbort, OtaRefused, OtaRestart, TimerFires, SyncEnds, PipeFails, PipeEnds,
                control, pipeline, radio, history
    <3>2. "ota begin" \in EventSet
      BY DEF EventSet
    <3>. QED
      BY <1>0, <3>1, <3>2, PostKeeps
  <2>. QED
    BY <2>2, <2>3
<1>4. CASE Started
  BY <1>1, <1>4 DEF Started, Busy, radio
<1>5. CASE StartFails \/ StopReturns \/ StopTimesOut
  <2>1. UNCHANGED <<recording, ota_active>> /\ task' = "loop"
    BY <1>5 DEF StartFails, StopReturns, StopTimesOut, AfterStop, radio
  <2>. QED
    BY <1>1, <1>5, <2>1 DEF Busy
<1>6. CASE FrontDownStart
  <2>1. Take("front down") /\ UNCHANGED <<recording, ota_active, dropped>> /\ task' \in {"start", "loop"}
        /\ (task' = "start" => ota_active = FALSE)
    BY <1>0, <1>6 DEF FrontDownStart, MayStart, radio, history
  <2>2. CASE task' = "start"
    BY <2>1, <2>2
  <2>3. CASE task' = "loop"
    BY <1>2, <2>1, <2>3 DEF Busy
  <2>. QED
    BY <2>1, <2>2, <2>3
<1>7. CASE OtaBegun
  <2>1. Busy' = FALSE
    BY <1>0, <1>7 DEF OtaBegun, Take, BeginStop, Busy
  <2>. QED
    BY <2>1
<1>8. CASE \/ FrontDownStop \/ FrontDownConfirm \/ FrontUp \/ SideUp \/ SyncDone \/ BleConnected
           \/ BleDisconnected \/ AudioError \/ OtaProgressed \/ OtaEnded \/ StayAwake \/ DeepSleep
           \/ \E s \in UiStates : UiState(s)
  <2>1. PICK e : Take(e) /\ e # "ota begin" /\ UNCHANGED <<dropped, ota_active>>
    BY <1>8 DEF FrontDownStop, FrontDownConfirm, FrontUp, SideUp, SyncDone, BleConnected,
              BleDisconnected, AudioError, OtaProgressed, OtaEnded, StayAwake, DeepSleep,
              UiState, ControlAssumption, radio, history
  <2>2. /\ task' \in {task, "stop"}
        /\ recording' = recording \/ recording' = FALSE
    BY <1>8 DEF FrontDownStop, FrontDownConfirm, FrontUp, SideUp, SyncDone, BleConnected,
              BleDisconnected, AudioError, OtaProgressed, OtaEnded, StayAwake, DeepSleep,
              UiState, BeginStop, control
  <2>3. Busy' => Busy
    BY <2>2 DEF Busy
  <2>. QED
    BY <1>2, <2>1, <2>3
<1>. QED
  BY <1>3, <1>4, <1>5, <1>6, <1>7, <1>8 DEF Next, Handlers

(* No step sleeps or restarts under a recording.                           *)
LEMMA NoRestartBeside ==
    ASSUME FlagsType, LockInv, RecInv, Next
    PROVE  power' # "on" => dropped' = TRUE \/ recording' = FALSE
<1>0. recording \in BOOLEAN /\ ota_active \in BOOLEAN
  BY DEF FlagsType
<1>1. CASE OtaRestart
  BY <1>0, <1>1 DEF OtaRestart, RecInv, Busy, Queued, control, history
<1>2. CASE DeepSleep
  BY <1>0, <1>2 DEF DeepSleep
<1>3. CASE Next /\ ~OtaRestart /\ ~DeepSleep
  <2>1. CASE Environment
    BY <1>3, <2>1 DEF Environment, Button, HostUiState, HostMode, Connect, Disconnect, OtaBegin, OtaData,
                OtaAbort, OtaRefused, TimerFires, SyncEnds, PipeFails, PipeEnds, Input
  <2>2. CASE Handlers
    BY <1>3, <2>2 DEF Handlers, FrontDownStop, FrontDownConfirm, FrontDownStart, FrontUp, SideUp,
                Started, StartFails, StopReturns, StopTimesOut, AfterStop, SyncDone, BleConnected,
                BleDisconnected, AudioError, OtaBegun, OtaProgressed, OtaEnded, StayAwake, UiState, Take
  <2>. QED
    BY <1>3, <2>1, <2>2 DEF Next
<1>. QED
  BY <1>1, <1>2, <1>3

(* Every step keeps RecInv.                                                *)
LEMMA RecNext ==
    ASSUME ControlAssumption, QueueType, FlagsType, WordType, LockInv, RecInv, Next
    PROVE  RecInv'
<1>1. pipe' = "on" => recording' = TRUE \/ stale' = TRUE
  BY RunningIsKnown DEF RecInv
<1>2. recording' = TRUE => sync' = "off"
  BY NoSyncBeside DEF RecInv
<1>3. Busy' /\ ota_active' = TRUE => dropped' = TRUE \/ Queued("ota begin")'
  BY UpdateIsAnnounced DEF RecInv
<1>4. power' # "on" => dropped' = TRUE \/ recording' = FALSE
  BY NoRestartBeside
<1>. QED
  BY <1>1, <1>2, <1>3, <1>4 DEF RecInv

-----------------------------------------------------------------------------
(* Every step is taken by a device that is on.                             *)
LEMMA StepIsOn == ASSUME Next PROVE power = "on"
<1>1. CASE Environment
  BY <1>1 DEF Environment, Button, HostUiState, HostMode, Connect, Disconnect, OtaBegin, OtaData,
              OtaAbort, OtaRefused, OtaRestart, TimerFires, SyncEnds, PipeFails, PipeEnds, Input
<1>2. CASE Handlers
  BY <1>2 DEF Handlers, FrontDownStop, FrontDownConfirm, FrontDownStart, FrontUp, SideUp,
              Started, StartFails, StopReturns, StopTimesOut, AfterStop, SyncDone, BleConnected,
              BleDisconnected, AudioError, OtaBegun, OtaProgressed, OtaEnded, StayAwake, DeepSleep,
              UiState, Take
<1>. QED
  BY <1>1, <1>2 DEF Next

(* What happens outside of the handlers keeps the queue in order.          *)
LEMMA OrderEnvironment ==
    ASSUME ControlAssumption, QueueType, FlagsType, LinkInv, OrderInv, Environment, power' = "on"
    PROVE  OrderInv'
<1>0. /\ ota_active \in BOOLEAN /\ connected \in BOOLEAN /\ UNCHANGED ota_updating
      /\ UiStates \subseteq {"ready", "recording", "thinking", "confirm", "error"}
  BY DEF FlagsType, ControlAssumption, Environment, Button, HostUiState, HostMode, Connect, Disconnect,
         OtaBegin, OtaData, OtaAbort, OtaRefused, OtaRestart, TimerFires, SyncEnds, PipeFails,
         PipeEnds, control
<1>1. ASSUME NEW e \in EventSet, Post(e), e \notin Opens, e # "disconnected", UNCHANGED ota_active
      PROVE  OrderInv'
  <2>1. Timely(e)
    BY <1>1 DEF Timely
  <2>. QED
    BY <1>0, <1>1, <2>1, OrderPost
<1>2. ASSUME Post("ota end") PROVE OrderInv'
  <2>1. Timely("ota end") /\ "ota end" \in EventSet
    BY DEF Timely, Opens, EventSet
  <2>. QED
    BY <1>0, <1>2, <2>1, OrderPost
<1>3. ASSUME NEW e \in Opens, Post(e), ota_active' = TRUE PROVE OrderInv'
  <2>1. Timely(e) /\ e \in EventSet
    BY <1>3 DEF Timely, Opens, EventSet
  <2>. QED
    BY <1>0, <1>3, <2>1, OrderPost
<1>4. ASSUME Post("disconnected"), ota_active = FALSE, ota_active' = FALSE PROVE OrderInv'
  <2>1. Timely("disconnected") /\ "disconnected" \in EventSet
    BY <1>4 DEF Timely, Opens, EventSet
  <2>. QED
    BY <1>0, <1>4, <2>1, OrderPost
<1>5. CASE Button \/ TimerFires \/ PipeFails \/ HostUiState
  <2>1. UNCHANGED ota_active
    BY <1>5 DEF Button, TimerFires, PipeFails, HostUiState, radio
  <2>2. PICK e \in EventSet : Post(e) /\ e \notin Opens /\ e # "disconnected"
    BY <1>0, <1>5 DEF Button, TimerFires, PipeFails, HostUiState, EventSet, Opens
  <2>. QED
    BY <1>1, <2>1, <2>2
<1>6. CASE HostMode \/ PipeEnds
  BY <1>0, <1>6, OrderKept DEF HostMode, PipeEnds, radio, history
<1>7. CASE SyncEnds
  <2>1. "sync done" \in EventSet /\ "sync done" \notin Opens /\ "sync done" # "disconnected"
    BY DEF EventSet, Opens
  <2>2. UNCHANGED ota_active /\ (Post("sync done") \/ UNCHANGED <<events, dropped>>)
    BY <1>7 DEF SyncEnds
  <2>. QED
    BY <1>0, <1>1, <2>1, <2>2, OrderKept
<1>8. CASE Connect
  <2>1. "connected" \in EventSet /\ "connected" \notin Opens /\ "connected" # "disconnected"
    BY DEF EventSet, Opens
  <2>2. ota_active = FALSE /\ UNCHANGED ota_active
    BY <1>0, <1>8 DEF Connect, LinkInv
  <2>3. Post("connected") \/ Post("disconnected")
    BY <1>8 DEF Connect
  <2>. QED
    BY <1>1, <1>4, <2>1, <2>2, <2>3
<1>9. CASE Disconnect
  <2>1. /\ ota_active' = FALSE
        /\ (ota_active = TRUE /\ PostBoth("ota end", "disconnected"))
              \/ (ota_active = FALSE /\ Post("disconnected"))
    BY <1>0, <1>9 DEF Disconnect
  <2>. QED
    BY <1>0, <1>4, <2>1, OrderBoth
<1>10. CASE OtaBegin
  <2>1. (ota_active' = TRUE /\ Post("ota begin")) \/ Post("ota end")
    BY <1>10 DEF OtaBegin
  <2>. QED
    BY <1>2, <1>3, <2>1 DEF Opens
<1>11. CASE OtaData
  <2>1. (ota_active' = TRUE /\ Post("ota progress")) \/ Post("ota end")
    BY <1>0, <1>11 DEF OtaData, radio
  <2>. QED
    BY <1>2, <1>3, <2>1 DEF Opens
<1>12. CASE OtaAbort \/ OtaRefused
  BY <1>2, <1>12 DEF OtaAbort, OtaRefused
<1>13. CASE OtaRestart
  BY <1>13 DEF OtaRestart
<1>. QED
  BY <1>5, <1>6, <1>7, <1>8, <1>9, <1>10, <1>11, <1>12, <1>13 DEF Environment

(* The handlers keep the queue in order.                                   *)
LEMMA OrderHandlers ==
    ASSUME ControlAssumption, QueueType, FlagsType, OrderInv, Handlers
    PROVE  OrderInv'
<1>0. ota_updating \in BOOLEAN /\ UiStates \subseteq {"ready", "recording", "thinking", "confirm", "error"}
  BY DEF FlagsType, ControlAssumption
<1>1. ASSUME NEW e, Take(e), UNCHANGED <<ota_active, dropped>>,
             \/ e # "ota end" /\ UNCHANGED ota_updating
             \/ e \in Opens
             \/ ota_updating' = FALSE
      PROVE  OrderInv'
  <2>1. Handles(Updating, e, Updating')
    <3>1. CASE e # "ota end" /\ UNCHANGED ota_updating
      BY <3>1, Zenon DEF Handles, Updating
    <3>2. CASE e \in Opens
      BY <3>2, Zenon DEF Handles
    <3>3. CASE ota_updating' = FALSE
      <4>1. Updating' \notin Opens
        BY <3>3 DEF Updating, Opens
      <4>. QED
        BY <4>1, Zenon DEF Handles
    <3>. QED
      BY <1>1, <3>1, <3>2, <3>3
  <2>. QED
    BY <1>1, <2>1, OrderTake
<1>2. CASE Started \/ StopReturns \/ StopTimesOut
  BY <1>2, OrderKept DEF Started, StopReturns, StopTimesOut, AfterStop, radio, history
<1>3. CASE StartFails
  <2>1. /\ UNCHANGED <<ota_updating, ota_active>>
        /\ Post("audio error") \/ UNCHANGED <<events, dropped>>
    BY <1>3 DEF StartFails, radio
  <2>2. ASSUME Post("audio error") PROVE OrderInv'
    <3>1. Timely("audio error") /\ "audio error" \in EventSet
      BY <2>1 DEF Timely, Opens, EventSet
    <3>. QED
      BY <2>1, <2>2, <3>1, OrderPost
  <2>. QED
    BY <2>1, <2>2, OrderKept
<1>4. CASE OtaBegun \/ OtaProgressed
  <2>1. PICK e \in Opens : Take(e) /\ UNCHANGED <<ota_active, dropped>>
    BY <1>4 DEF OtaBegun, OtaProgressed, Opens, radio, history
  <2>. QED
    BY <1>1, <2>1
<1>5. CASE OtaEnded \/ BleDisconnected
  <2>1. PICK e : Take(e) /\ UNCHANGED <<ota_active, dropped>> /\ ota_updating' = FALSE
    BY <1>5 DEF OtaEnded, BleDisconnected, radio, history
  <2>. QED
    BY <1>1, <2>1
<1>6. CASE \/ FrontDownStop \/ FrontDownConfirm \/ FrontDownStart \/ FrontUp \/ SideUp \/ SyncDone
           \/ BleConnected \/ AudioError \/ StayAwake \/ DeepSleep \/ \E s \in UiStates : UiState(s)
  <2>1. PICK e : Take(e) /\ UNCHANGED <<ota_active, dropped>> /\ e # "ota end" /\ UNCHANGED ota_updating
    BY <1>0, <1>6 DEF FrontDownStop, FrontDownConfirm, FrontDownStart, FrontUp, SideUp, SyncDone,
          BleConnected, AudioError, StayAwake, DeepSleep, UiState, radio, history, control
  <2>. QED
    BY <1>1, <2>1
<1>. QED
  BY <1>2, <1>3, <1>4, <1>5, <1>6 DEF Handlers

(* Every step leaves somebody who arms the sleep timer.                    *)
LEMMA SleepNext ==
    ASSUME ControlAssumption, QueueType, FlagsType, WordType, OrderInv, SleepInv, Next, power' = "on"
    PROVE  SleepInv'
<1>0. /\ recording \in BOOLEAN /\ ota_updating \in BOOLEAN /\ dropped \in BOOLEAN
      /\ sleep_timer \in BOOLEAN /\ dropped' \in BOOLEAN
      /\ UiStates \subseteq {"ready", "recording", "thinking", "confirm", "error"}
  BY FlagsNext DEF FlagsType, ControlAssumption
<1>1. ASSUME Environment \/ StartFails, Idle' => Idle, sleep_timer' = sleep_timer
      PROVE  SleepInv'
  BY <1>0, <1>1, PostsKeep DEF SleepInv
<1>2. ASSUME NEW e, Take(e), e # "sleep", UNCHANGED <<dropped, sleep_timer>>, Idle' => Idle
      PROVE  SleepInv'
  BY <1>2, TakeKeeps DEF SleepInv
<1>3. ASSUME sleep_timer' = (~recording' /\ ~ota_updating') PROVE SleepInv'
  BY <1>0, <1>3, FlagsNext DEF SleepInv, Idle, FlagsType
<1>4. CASE TimerFires
  <2>1. Post("sleep") /\ "sleep" \in EventSet
    BY <1>4 DEF TimerFires, EventSet
  <2>. QED
    BY <1>0, <2>1, PostKeeps DEF SleepInv
<1>5. CASE Environment /\ ~TimerFires
  <2>1. UNCHANGED <<task, recording, ota_updating, sleep_timer>>
    BY <1>5 DEF Environment, Button, HostUiState, HostMode, Connect, Disconnect, OtaBegin, OtaData,
                OtaAbort, OtaRefused, OtaRestart, SyncEnds, PipeFails, PipeEnds, control
  <2>. QED
    BY <1>1, <1>5, <2>1 DEF Idle
<1>6. CASE StartFails
  <2>1. Idle' => Idle
    BY <1>6 DEF StartFails, Idle
  <2>. QED
    BY <1>1, <1>6, <2>1 DEF StartFails
<1>7. CASE Started \/ FrontDownStop \/ FrontUp
  <2>1. CASE Started
    BY <2>1 DEF Started, SleepInv, Idle
  <2>2. CASE FrontDownStop
    BY <2>2 DEF FrontDownStop, BeginStop, SleepInv, Idle
  <2>3. CASE FrontUp
    BY <1>0, <1>3, <2>3 DEF FrontUp, BeginStop, SleepInv, Idle, RestartTimer
  <2>. QED
    BY <1>7, <2>1, <2>2, <2>3
<1>8. CASE FrontDownConfirm \/ FrontDownStart \/ SideUp \/ BleConnected \/ StayAwake
  <2>1. /\ sleep_timer' = (~recording /\ ~ota_updating)
        /\ UNCHANGED <<recording, ota_updating>>
    BY <1>8 DEF FrontDownConfirm, FrontDownStart, SideUp, BleConnected, StayAwake, RestartTimer, control
  <2>. QED
    BY <1>3, <2>1
<1>9. CASE AudioError \/ OtaEnded
  BY <1>0, <1>3, <1>9 DEF AudioError, OtaEnded, RestartTimer
<1>10. CASE StopReturns \/ StopTimesOut
  <2>1. sleep_timer' = (~FALSE /\ ~ota_updating) /\ UNCHANGED ota_updating
    BY <1>10 DEF StopReturns, StopTimesOut, AfterStop, RestartTimer
  <2>. QED
    BY <1>0, <2>1 DEF SleepInv, Idle
<1>11. CASE SyncDone
  BY <1>2, <1>11 DEF SyncDone, history, control, Idle
<1>12. CASE BleDisconnected
  <2>1. Take("disconnected") /\ UNCHANGED <<dropped, sleep_timer, recording, task>>
    BY <1>12 DEF BleDisconnected, history
  <2>2. CASE ota_updating = FALSE
    BY <1>2, <2>1, <2>2 DEF Idle
  <2>3. CASE ota_updating = TRUE
    <3>1. Len(events) \in Nat \ {0} /\ events[1] = "disconnected"
      BY <2>1, TakeKeeps
    <3>2. dropped = TRUE
      <4>1. SUFFICES ASSUME dropped = FALSE PROVE FALSE
        BY <1>0
      <4>2. Ordered(events, Updating)
        BY <4>1 DEF OrderInv
      <4>3. 1 \in 1 .. Len(events) /\ 0 \in 0 .. 1 - 1
        BY <3>1
      <4>4. At(events, Updating, 0) \in Opens
        BY <2>3 DEF At, Updating, Opens
      <4>5. Closed(events, 0, 1 - 1)
        BY <3>1, <4>2, <4>3, <4>4 DEF Ordered
      <4>6. \A m \in 0 + 1 .. 1 - 1 : FALSE
        OBVIOUS
      <4>. QED
        BY <4>5, <4>6 DEF Closed
    <3>. QED
      BY <2>1, <3>2 DEF SleepInv
  <2>. QED
    BY <1>0, <2>2, <2>3
<1>13. CASE OtaBegun \/ OtaProgressed
  BY <1>13 DEF OtaBegun, OtaProgressed, SleepInv, Idle
<1>14. CASE DeepSleep
  BY <1>14 DEF DeepSleep
<1>15. ASSUME NEW s \in UiStates, UiState(s) PROVE SleepInv'
  <2>1. Take(s) /\ s # "sleep" /\ UNCHANGED <<dropped, task, recording, ota_updating>>
    BY <1>0, <1>15 DEF UiState, history
  <2>2. CASE s = "ready" /\ ~recording
    BY <1>0, <1>15, <2>1, <2>2 DEF UiState, RestartTimer, SleepInv, Idle
  <2>3. CASE ~(s = "ready" /\ ~recording)
    <3>1. UNCHANGED sleep_timer
      BY <1>15, <2>3 DEF UiState
    <3>. QED
      BY <1>2, <2>1, <3>1 DEF Idle
  <2>. QED
    BY <2>2, <2>3
<1>. QED
  BY <1>4, <1>5, <1>6, <1>7, <1>8, <1>9, <1>10, <1>11, <1>12, <1>13, <1>14, <1>15 DEF Next, Handlers

-----------------------------------------------------------------------------
(* The invariant holds after start-up.                                     *)
LEMMA InitInv == ASSUME ControlAssumption, Init PROVE Inv
<1>0. EventDepth \in Nat /\ MaxInputs \in Nat
  BY DEF ControlAssumption
<1>1. QueueType
  BY <1>0 DEF Init, QueueType
<1>2. WordType /\ FlagsType
  BY DEF Init, WordType, FlagsType
<1>3. InputsType
  BY <1>0 DEF Init, InputsType
<1>4. TypeOK
  BY <1>1, <1>2, <1>3, Parts
<1>5. LinkInv /\ LockInv
  BY DEF Init, LinkInv, LockInv
<1>6. RecInv
  BY DEF Init, RecInv, Busy
<1>7. OrderInv
  <2>1. Len(events) = 0 /\ Updating = "ota end"
    BY DEF Init, Updating
  <2>2. At(events, Updating, 0) \notin Opens
    BY <2>1 DEF At, Opens
  <2>3. Ordered(events, Updating)
    <3>1. \A i \in 1 .. 0 : FALSE
      OBVIOUS
    <3>. QED
      BY <2>1, <3>1, Zenon DEF Ordered
  <2>4. Ended(events, Updating)
    <3>1. \A j \in 0 .. 0 : j = 0
      OBVIOUS
    <3>. QED
      BY <2>1, <2>2, <3>1, Zenon DEF Ended
  <2>. QED
    BY <2>3, <2>4 DEF OrderInv
<1>8. SleepInv
  BY DEF Init, SleepInv
<1>. QED
  BY <1>4, <1>5, <1>6, <1>7, <1>8 DEF Inv, Alive

(* Every step keeps the invariant.                                         *)
LEMMA NextInv == ASSUME ControlAssumption, Inv, Next PROVE Inv'
<1>1. QueueType /\ WordType /\ FlagsType /\ InputsType /\ power = "on"
  BY StepIsOn, Parts DEF Inv
<1>2. QueueType' /\ WordType' /\ FlagsType' /\ InputsType'
  BY <1>1, QueueNext, WordNext, FlagsNext, InputsNext
<1>3. TypeOK'
  BY <1>2 DEF TypeOK, QueueType, WordType, FlagsType, InputsType, EventSet
<1>4. LinkInv' /\ LockInv' /\ RecInv'
  BY <1>1, LinkNext, LockNext, RecNext DEF Inv
<1>5. ASSUME power' = "on" PROVE OrderInv' /\ SleepInv'
  <2>1. OrderInv /\ SleepInv /\ LinkInv
    BY <1>1 DEF Inv, Alive
  <2>2. OrderInv'
    BY <1>1, <1>5, <2>1, OrderEnvironment, OrderHandlers DEF Next
  <2>3. SleepInv'
    BY <1>1, <1>5, <2>1, SleepNext
  <2>. QED
    BY <2>2, <2>3
<1>. QED
  BY <1>3, <1>4, <1>5 DEF Inv, Alive

(* So does a step that changes nothing.                                    *)
LEMMA StutterInv == ASSUME Inv, UNCHANGED vars PROVE Inv'
<1>. USE DEF vars, control, pipeline, radio, history
<1>1. TypeOK'
  BY ZenonT(40) DEF Inv, TypeOK
<1>2. LinkInv' /\ LockInv'
  BY DEF Inv, LinkInv, LockInv
<1>3. RecInv'
  BY DEF Inv, RecInv, Busy, Queued
<1>4. Alive'
  BY DEF Inv, Alive, OrderInv, Updating, SleepInv, Idle, Queued
<1>. QED
  BY <1>1, <1>2, <1>3, <1>4 DEF Inv

(* All parts hold in every state the application reaches.                  *)
THEOREM Invariance == Spec => []Inv
<1>. USE ControlAssumption
<1>1. Init => Inv
  BY InitInv
<1>2. Inv /\ [Next]_vars => Inv'
  BY NextInv, StutterInv
<1>. QED
  BY <1>1, <1>2, PTL DEF Spec

(* Types of the application's state, and the event queue never holds more  *)
(* than it was made for.                                                   *)
THEOREM TypeCorrect == Spec => []TypeOK
<1>1. Inv => TypeOK
  BY DEF Inv
<1>. QED
  BY <1>1, Invariance, PTL

(* Between two events the power-management locks are held exactly while a  *)
(* recording is shown, and the update's lock ends with the update.         *)
THEOREM NoLockIsLeaked == Spec => []LocksBalanced
<1>1. Inv => LocksBalanced
  BY Parts DEF Inv, LockInv, LocksBalanced, FlagsType
<1>. QED
  BY <1>1, Invariance, PTL

(* The application knows of every running recording, unless the error of   *)
(* an earlier one reached it late.                                         *)
THEOREM RecordingIsKnown == Spec => []NoForgottenRecording
<1>1. Inv => NoForgottenRecording
  BY Parts DEF Inv, RecInv, NoForgottenRecording, FlagsType
<1>. QED
  BY <1>1, Invariance, PTL

(* No sync, no deep sleep and no restart into a new image meets a running  *)
(* recording the application knows of, unless the begin of the update was  *)
(* dropped.                                                                *)
THEOREM NothingMeetsARecording == Spec => []RecordingUndisturbed
<1>1. Inv => RecordingUndisturbed
  BY Parts DEF Inv, RecInv, RecordingUndisturbed, FlagsType
<1>. QED
  BY <1>1, Invariance, PTL

(* Whatever comes in, an idle device has its sleep timer armed or the      *)
(* timer's event on the way, unless an event was dropped.                  *)
THEOREM IdleDeviceWillSleep == Spec => []SleepTimerLives
<1>1. Inv => SleepTimerLives
  BY Parts DEF Inv, Alive, SleepInv, Idle, SleepTimerLives, FlagsType
<1>. QED
  BY <1>1, Invariance, PTL
=============================================================================
