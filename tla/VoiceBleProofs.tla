--------------------------- MODULE VoiceBleProofs ---------------------------
(***************************************************************************)
(* Invariants of VoiceBle for every partition size, chunk size, set of     *)
(* transfer ids and announced sizes.                                       *)
(***************************************************************************)
EXTENDS VoiceBle, SequenceTheorems, TLAPS

(* The link: until a disconnect is reported nothing advertises, because    *)
(* s_connected still stands.                                               *)
LinkInv ==
    /\ LinkIsKnown
    /\ late => s_connected
    /\ link # NoConn => ~adv
    /\ link = NoConn => peer_subs = {} /\ upd = "none"

(* The partition holds what was written of the update under way.           *)
UpdateInv ==
    /\ s_ota.active => /\ slot.id = s_ota.id /\ slot.size = s_ota.size
                       /\ slot.data = Units(slot.id, 0, s_ota.written)
                       /\ s_ota.written <= s_ota.size
    /\ BootImageIsWhole
    /\ AppIsTold

(* The interval asked for was handed over, or waits for the end of the     *)
(* update under way; while the application task is between setting the     *)
(* target and its call, or between the call and the flag, neither need be. *)
Settled == handed = s_itvl_target \/ (s_itvl_update_pending /\ upd # "none")

IntervalInv ==
    /\ app \notin {"call", "defer"} /\ link # NoConn /\ s_itvl_target # "none" /\ ~missed => Settled
    /\ app \notin {"call"} /\ link = NoConn /\ ~late => s_itvl_target = "none" \/ missed

Inv == TypeOK /\ LinkInv /\ UpdateInv /\ IntervalInv

-----------------------------------------------------------------------------
(* The types, in parts.                                                    *)
RadioType ==
    /\ {synced, adv, late, s_connected, callout, mute, s_itvl_update_pending, missed} \subseteq BOOLEAN
    /\ link \in Handles \cup {NoConn} /\ s_conn_handle \in Handles \cup {NoConn}
    /\ peer_subs \subseteq Kinds /\ s_subscribed \subseteq Tracked /\ unasked \subseteq Kinds

IntervalType ==
    /\ upd \in {"none", "fast", "slow"} /\ handed \in {"none", "fast", "slow"}
    /\ s_itvl_target \in {"none", "fast", "slow"}
    /\ app \in {"idle", "target", "call", "done", "defer"}

UpdateType ==
    /\ s_ota \in [active : BOOLEAN, id : Nat, size : Nat, written : Nat, next : Nat]
    /\ told \in {"none", "begin", "progress", "error", "abort", "done"}
    /\ slot \in [id : Nat, size : Nat, data : Seq(Nat \X Nat)]
    /\ boot \in {"old", "new"}

(* The type invariant, in parts.                                           *)
LEMMA Parts == TypeOK <=> RadioType /\ IntervalType /\ UpdateType
  BY DEF TypeOK, RadioType, IntervalType, UpdateType

(* The units of a transfer are a sequence of that many.                    *)
LEMMA UnitsType ==
    ASSUME NEW t \in Nat, NEW from \in Nat, NEW len \in Nat
    PROVE  /\ Units(t, from, len) \in Seq(Nat \X Nat) /\ Len(Units(t, from, len)) = len
           /\ \A k \in 1 .. len : Units(t, from, len)[k] = <<t, from + k>>
  BY DEF Units

(* The next units follow those that were written.                          *)
LEMMA UnitsAppend ==
    ASSUME NEW t \in Nat, NEW a \in Nat, NEW b \in Nat
    PROVE  Units(t, 0, a) \o Units(t, a, b) = Units(t, 0, a + b)
<1>0. a + b \in Nat /\ 0 \in Nat
  OBVIOUS
<1>1. PICK u : u = Units(t, 0, a)
  OBVIOUS
<1>2. PICK v : v = Units(t, a, b)
  OBVIOUS
<1>3. PICK w : w = Units(t, 0, a + b)
  OBVIOUS
<1>u. u \in Seq(Nat \X Nat) /\ Len(u) = a /\ \A k \in 1 .. a : u[k] = <<t, k>>
  <2>1. u \in Seq(Nat \X Nat) /\ Len(u) = a /\ \A k \in 1 .. a : u[k] = <<t, 0 + k>>
    BY <1>0, <1>1, UnitsType, ZenonT(30)
  <2>2. \A k \in 1 .. a : 0 + k = k
    BY <1>0
  <2>. QED
    BY <2>1, <2>2
<1>v. v \in Seq(Nat \X Nat) /\ Len(v) = b /\ \A k \in 1 .. b : v[k] = <<t, a + k>>
  BY <1>0, <1>2, UnitsType, ZenonT(30)
<1>w. w \in Seq(Nat \X Nat) /\ Len(w) = a + b /\ \A k \in 1 .. a + b : w[k] = <<t, k>>
  <2>1. w \in Seq(Nat \X Nat) /\ Len(w) = a + b /\ \A k \in 1 .. a + b : w[k] = <<t, 0 + k>>
    BY <1>0, <1>3, UnitsType, ZenonT(30)
  <2>2. \A k \in 1 .. a + b : 0 + k = k
    BY <1>0
  <2>. QED
    BY <2>1, <2>2
<1>4. /\ u \o v \in Seq(Nat \X Nat) /\ Len(u \o v) = a + b
      /\ \A i \in 1 .. a + b : (u \o v)[i] = IF i <= a THEN u[i] ELSE v[i - a]
  BY <1>u, <1>v, ConcatProperties
<1>5. ASSUME NEW i \in 1 .. a + b PROVE (u \o v)[i] = <<t, i>>
  <2>1. CASE i <= a
    BY <1>u, <1>4, <2>1
  <2>2. CASE ~(i <= a)
    <3>1. i - a \in 1 .. b /\ a + (i - a) = i
      BY <1>5, <2>2
    <3>2. (u \o v)[i] = v[i - a]
      BY <1>4, <2>2
    <3>. QED
      BY <1>v, <3>1, <3>2
  <2>. QED
    BY <2>1, <2>2
<1>6. u \o v = w
  BY <1>w, <1>4, <1>5, SeqEqual
<1>. QED
  BY <1>1, <1>2, <1>3, <1>6

(* The next progress mark is a number.                                     *)
LEMMA NextMarkType ==
    ASSUME BleAssumption, NEW written \in Nat, NEW mark \in Nat
    PROVE  NextMark(written, mark) \in Nat
<1>1. ProgressUnits \in Nat /\ written \div ProgressUnits \in Nat
  BY DEF BleAssumption
<1>. DEFINE q == written \div ProgressUnits + 1
<1>2. q \in Nat
  BY <1>1
<1>. HIDE DEF q
<1>3. q * ProgressUnits \in Nat
  BY <1>1, <1>2
<1>. QED
  BY <1>3 DEF NextMark, q

-----------------------------------------------------------------------------
(* All that a write of the update sends is the OTA state.                  *)
LEMMA OtaTellsOtaStateOnly == ASSUME Ota PROVE unasked' \subseteq unasked \cup {"ota_state"}
<1>1. OtaState \/ UNCHANGED unasked
  BY DEF Ota, OtaBegin, OtaBeginFails, OtaFinish, OtaFinishFails, OtaFinishRefused,
         OtaData, OtaDataFails, OtaAbort, OtaError
<1>. QED
  BY <1>1 DEF OtaState, Reaches

(* The link keeps its types.                                               *)
LEMMA RadioNext == ASSUME BleAssumption, TypeOK, Next PROVE RadioType'
<1>0. RadioType
  BY Parts
<1>. USE DEF RadioType, radio, state, retry, interval, update, Kinds, NoConn
<1>1. CASE OnSync \/ Retry \/ OnConnectFails
  BY <1>0, <1>1 DEF OnSync, Retry, OnConnectFails, StartAdvertising
<1>2. CASE HostReset \/ Drop
  BY <1>0, <1>2 DEF HostReset, Drop
<1>3. CASE OnDisconnect
  BY <1>0, <1>3 DEF OnDisconnect, StartAdvertising
<1>4. CASE OnConnUpdate
  BY <1>0, <1>4 DEF OnConnUpdate
<1>5. CASE \E h \in Handles : OnConnect(h)
  BY <1>0, <1>5 DEF OnConnect
<1>6. CASE \/ \E kind \in Tracked : Notify(kind)
           \/ \E kind \in Kinds, on \in BOOLEAN : OnSubscribe(kind, on)
  BY <1>0, <1>6 DEF Notify, Reaches, OnSubscribe, Tracked
<1>7. CASE App
  BY <1>0, <1>7 DEF App, RequestSlow, SetTarget, Called, CallEalready, CallFails, Done, Deferred, AppStep
<1>8. CASE Ota
  <2>1. UNCHANGED <<radio, state, retry>>
    BY <1>8 DEF Ota, OtaBegin, OtaBeginFails, OtaFinish, OtaFinishFails, OtaFinishRefused,
                OtaData, OtaDataFails, OtaAbort, Write
  <2>2. {s_itvl_update_pending, missed}' \subseteq BOOLEAN
    BY <1>0, <1>8 DEF Ota, OtaBegin, OtaBeginFails, OtaFinish, OtaFinishFails, OtaFinishRefused,
                      OtaData, OtaDataFails, OtaAbort, OtaError, Request
  <2>. QED
    BY <1>0, <1>8, <2>1, <2>2, OtaTellsOtaStateOnly
<1>9. CASE Restart
  BY <1>0, <1>9 DEF Restart
<1>. QED
  BY <1>1, <1>2, <1>3, <1>4, <1>5, <1>6, <1>7, <1>8, <1>9 DEF Next, Gap

(* The interval keeps its types.                                           *)
LEMMA IntervalNext == ASSUME TypeOK, Next PROVE IntervalType'
<1>0. IntervalType
  BY Parts
<1>. USE DEF IntervalType, radio, state, retry, interval, update
<1>1. CASE Gap
  BY <1>0, <1>1 DEF Gap, OnSync, Retry, HostReset, OnConnectFails, Drop, OnDisconnect, OnConnUpdate,
                    OnConnect, Notify, OnSubscribe
<1>2. CASE App
  BY <1>0, <1>2 DEF App, RequestSlow, SetTarget, Called, CallEalready, CallFails, Done, Deferred, AppStep
<1>3. CASE Ota
  BY <1>0, <1>3 DEF Ota, OtaBegin, OtaBeginFails, OtaFinish, OtaFinishFails, OtaFinishRefused,
                    OtaData, OtaDataFails, OtaAbort, Write, OtaError, Request
<1>4. CASE Restart
  BY <1>0, <1>4 DEF Restart
<1>. QED
  BY <1>1, <1>2, <1>3, <1>4 DEF Next

-----------------------------------------------------------------------------
(* The update.                                                             *)
LEMMA Given ==
    ASSUME UpdateType, UpdateInv, UNCHANGED <<slot, boot>>,
           \/ s_ota' = Cleared /\ told' \in {"abort", "error"}
           \/ s_ota' = s_ota /\ told' \in {told, "error"}
    PROVE  UpdateType' /\ UpdateInv'
<1>0. Cleared \in [active : BOOLEAN, id : Nat, size : Nat, written : Nat, next : Nat] /\ ~Cleared.active
  BY DEF Cleared
<1>1. UpdateType'
  BY <1>0 DEF UpdateType
<1>2. CASE s_ota' = Cleared
  <2>1. ~s_ota'.active /\ UNCHANGED <<slot, boot>> /\ told' \notin {"begin", "progress"}
    BY <1>0, <1>2, Zenon DEF Cleared, UpdateInv, AppIsTold
  <2>. QED
    BY <1>1, <2>1 DEF UpdateInv, BootImageIsWhole, AppIsTold
<1>3. CASE s_ota' = s_ota /\ told' \in {told, "error"}
  BY <1>1, <1>3 DEF UpdateInv, BootImageIsWhole, AppIsTold
<1>. QED
  BY <1>2, <1>3

(* Every step keeps the types of an update, and UpdateInv.                 *)
LEMMA UpdateNext ==
    ASSUME BleAssumption, TypeOK, UpdateInv, Next
    PROVE  UpdateType' /\ UpdateInv'
<1>0. UpdateType /\ TransferIds \subseteq Nat /\ Sizes \subseteq Nat /\ ProgressUnits \in Nat
  BY Parts DEF BleAssumption
<1>. USE DEF radio, state, retry, interval, update
<1>1. CASE OnDisconnect
  <2>1. UNCHANGED <<slot, boot>>
    BY <1>1 DEF OnDisconnect
  <2>2. (s_ota' = Cleared /\ told' = "abort") \/ UNCHANGED <<s_ota, told>>
    BY <1>1 DEF OnDisconnect
  <2>. QED
    BY <1>0, <2>1, <2>2, Given
<1>2. ASSUME Gap, ~OnDisconnect PROVE UNCHANGED <<s_ota, told, slot, boot>>
  BY <1>2 DEF Gap, OnSync, Retry, HostReset, OnConnectFails, Drop, OnConnUpdate, OnConnect, Notify,
              OnSubscribe
<1>3. CASE App
  <2>1. UNCHANGED <<s_ota, told, slot, boot>>
    BY <1>3 DEF App, RequestSlow, SetTarget, Called, CallEalready, CallFails, Done, Deferred, AppStep
  <2>. QED
    BY <1>0, <2>1, Given
<1>4. ASSUME NEW t \in TransferIds, NEW n \in Sizes, OtaBegin(t, n) \/ OtaBeginFails(t, n)
      PROVE  UpdateType' /\ UpdateInv'
  <2>0. Units(t, 0, 0) = << >> /\ t \in Nat /\ n \in Nat /\ << >> \in Seq(Nat \X Nat)
    BY <1>0 DEF Units
  <2>1. CASE OtaBegin(t, n)
    <3>1. /\ s_ota' = [active |-> TRUE, id |-> t, size |-> n, written |-> 0, next |-> ProgressUnits]
          /\ slot' = [id |-> t, size |-> n, data |-> << >>]
          /\ told' = "begin" /\ boot = "old" /\ boot' = "old"
      BY <2>1 DEF OtaBegin, Erased, Write
    <3>2. UpdateType'
      BY <1>0, <2>0, <3>1 DEF UpdateType
    <3>. QED
      BY <2>0, <3>1, <3>2 DEF UpdateInv, BootImageIsWhole, AppIsTold
  <2>2. CASE OtaBeginFails(t, n)
    <3>1. told' = "error" /\ boot = "old" /\ boot' = "old"
      BY <2>2 DEF OtaBeginFails, OtaError, Write
    <3>2. s_ota' = Cleared \/ (s_ota' = s_ota /\ ~s_ota.active)
      BY <2>2 DEF OtaBeginFails
    <3>3. s_ota' \in [active : BOOLEAN, id : Nat, size : Nat, written : Nat, next : Nat]
      <4>1. Cleared \in [active : BOOLEAN, id : Nat, size : Nat, written : Nat, next : Nat]
        BY DEF Cleared
      <4>. QED
        BY <1>0, <3>2, <4>1, Zenon DEF UpdateType
    <3>4. slot' \in [id : Nat, size : Nat, data : Seq(Nat \X Nat)]
      <4>1. CASE slot' = slot
        BY <1>0, <4>1 DEF UpdateType
      <4>2. CASE slot' = [id |-> t, size |-> n, data |-> << >>]
        BY <2>0, <4>2
      <4>. QED
        BY <2>2, <4>1, <4>2 DEF OtaBeginFails, Erased
    <3>5. ~s_ota'.active
      <4>1. ~Cleared.active
        BY DEF Cleared
      <4>. QED
        BY <3>2, <4>1
    <3>. QED
      BY <3>1, <3>3, <3>4, <3>5 DEF UpdateType, UpdateInv, BootImageIsWhole, AppIsTold
  <2>. QED
    BY <1>4, <2>1, <2>2
<1>5. ASSUME NEW t \in TransferIds, NEW n \in Sizes,
             OtaFinish(t, n) \/ OtaFinishFails(t, n) \/ OtaFinishRefused(t, n)
      PROVE  UpdateType' /\ UpdateInv'
  <2>1. CASE OtaFinish(t, n)
    BY <1>0, <2>1 DEF OtaFinish, Complete, Current, Cleared, Write, UpdateType, UpdateInv,
                      BootImageIsWhole, AppIsTold
  <2>2. CASE OtaFinishFails(t, n) \/ OtaFinishRefused(t, n)
    BY <1>0, <2>2, Given DEF OtaFinishFails, OtaFinishRefused, OtaError
  <2>. QED
    BY <1>5, <2>1, <2>2
<1>6. ASSUME NEW t \in TransferIds, NEW offset \in 0 .. PartitionSize, NEW len \in 0 .. MaxChunk,
             OtaData(t, offset, len)
      PROVE  UpdateType' /\ UpdateInv'
  <2>1. /\ s_ota.active /\ t = s_ota.id /\ offset = s_ota.written
        /\ s_ota.written + len <= s_ota.size /\ len \in Nat /\ boot = "old"
    BY <1>6 DEF OtaData, Fits, Current, Write, BleAssumption
  <2>2. PICK w \in Nat : w = s_ota.written + len
    BY <1>0, <2>1 DEF UpdateType
  <2>3. PICK next \in Nat : s_ota' = [s_ota EXCEPT !.written = w, !.next = next]
    BY <1>0, <1>6, <2>2, NextMarkType DEF OtaData, UpdateType
  <2>4. Units(t, 0, offset) \o Units(t, offset, len) = Units(t, 0, w)
    <3>1. t \in Nat /\ offset \in Nat /\ len \in Nat /\ offset + len = w
      BY <1>0, <2>1, <2>2 DEF UpdateType
    <3>2. Units(t, 0, offset) \o Units(t, offset, len) = Units(t, 0, offset + len)
      BY ONLY <3>1, UnitsAppend, ZenonT(40)
    <3>. QED
      BY <3>1, <3>2, Zenon
  <2>5. slot' = [slot EXCEPT !.data = Units(t, 0, w)]
    <3>1. slot.data = Units(t, 0, offset)
      <4>1. slot.data = Units(slot.id, 0, s_ota.written) /\ slot.id = s_ota.id
        BY <2>1, Zenon DEF UpdateInv
      <4>. QED
        BY <2>1, <4>1, Zenon
    <3>2. slot' = [slot EXCEPT !.data = slot.data \o Units(t, offset, len)]
      BY <1>6 DEF OtaData
    <3>. QED
      BY <2>4, <3>1, <3>2
  <2>6. Units(t, 0, w) \in Seq(Nat \X Nat)
    BY <1>0, UnitsType
  <2>7. told' \in {told, "progress"} /\ boot' = "old"
    BY <1>6, <2>1 DEF OtaData
  <2>8. UpdateType'
    BY <1>0, <2>3, <2>5, <2>6, <2>7 DEF UpdateType
  <2>9. /\ s_ota'.active = s_ota.active /\ s_ota'.id = s_ota.id /\ s_ota'.size = s_ota.size
        /\ s_ota'.written = w /\ slot'.id = slot.id /\ slot'.size = slot.size
        /\ slot'.data = Units(t, 0, w)
    BY <1>0, <2>3, <2>5 DEF UpdateType
  <2>. QED
    BY <2>1, <2>2, <2>7, <2>8, <2>9 DEF UpdateInv, BootImageIsWhole, AppIsTold
<1>7. CASE OtaDataFails \/ OtaAbort
  BY <1>0, <1>7, Given DEF OtaDataFails, OtaAbort, OtaError
<1>8. CASE Restart
  BY <1>0, <1>8 DEF Restart, Erased, Cleared, UpdateType, UpdateInv, BootImageIsWhole, AppIsTold
<1>9. CASE Ota
  BY <1>4, <1>5, <1>6, <1>7, <1>9 DEF Ota
<1>10. CASE Gap
  <2>1. CASE ~OnDisconnect
    BY <1>0, <1>2, <1>10, <2>1, Given
  <2>. QED
    BY <1>1, <2>1
<1>. QED
  BY <1>3, <1>8, <1>9, <1>10 DEF Next

-----------------------------------------------------------------------------
(* The link.                                                               *)
LEMMA LinkNext ==
    ASSUME BleAssumption, TypeOK, LinkInv, Next
    PROVE  LinkInv'
<1>0. RadioType /\ NoConn \notin Handles
  BY Parts DEF BleAssumption, NoConn
<1>. USE DEF RadioType, LinkInv, LinkIsKnown, radio, state, retry, interval, update
<1>1. CASE OnSync \/ Retry \/ OnConnectFails
  BY <1>0, <1>1 DEF OnSync, Retry, OnConnectFails, StartAdvertising
<1>2. CASE HostReset
  <2>1. CASE link = NoConn
    BY <1>0, <1>2, <2>1 DEF HostReset
  <2>2. CASE link # NoConn
    BY <1>0, <1>2, <2>2 DEF HostReset
  <2>. QED
    BY <2>1, <2>2
<1>11. CASE Drop
  <2>1. ~late /\ ~adv /\ s_connected
    BY <1>0, <1>11 DEF Drop
  <2>. QED
    BY <1>0, <1>11, <2>1 DEF Drop
<1>3. CASE OnDisconnect
  BY <1>0, <1>3 DEF OnDisconnect, StartAdvertising
<1>4. CASE OnConnUpdate
  BY <1>0, <1>4 DEF OnConnUpdate
<1>5. ASSUME NEW h \in Handles, OnConnect(h) PROVE LinkInv'
  BY <1>0, <1>5 DEF OnConnect
<1>6. ASSUME NEW kind \in Tracked, Notify(kind) PROVE LinkInv'
  <2>1. kind \in peer_subs
    BY <1>0, <1>6 DEF Notify, MaySend, Reaches, Ready, Tracked
  <2>2. UNCHANGED <<radio, state, interval, unasked>>
    BY <1>6, <2>1 DEF Notify, Reaches
  <2>. QED
    BY <1>0, <2>2
<1>7. ASSUME NEW kind \in Kinds, NEW on \in BOOLEAN, OnSubscribe(kind, on) PROVE LinkInv'
  <2>1. CASE on
    BY <1>0, <1>7, <2>1 DEF OnSubscribe, Tracked, Kinds
  <2>2. CASE ~on
    BY <1>0, <1>7, <2>2 DEF OnSubscribe, Tracked, Kinds
  <2>. QED
    BY <2>1, <2>2
<1>8. CASE App
  BY <1>0, <1>8 DEF App, RequestSlow, SetTarget, Called, CallEalready, CallFails, Done, Deferred, AppStep
<1>9. CASE Ota
  <2>1. link # NoConn /\ UNCHANGED <<radio, state>>
    BY <1>9 DEF Ota, OtaBegin, OtaBeginFails, OtaFinish, OtaFinishFails, OtaFinishRefused,
                OtaData, OtaDataFails, OtaAbort, Write
  <2>2. unasked' \subseteq Kinds \ Tracked
    BY <1>9, OtaTellsOtaStateOnly DEF Kinds, Tracked
  <2>. QED
    BY <2>1, <2>2
<1>10. CASE Restart
  BY <1>0, <1>10 DEF Restart
<1>. QED
  BY <1>1, <1>2, <1>3, <1>4, <1>5, <1>6, <1>7, <1>8, <1>9, <1>10, <1>11 DEF Next, Gap

-----------------------------------------------------------------------------
(* The interval.                                                           *)
LEMMA RequestSettles ==
    ASSUME NEW want \in {"fast", "slow"}, link # NoConn, Request(want), UNCHANGED <<link, late, app>>,
           IntervalInv
    PROVE  IntervalInv'
  BY DEF IntervalInv, Settled, Request, interval

(* Every step keeps IntervalInv.                                           *)
LEMMA SettledNext ==
    ASSUME BleAssumption, TypeOK, LinkInv, IntervalInv, Next
    PROVE  IntervalInv'
<1>0. IntervalType
  BY Parts
<1>. USE DEF IntervalInv, Settled, radio, state, retry, interval, update
<1>1. CASE OnSync \/ Retry \/ OnConnectFails \/ OnDisconnect
  BY <1>1 DEF OnSync, Retry, OnConnectFails, OnDisconnect, LinkInv, LinkIsKnown
<1>2. CASE HostReset \/ Drop
  BY <1>2 DEF HostReset, Drop
<1>3. CASE OnConnUpdate
  BY <1>0, <1>3 DEF OnConnUpdate, IntervalType
<1>4. ASSUME NEW h \in Handles, OnConnect(h) PROVE IntervalInv'
  BY <1>4 DEF OnConnect, LinkInv, LinkIsKnown
<1>5. CASE \/ \E kind \in Tracked : Notify(kind)
           \/ \E kind \in Kinds, on \in BOOLEAN : OnSubscribe(kind, on)
  BY <1>5 DEF Notify, OnSubscribe
<1>6. CASE App
  BY <1>6 DEF App, RequestSlow, SetTarget, Called, CallEalready, CallFails, Done, Deferred, AppStep,
              LinkInv
<1>7. CASE Ota
  <2>1. link # NoConn /\ UNCHANGED <<link, late, app>>
    BY <1>7 DEF Ota, OtaBegin, OtaBeginFails, OtaFinish, OtaFinishFails, OtaFinishRefused,
                OtaData, OtaDataFails, OtaAbort, Write
  <2>2. UNCHANGED interval \/ Request("fast") \/ Request("slow")
    BY <1>7 DEF Ota, OtaBegin, OtaBeginFails, OtaFinish, OtaFinishFails, OtaFinishRefused,
                OtaData, OtaDataFails, OtaAbort, OtaError
  <2>. QED
    BY <2>1, <2>2, RequestSettles
<1>8. CASE Restart
  BY <1>8 DEF Restart
<1>. QED
  BY <1>1, <1>2, <1>3, <1>4, <1>5, <1>6, <1>7, <1>8 DEF Next, Gap

-----------------------------------------------------------------------------
(* The invariant holds after start-up.                                     *)
LEMMA InitInv == ASSUME BleAssumption, Init PROVE Inv
<1>0. << >> \in Seq(Nat \X Nat) /\ NoConn \notin Handles /\ Tracked \subseteq Kinds
  BY DEF BleAssumption, NoConn, Tracked, Kinds
<1>1. TypeOK
  BY <1>0 DEF Init, TypeOK, Cleared, Erased
<1>2. LinkInv
  BY DEF Init, LinkInv, LinkIsKnown
<1>3. UpdateInv
  BY DEF Init, UpdateInv, Cleared, BootImageIsWhole, AppIsTold
<1>4. IntervalInv
  BY DEF Init, IntervalInv
<1>. QED
  BY <1>1, <1>2, <1>3, <1>4 DEF Inv

(* A step that changes nothing keeps the invariant.                        *)
LEMMA StutterInv == ASSUME Inv, UNCHANGED vars PROVE Inv'
  BY DEF Inv, TypeOK, LinkInv, LinkIsKnown, UpdateInv, BootImageIsWhole, AppIsTold, IntervalInv, Settled,
         vars, radio, state, retry, interval, update

(* Every step keeps the invariant.                                         *)
LEMMA NextInv == ASSUME BleAssumption, Inv, Next PROVE Inv'
<1>1. RadioType' /\ IntervalType' /\ UpdateType' /\ UpdateInv' /\ LinkInv' /\ IntervalInv'
  BY RadioNext, IntervalNext, UpdateNext, LinkNext, SettledNext DEF Inv
<1>. QED
  BY <1>1 DEF Inv, TypeOK, RadioType, IntervalType, UpdateType

(* All four parts hold in every state the link and the update reach.       *)
THEOREM Invariance == Spec => []Inv
<1>1. ASSUME Inv, [Next]_vars PROVE Inv'
  BY <1>1, BleAssumption, NextInv, StutterInv
<1>. QED
  BY <1>1, BleAssumption, InitInv, PTL DEF Spec

(* Link, intervals and update keep their types, for any set of connections *)
(* and transfers.                                                          *)
THEOREM TypeCorrect == Spec => []TypeOK
<1>1. Inv => TypeOK
  BY DEF Inv
<1>. QED
  BY <1>1, Invariance, PTL

(* What the device restarts into after an update is the announced image,   *)
(* every unit of one transfer in order, whatever was refused, retried or   *)
(* cut off on the way.                                                     *)
THEOREM BootsOnlyWhatIsWhole == Spec => []BootImageIsWhole
<1>1. Inv => BootImageIsWhole
  BY DEF Inv, UpdateInv
<1>. QED
  BY <1>1, Invariance, PTL

(* The application is never left waiting in an update that is over.        *)
THEOREM UpdateEndIsReported == Spec => []AppIsTold
<1>1. Inv => AppIsTold
  BY DEF Inv, UpdateInv
<1>. QED
  BY <1>1, Invariance, PTL

(* The cached connection is the connection once a disconnect is reported,  *)
(* and audio and recording state go to no peer that did not subscribe to   *)
(* them; of the OTA state the code makes no such promise                   *)
(* (voice_ble.c, gap_event_cb, the send gates and ota_send_state_json).    *)
THEOREM CachedLinkIsTheLink == Spec => []LinkIsKnown
<1>1. Inv => LinkIsKnown
  BY DEF Inv, LinkInv
<1>. QED
  BY <1>1, Invariance, PTL

(* With nothing under way the link runs at the interval asked for last,    *)
(* unless NimBLE refused it or the two tasks met in the request.           *)
THEOREM LastIntervalWins == Spec => []IntervalSettles
<1>1. Inv => IntervalSettles
  BY DEF Inv, IntervalInv, Settled, IntervalSettles
<1>. QED
  BY <1>1, Invariance, PTL
=============================================================================
