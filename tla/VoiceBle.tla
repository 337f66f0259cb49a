------------------------------ MODULE VoiceBle ------------------------------
(***************************************************************************)
(* The BLE link of firmware/components/voice_ble/voice_ble.c: advertising, *)
(* the connection and what the peer subscribed to, the connection          *)
(* interval, and the firmware update that arrives as GATT writes.          *)
(*                                                                         *)
(* NimBLE runs every callback to its end in one task, the host task; each  *)
(* is one action.  The application task asks for the slow interval from    *)
(* outside (RequestSlow ... Deferred), one access to shared state at a     *)
(* time.  The controller and the peer are external: a connection ends      *)
(* first (Drop) and is reported later (OnDisconnect), the host is reset    *)
(* and synchronises again, and any call into NimBLE or esp_ota may fail.   *)
(* An image is its units; unit k of the image of transfer t is <<t, k>>.   *)
(***************************************************************************)
EXTENDS Integers, Sequences

CONSTANTS TransferIds,     \* ids the host may choose
          Sizes,           \* sizes the host may announce, in units
          PartitionSize,   \* size of the update partition
          MaxChunk,        \* longest payload of one write
          ProgressUnits,   \* OTA_PROGRESS_NOTIFY_BYTES
          Handles          \* connection handles

ASSUME BleAssumption ==
    /\ TransferIds \subseteq Nat /\ Sizes \subseteq Nat
    /\ PartitionSize \in Nat /\ MaxChunk \in Nat
    /\ ProgressUnits \in Nat \ {0}
    /\ Handles \subseteq Nat \ {0}

NoConn == 0                \* BLE_HS_CONN_HANDLE_NONE

VARIABLES
    synced, adv,                  \* the NimBLE host, and ble_gap_adv_active()
    link, peer_subs,              \* the connection, what its peer subscribed to
    late,                         \* a disconnect that is not reported yet
    upd, handed,                  \* parameters being negotiated, last handed over
    s_connected, s_subscribed, s_conn_handle,
    callout, mute,                \* retry armed; the last try armed none
    s_itvl_target, s_itvl_update_pending,
    missed,                       \* history: the last request went astray
    app,                          \* the application task in request_slow_interval
    s_ota, told,                  \* told: the last event s_ota_cb gave the application
    slot, boot,                   \* the update partition, the boot partition
    unasked                       \* history: notified without a subscription

radio == <<synced, adv, link, peer_subs, late>>
state == <<s_connected, s_subscribed, s_conn_handle>>
retry == <<callout, mute>>
interval == <<upd, handed, s_itvl_target, s_itvl_update_pending, missed>>
update == <<s_ota, told, slot, boot>>
vars == <<radio, state, retry, interval, app, update, unasked>>

Kinds == {"audio", "state", "ota_state"}    \* the characteristics that notify
Tracked == {"audio", "state"}               \* those with an s_..._subscribed
Cleared == [active |-> FALSE, id |-> 0, size |-> 0, written |-> 0, next |-> 0]
Erased(t, n) == [id |-> t, size |-> n, data |-> << >>]
Units(t, from, len) == [k \in 1 .. len |-> <<t, from + k>>]

(* voice_ble_init has succeeded, the host has not synchronised yet         *)
Init ==
    /\ synced = FALSE /\ adv = FALSE
    /\ link = NoConn /\ peer_subs = {} /\ late = FALSE
    /\ upd = "none" /\ handed = "none"
    /\ s_connected = FALSE /\ s_subscribed = {} /\ s_conn_handle = NoConn
    /\ callout = FALSE /\ mute = FALSE
    /\ s_itvl_target = "none" /\ s_itvl_update_pending = FALSE /\ missed = FALSE
    /\ app = "idle"
    /\ s_ota = Cleared /\ told = "none"
    /\ slot = Erased(0, 0) /\ boot = "old"
    /\ unasked = {}

-----------------------------------------------------------------------------
(* Advertising.                                                            *)

(* Mutant: the retry is not armed.                                         *)
StartAdvertisingOnce(connected, on, armed) ==
    IF connected \/ on THEN adv' = on /\ callout' = armed /\ UNCHANGED mute
    ELSE \/ synced /\ adv' = TRUE /\ callout' = armed /\ mute' = FALSE
         \/ adv' = FALSE /\ callout' = armed /\ mute' = FALSE
         \/ adv' = FALSE /\ callout' = armed /\ mute' = TRUE

(* start_advertising, with s_connected, ble_gap_adv_active() and the       *)
(* callout as they are at the call                                         *)
StartAdvertising(connected, on, armed) ==
    IF connected \/ on THEN adv' = on /\ callout' = armed /\ UNCHANGED mute
    ELSE \/ synced /\ adv' = TRUE /\ callout' = armed /\ mute' = FALSE
         \/ adv' = FALSE /\ callout' = TRUE /\ mute' = FALSE
         \/ adv' = FALSE /\ callout' = armed /\ mute' = TRUE   \* its data refused

(* on_sync; the address cannot be inferred: nothing is started             *)
OnSync ==
    /\ boot = "old" /\ ~synced
    /\ synced' = TRUE
    /\ \/ adv' \in BOOLEAN /\ StartAdvertising(s_connected, adv, callout)
       \/ UNCHANGED <<adv, callout>> /\ mute' = TRUE
    /\ UNCHANGED <<link, peer_subs, late, state, interval, app, update, unasked>>

(* adv_retry_callout_cb                                                    *)
Retry ==
    /\ boot = "old" /\ callout
    /\ IF s_connected \/ adv THEN callout' = FALSE /\ UNCHANGED <<adv, mute>>
                             ELSE StartAdvertising(FALSE, FALSE, FALSE)
    /\ UNCHANGED <<synced, link, peer_subs, late, state, interval, app, update, unasked>>

(* the controller is lost: on_reset only logs                              *)
HostReset ==
    /\ boot = "old" /\ synced
    /\ synced' = FALSE /\ adv' = FALSE
    /\ link' = NoConn /\ peer_subs' = {} /\ late' = (late \/ link # NoConn)
    /\ upd' = "none" /\ handed' = "none"
    /\ UNCHANGED <<state, retry, s_itvl_target, s_itvl_update_pending, missed, app, update,
                   unasked>>

-----------------------------------------------------------------------------
(* The connection: gap_event_cb.                                           *)

OnConnect(h) ==
    /\ boot = "old" /\ adv /\ link = NoConn
    /\ link' = h /\ adv' = FALSE /\ peer_subs' = {}
    /\ s_connected' = TRUE /\ s_subscribed' = {} /\ s_conn_handle' = h
    /\ UNCHANGED <<synced, late, retry, interval, app, update, unasked>>

OnConnectFails ==
    /\ boot = "old" /\ adv /\ link = NoConn
    /\ StartAdvertising(s_connected, FALSE, callout)
    /\ UNCHANGED <<synced, link, peer_subs, late, state, interval, app, update, unasked>>

Drop ==
    /\ link # NoConn
    /\ link' = NoConn /\ peer_subs' = {} /\ late' = TRUE
    /\ upd' = "none" /\ handed' = "none"
    /\ UNCHANGED <<synced, adv, state, retry, s_itvl_target, s_itvl_update_pending, missed, app,
                   update, unasked>>

(* Mutant: what the peer had subscribed to stays.                          *)
OnDisconnectKeeps ==
    /\ boot = "old" /\ late
    /\ late' = FALSE
    /\ IF s_ota.active THEN s_ota' = Cleared /\ told' = "abort" ELSE UNCHANGED <<s_ota, told>>
    /\ s_connected' = FALSE /\ s_conn_handle' = NoConn
    /\ s_itvl_target' = "none" /\ s_itvl_update_pending' = FALSE /\ missed' = FALSE
    /\ StartAdvertising(FALSE, adv, callout)
    /\ UNCHANGED <<synced, link, peer_subs, upd, handed, app, slot, boot, s_subscribed, unasked>>

(* an update under way is aborted, all that is cached is cleared           *)
OnDisconnect ==
    /\ boot = "old" /\ late
    /\ late' = FALSE
    /\ IF s_ota.active THEN s_ota' = Cleared /\ told' = "abort" ELSE UNCHANGED <<s_ota, told>>
    /\ s_connected' = FALSE /\ s_subscribed' = {} /\ s_conn_handle' = NoConn
    /\ s_itvl_target' = "none" /\ s_itvl_update_pending' = FALSE /\ missed' = FALSE
    /\ StartAdvertising(FALSE, adv, callout)
    /\ UNCHANGED <<synced, link, peer_subs, upd, handed, app, slot, boot, unasked>>

(* the cached connection is brought in line with the event's; who asked for *)
(* the OTA state is not kept                                               *)
OnSubscribe(kind, on) ==
    /\ boot = "old" /\ link # NoConn
    /\ peer_subs' = IF on THEN peer_subs \cup {kind} ELSE peer_subs \ {kind}
    /\ s_connected' = TRUE /\ s_conn_handle' = link
    /\ s_subscribed' = IF on THEN s_subscribed \cup ({kind} \cap Tracked)
                             ELSE s_subscribed \ {kind}
    /\ UNCHANGED <<synced, adv, link, late, retry, interval, app, update, unasked>>

Ready == s_connected /\ s_subscribed = Tracked

(* voice_ble_send_audio, send_state_json and the calls that build on it:   *)
(* what the gate lets through reaches the peer, if it is still there       *)
MaySend(kind) ==
    /\ s_connected /\ s_conn_handle # NoConn
    /\ IF kind = "audio" THEN Ready ELSE "state" \in s_subscribed

Reaches(kind) == link = s_conn_handle /\ unasked' = unasked \cup ({kind} \ peer_subs)

Notify(kind) ==
    /\ MaySend(kind) /\ Reaches(kind)
    /\ UNCHANGED <<radio, state, retry, interval, app, update>>

-----------------------------------------------------------------------------
(* The connection interval.                                                *)

(* voice_ble_request_fast_interval, _slow_interval in the host task; NimBLE *)
(* answers EALREADY while an update is under way                           *)
Request(want) ==
    IF ~s_connected THEN UNCHANGED interval
    ELSE /\ s_itvl_target' = want
         /\ \/ /\ link # NoConn /\ upd = "none"
               /\ upd' = want /\ handed' = want
               /\ s_itvl_update_pending' = FALSE /\ missed' = FALSE
            \/ /\ link # NoConn /\ upd # "none"
               /\ s_itvl_update_pending' = TRUE /\ missed' = FALSE
               /\ UNCHANGED <<upd, handed>>
            \/ /\ missed' = TRUE                            \* any other failure
               /\ UNCHANGED <<upd, handed, s_itvl_update_pending>>

(* Mutant: a request that was put off is not made again.                   *)
OnConnUpdateForgets ==
    /\ boot = "old" /\ link # NoConn
    /\ upd' \in {upd, "none"}
    /\ s_itvl_update_pending' = FALSE
    /\ UNCHANGED <<radio, state, retry, handed, s_itvl_target, missed, app, update, unasked>>

(* BLE_GAP_EVENT_CONN_UPDATE, the peer's own updates included; its status  *)
(* is not looked at                                                        *)
OnConnUpdate ==
    /\ boot = "old" /\ link # NoConn
    /\ \E ours \in {upd # "none", FALSE} :
          LET left == IF ours THEN "none" ELSE upd IN
          IF ~s_itvl_update_pending \/ s_itvl_target = "none"
          THEN /\ upd' = left
               /\ s_itvl_update_pending' = FALSE
               /\ UNCHANGED <<handed, s_itvl_target, missed>>
          ELSE /\ UNCHANGED s_itvl_target
               /\ \/ /\ left = "none"
                     /\ upd' = s_itvl_target /\ handed' = s_itvl_target
                     /\ s_itvl_update_pending' = FALSE /\ UNCHANGED missed
                  \/ /\ left # "none"
                     /\ UNCHANGED <<upd, handed, s_itvl_update_pending, missed>>
                  \/ /\ upd' = left /\ s_itvl_update_pending' = FALSE
                     /\ missed' = TRUE /\ UNCHANGED handed
    /\ UNCHANGED <<radio, state, retry, app, update, unasked>>

(* voice_ble_request_slow_interval in the application task                 *)
AppStep(from, to) ==
    /\ app = from /\ app' = to
    /\ UNCHANGED <<radio, state, retry, update, unasked>>

RequestSlow == s_connected /\ AppStep("idle", "target") /\ UNCHANGED interval

SetTarget ==
    /\ AppStep("target", "call")
    /\ s_itvl_target' = "slow"
    /\ UNCHANGED <<upd, handed, s_itvl_update_pending, missed>>

Called ==
    /\ link # NoConn /\ upd = "none"
    /\ AppStep("call", "done")
    /\ upd' = "slow" /\ handed' = "slow"
    /\ missed' = (s_itvl_target # "slow")
    /\ UNCHANGED <<s_itvl_target, s_itvl_update_pending>>

CallEalready ==
    /\ link # NoConn /\ upd # "none"
    /\ AppStep("call", "defer")
    /\ UNCHANGED interval

CallFails ==
    /\ AppStep("call", "idle")
    /\ missed' = TRUE
    /\ UNCHANGED <<upd, handed, s_itvl_target, s_itvl_update_pending>>

(* the flag is written when the host task may have used it meanwhile       *)
Done ==
    /\ AppStep("done", "idle")
    /\ s_itvl_update_pending' = FALSE
    /\ missed' = (missed \/ s_itvl_update_pending)
    /\ UNCHANGED <<upd, handed, s_itvl_target>>

Deferred ==
    /\ AppStep("defer", "idle")
    /\ s_itvl_update_pending' = TRUE
    /\ missed' = (missed \/ upd = "none")
    /\ UNCHANGED <<upd, handed, s_itvl_target>>

-----------------------------------------------------------------------------
(* The firmware update: ota_access_cb.                                     *)

(* ota_send_state_json looks at the connection only, not at who subscribed; *)
(* it may fail, and its result is not looked at                            *)
OtaState ==
    \/ s_connected /\ s_conn_handle # NoConn /\ Reaches("ota_state")
    \/ UNCHANGED unasked

(* ota_send_error                                                          *)
OtaError == OtaState /\ told' = "error" /\ Request("slow")

Write == boot = "old" /\ link # NoConn /\ UNCHANGED <<radio, state, retry, app>>

(* an update under way is given up first, whatever becomes of the new one  *)
OtaBegin(t, n) ==
    /\ Write
    /\ n > 0 /\ n <= PartitionSize
    /\ s_ota' = [active |-> TRUE, id |-> t, size |-> n, written |-> 0, next |-> ProgressUnits]
    /\ slot' = Erased(t, n) /\ UNCHANGED boot
    /\ Request("fast")
    /\ OtaState /\ told' = "begin"

OtaBeginFails(t, n) ==
    /\ Write
    /\ s_ota' = IF s_ota.active THEN Cleared ELSE s_ota
    /\ slot' \in {slot, Erased(t, n)} /\ UNCHANGED boot
    /\ OtaError

Current(t) == s_ota.active /\ t = s_ota.id

(* Mutant: the offset is not compared.                                     *)
FitsAnywhere(t, offset, len) ==
    /\ Current(t)
    /\ len > 0
    /\ s_ota.written + len <= s_ota.size

Fits(t, offset, len) ==
    /\ Current(t)
    /\ offset = s_ota.written /\ len > 0
    /\ s_ota.written + len <= s_ota.size

(* the first mark above what is written                                    *)
NextMark(written, mark) ==
    IF written < mark THEN mark ELSE (written \div ProgressUnits + 1) * ProgressUnits

OtaData(t, offset, len) ==
    /\ Write /\ Fits(t, offset, len)
    /\ LET written == s_ota.written + len
       IN  /\ s_ota' = [s_ota EXCEPT !.written = written, !.next = NextMark(written, s_ota.next)]
           /\ IF written >= s_ota.next \/ written = s_ota.size
              THEN OtaState /\ told' = "progress"
              ELSE UNCHANGED <<unasked, told>>
    /\ slot' = [slot EXCEPT !.data = @ \o Units(t, offset, len)]
    /\ UNCHANGED <<boot, interval>>

(* not active, a bad offset, or esp_ota_write fails: the update stays      *)
OtaDataFails ==
    /\ Write /\ OtaError
    /\ UNCHANGED <<s_ota, slot, boot>>

Complete(t, n) == Current(t) /\ n = s_ota.size /\ s_ota.written = s_ota.size

(* the boot partition is set; the device restarts in half a second         *)
OtaFinish(t, n) ==
    /\ Write /\ Complete(t, n)
    /\ s_ota' = Cleared /\ OtaState /\ told' = "done" /\ boot' = "new"
    /\ UNCHANGED <<slot, interval>>

(* esp_ota_end or esp_ota_set_boot_partition fails                         *)
OtaFinishFails(t, n) ==
    /\ Write /\ Complete(t, n)
    /\ s_ota' = Cleared /\ OtaError
    /\ UNCHANGED <<slot, boot>>

OtaFinishRefused(t, n) ==
    /\ Write /\ ~Complete(t, n) /\ OtaError
    /\ UNCHANGED <<s_ota, slot, boot>>

(* any id clears the state; another's handle stays open                    *)
OtaAbort ==
    /\ Write
    /\ s_ota' = Cleared /\ OtaState /\ told' = "abort"
    /\ Request("slow")
    /\ UNCHANGED <<slot, boot>>

-----------------------------------------------------------------------------
(* esp_restart, or the power is switched: what is in flash stays           *)
Restart ==
    /\ synced' = FALSE /\ adv' = FALSE
    /\ link' = NoConn /\ peer_subs' = {} /\ late' = FALSE
    /\ upd' = "none" /\ handed' = "none"
    /\ s_connected' = FALSE /\ s_subscribed' = {} /\ s_conn_handle' = NoConn
    /\ callout' = FALSE /\ mute' = FALSE
    /\ s_itvl_target' = "none" /\ s_itvl_update_pending' = FALSE /\ missed' = FALSE
    /\ app' = "idle" /\ s_ota' = Cleared /\ told' = "none"
    /\ slot' = Erased(0, 0) /\ boot' = "old"
    /\ UNCHANGED unasked

Gap ==
    \/ OnSync \/ Retry \/ HostReset \/ OnConnectFails \/ Drop \/ OnDisconnect \/ OnConnUpdate
    \/ \E h \in Handles : OnConnect(h)
    \/ \E kind \in Tracked : Notify(kind)
    \/ \E kind \in Kinds, on \in BOOLEAN : OnSubscribe(kind, on)

App == RequestSlow \/ SetTarget \/ Called \/ CallEalready \/ CallFails \/ Done \/ Deferred

Ota ==
    \/ \E t \in TransferIds, n \in Sizes :
          OtaBegin(t, n) \/ OtaBeginFails(t, n) \/ OtaFinish(t, n) \/ OtaFinishFails(t, n)
             \/ OtaFinishRefused(t, n)
    \/ \E t \in TransferIds, offset \in 0 .. PartitionSize, len \in 0 .. MaxChunk :
          OtaData(t, offset, len)
    \/ OtaDataFails \/ OtaAbort

Next == Gap \/ App \/ Ota \/ Restart

(* The host task runs what it is told, NimBLE synchronises again, an       *)
(* update that is done restarts the device, and a start that is tried      *)
(* again and again succeeds in the end.                                    *)
Fairness ==
    /\ WF_vars(boot = "new" /\ Restart)
    /\ WF_vars(OnSync) /\ WF_vars(Retry) /\ WF_vars(OnDisconnect)
    /\ SF_vars(Retry /\ adv')

Spec == Init /\ [][Next]_vars /\ Fairness

-----------------------------------------------------------------------------
TypeOK ==
    /\ synced \in BOOLEAN /\ adv \in BOOLEAN /\ late \in BOOLEAN
    /\ link \in Handles \cup {NoConn} /\ peer_subs \subseteq Kinds
    /\ upd \in {"none", "fast", "slow"} /\ handed \in {"none", "fast", "slow"}
    /\ s_connected \in BOOLEAN /\ s_subscribed \subseteq Tracked
    /\ s_conn_handle \in Handles \cup {NoConn}
    /\ callout \in BOOLEAN /\ mute \in BOOLEAN
    /\ s_itvl_target \in {"none", "fast", "slow"}
    /\ s_itvl_update_pending \in BOOLEAN /\ missed \in BOOLEAN
    /\ app \in {"idle", "target", "call", "done", "defer"}
    /\ s_ota \in [active : BOOLEAN, id : Nat, size : Nat, written : Nat, next : Nat]
    /\ told \in {"none", "begin", "progress", "error", "abort", "done"}
    /\ slot \in [id : Nat, size : Nat, data : Seq(Nat \X Nat)]
    /\ boot \in {"old", "new"} /\ unasked \subseteq Kinds

(* The device boots only what it was sent whole: when the boot partition   *)
(* is switched, the partition holds every unit of the announced image, of  *)
(* one transfer, in order (ota_write_data, ota_finish).                    *)
BootImageIsWhole == boot = "new" => slot.data = Units(slot.id, 0, slot.size)

(* The application is never left in an update that is over: the last event *)
(* it was given opens or continues one only while one is under way         *)
(* (ota_begin while another runs, disconnects, failures, aborts).          *)
AppIsTold == told \in {"begin", "progress"} => s_ota.active

(* The last interval asked for is the last handed to the link once nothing *)
(* is under way, unless NimBLE refused it or the two tasks met in the      *)
(* request (missed): a request put off by EALREADY is made again.          *)
IntervalSettles ==
    link # NoConn /\ ~late /\ upd = "none" /\ app = "idle" /\ s_itvl_target # "none" /\ ~missed
        => handed = s_itvl_target

(* What is cached of the connection is the connection, as soon as a        *)
(* disconnect has been reported: the desync that the SUBSCRIBE handler     *)
(* repairs does not arise, since nothing advertises before the report.     *)
(* Audio and recording state never go to a peer that did not subscribe to  *)
(* them; only the OTA state, sent with no look at subscriptions, does.     *)
LinkIsKnown ==
    /\ ~late => /\ s_connected <=> link # NoConn
                /\ s_conn_handle = link
                /\ s_subscribed = peer_subs \cap Tracked
    /\ late => link = NoConn /\ ~adv
    /\ unasked \subseteq Kinds \ Tracked

(* Whatever fails, the device can be found again: it is connected or       *)
(* advertises, unless NimBLE refused its address or advertising data, for  *)
(* which the code has no retry (mute).                                     *)
Reachable == []<>(link # NoConn \/ adv \/ mute)
=============================================================================
