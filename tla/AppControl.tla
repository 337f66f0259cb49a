----------------------------- MODULE AppControl -----------------------------
(***************************************************************************)
(* The application task of firmware/main/main.c: one task takes events     *)
(* from a bounded queue and decides when a recording, a Wi-Fi sync, a      *)
(* firmware update and deep sleep may begin.  Buttons, timers, the BLE     *)
(* host, the recording pipeline and the sync task only put events into the *)
(* queue, and an event that finds it full is gone.                         *)
(*                                                                         *)
(* The pipeline is what AudioPipeline shows of it: it captures ("on") or   *)
(* is on its way out ("ending"), a failure is reported before its tasks    *)
(* exit, and a stop or a start that waits for them may time out.  The      *)
(* device runs on battery; what is only drawn is left out.                 *)
(***************************************************************************)
EXTENDS Integers, Sequences

CONSTANTS EventDepth,   \* length of s_app_event_queue
          UiStates,     \* the ui_state messages the host may send
          MaxInputs     \* bound: events from outside

ASSUME ControlAssumption ==
    /\ EventDepth \in Nat \ {0}
    /\ UiStates \subseteq {"ready", "recording", "thinking", "confirm", "error"}
    /\ MaxInputs \in Nat

VARIABLES events,
          task,          \* "loop", or the call the task is blocked in
          recording, ota_updating, ui, mode,
          down, primary, \* s_primary_down_us # 0, s_primary_session_id # 0
          rec_lock, ota_lock,
          sleep_timer,   \* the deep-sleep timer is armed
          pipe, pipe_failed,
          sync,          \* s_sync_running; "notified" after the done callback
          ota_active,    \* s_ota.active of voice_ble
          connected,
          power,         \* "on", or how the device went down
          inputs,
          stale,         \* history: an error event met a later recording
          dropped        \* history: an event found the queue full

control == <<task, recording, ota_updating, ui, down, primary, rec_lock, ota_lock>>
pipeline == <<pipe, pipe_failed>>
radio == <<sync, ota_active, connected>>
history == <<stale, dropped>>
vars == <<events, control, mode, sleep_timer, pipeline, radio, power, inputs, history>>

Init ==
    /\ events = << >> /\ task = "loop"
    /\ recording = FALSE /\ ota_updating = FALSE /\ ui = "ready" /\ mode = "click"
    /\ down = FALSE /\ primary = FALSE
    /\ rec_lock = FALSE /\ ota_lock = FALSE
    /\ sleep_timer = TRUE
    /\ pipe = "off" /\ pipe_failed = FALSE
    /\ sync = "off" /\ ota_active = FALSE /\ connected = FALSE
    /\ power = "on" /\ inputs = 0
    /\ stale = FALSE /\ dropped = FALSE

-----------------------------------------------------------------------------
(* queue_app_event and its sisters: xQueueSend with no time to wait        *)
Post(e) ==
    IF Len(events) < EventDepth THEN events' = Append(events, e) /\ UNCHANGED dropped
                                ELSE UNCHANGED events /\ dropped' = TRUE

(* two events one after the other                                          *)
PostBoth(e, f) ==
    LET room == EventDepth - Len(events)
    IN  /\ events' = events \o SubSeq(<<e, f>>, 1, IF room > 2 THEN 2 ELSE room)
        /\ dropped' = (dropped \/ room < 2)

Input == power = "on" /\ inputs < MaxInputs /\ inputs' = inputs + 1

Button ==
    /\ Input
    /\ \E e \in {"front down", "front up", "side up"} : Post(e)
    /\ UNCHANGED <<control, mode, sleep_timer, pipeline, radio, power, stale>>

(* ble_control_cb: the mode is changed at once, by the BLE host's task     *)
HostUiState ==
    /\ Input /\ connected
    /\ \E s \in UiStates : Post(s)
    /\ UNCHANGED <<control, mode, sleep_timer, pipeline, radio, power, stale>>

HostMode ==
    /\ Input /\ connected
    /\ mode' \in {"click", "hold"}
    /\ UNCHANGED <<events, control, sleep_timer, pipeline, radio, power, history>>

Connect ==
    /\ Input /\ ~connected
    /\ \/ connected' = TRUE /\ Post("connected")
       \/ connected' = FALSE /\ Post("disconnected")
    /\ UNCHANGED <<control, mode, sleep_timer, pipeline, sync, ota_active, power, stale>>

Disconnect ==
    /\ Input /\ connected
    /\ connected' = FALSE /\ ota_active' = FALSE
    /\ IF ota_active THEN PostBoth("ota end", "disconnected") ELSE Post("disconnected")
    /\ UNCHANGED <<control, mode, sleep_timer, pipeline, sync, power, stale>>

(* ota_begin, ota_write_data, ota_abort; a begin that fails has cleared an *)
(* update that was active, a write that fails has not.                     *)
OtaBegin ==
    /\ Input /\ connected
    /\ \/ ota_active' = TRUE /\ Post("ota begin")
       \/ ota_active' = FALSE /\ Post("ota end")
    /\ UNCHANGED <<control, mode, sleep_timer, pipeline, sync, connected, power, stale>>

OtaData ==
    /\ Input /\ connected
    /\ (ota_active /\ Post("ota progress")) \/ Post("ota end")
    /\ UNCHANGED <<control, mode, sleep_timer, pipeline, radio, power, stale>>

OtaAbort ==
    /\ Input /\ connected
    /\ ota_active' = FALSE
    /\ Post("ota end")
    /\ UNCHANGED <<control, mode, sleep_timer, pipeline, sync, connected, power, stale>>

(* ota_finish: the image is refused, or the device restarts.  By then the  *)
(* application task has long had the begin event: an image takes minutes,  *)
(* its longest wait five seconds.                                          *)
OtaRefused ==
    /\ power = "on" /\ ota_active
    /\ ota_active' = FALSE
    /\ Post("ota end")
    /\ UNCHANGED <<control, mode, sleep_timer, pipeline, sync, connected, power, inputs, stale>>

OtaRestart ==
    /\ power = "on" /\ ota_active
    /\ task = "loop" /\ \A i \in 1 .. Len(events) : events[i] # "ota begin"
    /\ ota_active' = FALSE
    /\ power' = "restart"
    /\ UNCHANGED <<events, control, mode, sleep_timer, pipeline, sync, connected, inputs, history>>

(* deep_sleep_timer_cb                                                     *)
TimerFires ==
    /\ power = "on" /\ sleep_timer
    /\ sleep_timer' = FALSE
    /\ Post("sleep")
    /\ UNCHANGED <<control, mode, pipeline, radio, power, inputs, stale>>

(* wifi_sync_task, as far as the application sees it                       *)
SyncEnds ==
    /\ power = "on"
    /\ \/ sync = "running" /\ sync' = "notified" /\ Post("sync done")
       \/ sync = "notified" /\ sync' = "off" /\ UNCHANGED <<events, dropped>>
    /\ UNCHANGED <<control, mode, sleep_timer, pipeline, ota_active, connected, power, inputs, stale>>

(* report_failure, then audio_pipeline_error_cb                            *)
PipeFails ==
    /\ power = "on" /\ pipe # "off" /\ ~pipe_failed
    /\ pipe' = "ending" /\ pipe_failed' = TRUE
    /\ Post("audio error")
    /\ UNCHANGED <<control, mode, sleep_timer, radio, power, inputs, stale>>

PipeEnds ==
    /\ power = "on" /\ pipe = "ending"
    /\ pipe' = "off"
    /\ UNCHANGED <<events, control, mode, sleep_timer, pipe_failed, radio, power, inputs, history>>

-----------------------------------------------------------------------------
(* app_event_task                                                          *)
Take(e) ==
    /\ power = "on" /\ task = "loop"
    /\ events # << >> /\ Head(events) = e
    /\ events' = Tail(events)

(* restart_deep_sleep_timer                                                *)
RestartTimer(rec, ota) == sleep_timer' = (~rec /\ ~ota)

(* Mutant: a running sync is not looked at.                                *)
MayStartDuringSync == ~recording /\ ~ota_updating /\ ~ota_active /\ ui # "confirm"

MayStart == ~recording /\ ~ota_updating /\ ~ota_active /\ ui # "confirm" /\ sync = "off"

(* Mutant: the pipeline is not told to stop.                               *)
BeginStopOnlyFlag(call) ==
    /\ recording' = FALSE
    /\ task' = call
    /\ UNCHANGED pipe

(* stop_recording up to the wait in audio_pipeline_stop                    *)
BeginStop(call) ==
    /\ recording' = FALSE
    /\ pipe' = IF pipe = "on" THEN "ending" ELSE pipe
    /\ task' = call

FrontDownStop ==
    /\ Take("front down") /\ mode = "click" /\ recording
    /\ BeginStop("stop")
    /\ RestartTimer(recording, ota_updating)
    /\ UNCHANGED <<ota_updating, ui, mode, down, primary, rec_lock, ota_lock, pipe_failed,
                   radio, power, inputs, history>>

FrontDownConfirm ==
    /\ Take("front down") /\ ~(mode = "click" /\ recording) /\ ui = "confirm"
    /\ down' = TRUE /\ primary' = FALSE
    /\ RestartTimer(recording, ota_updating)
    /\ UNCHANGED <<task, recording, ota_updating, ui, mode, rec_lock, ota_lock, pipeline,
                   radio, power, inputs, history>>

FrontDownStart ==
    /\ Take("front down") /\ ~(mode = "click" /\ recording) /\ ui # "confirm"
    /\ down' = MayStart
    /\ task' = IF MayStart THEN "start" ELSE "loop"
    /\ primary' = FALSE
    /\ RestartTimer(recording, ota_updating)
    /\ UNCHANGED <<recording, ota_updating, ui, mode, rec_lock, ota_lock, pipeline,
                   radio, power, inputs, history>>

(* start_recording once audio_pipeline_start returns                       *)
Started ==
    /\ power = "on" /\ task = "start" /\ pipe = "off"
    /\ pipe' = "on" /\ pipe_failed' = FALSE
    /\ rec_lock' = TRUE
    /\ recording' = TRUE /\ ui' = "recording" /\ primary' = TRUE
    /\ RestartTimer(TRUE, ota_updating)
    /\ task' = "loop"
    /\ UNCHANGED <<events, ota_updating, mode, down, ota_lock, radio, power, inputs, history>>

(* A lock cannot be had, the pipeline is still running, its tasks do not   *)
(* exit, or the pipeline cannot be built.  In the last case its audio task *)
(* may have failed meanwhile.                                              *)
StartFails ==
    /\ power = "on" /\ task = "start"
    /\ \/ UNCHANGED <<events, dropped>>
       \/ pipe = "off" /\ Post("audio error")
    /\ rec_lock' = FALSE
    /\ ui' = "error" /\ down' = FALSE
    /\ task' = "loop"
    /\ UNCHANGED <<recording, ota_updating, mode, primary, ota_lock, sleep_timer, pipeline,
                   radio, power, inputs, stale>>

FrontUp ==
    /\ Take("front up")
    /\ RestartTimer(recording, ota_updating)
    /\ IF mode = "hold" /\ recording
       THEN BeginStop("stop") /\ UNCHANGED <<down, primary>>
       ELSE /\ IF mode = "hold" THEN down' = FALSE /\ primary' = FALSE
                                ELSE UNCHANGED <<down, primary>>
            /\ UNCHANGED <<task, recording, pipe>>
    /\ UNCHANGED <<ota_updating, ui, mode, rec_lock, ota_lock, pipe_failed, radio, power,
                   inputs, history>>

(* The rest of stop_recording and of the event that called it.             *)
AfterStop(error) ==
    /\ rec_lock' = FALSE
    /\ \E ready \in {FALSE, connected} :
          ui' = IF error THEN "error" ELSE IF ready THEN ui ELSE "ready"
    /\ RestartTimer(FALSE, ota_updating)
    /\ IF task = "stop" THEN down' = FALSE /\ primary' = FALSE /\ UNCHANGED ota_lock
                        ELSE ota_lock' \in {ota_lock, TRUE} /\ UNCHANGED <<down, primary>>
    /\ task' = "loop"
    /\ UNCHANGED <<events, recording, ota_updating, mode, pipeline, radio, power, inputs, history>>

StopReturns ==
    /\ power = "on" /\ task \in {"stop", "ota stop"}
    /\ pipe = "off"
    /\ AfterStop(pipe_failed)

StopTimesOut ==
    /\ power = "on" /\ task \in {"stop", "ota stop"}
    /\ pipe = "ending"
    /\ AfterStop(TRUE)

SideUp ==
    /\ Take("side up")
    /\ RestartTimer(recording, ota_updating)
    /\ sync' \in (IF ~recording /\ sync = "off" THEN {"off", "running"} ELSE {sync})
    /\ UNCHANGED <<control, mode, pipeline, ota_active, connected, power, inputs, history>>

SyncDone ==
    /\ Take("sync done")
    /\ UNCHANGED <<control, mode, sleep_timer, pipeline, radio, power, inputs, history>>

BleConnected ==
    /\ Take("connected")
    /\ ui' = IF recording THEN "recording" ELSE "ready"
    /\ RestartTimer(recording, ota_updating)
    /\ UNCHANGED <<task, recording, ota_updating, mode, down, primary, rec_lock, ota_lock,
                   pipeline, radio, power, inputs, history>>

BleDisconnected ==
    /\ Take("disconnected")
    /\ ota_updating' = FALSE /\ ota_lock' = FALSE
    /\ ui' = IF recording THEN "recording" ELSE "ready"
    /\ UNCHANGED <<task, recording, mode, down, primary, rec_lock, sleep_timer, pipeline,
                   radio, power, inputs, history>>

AudioError ==
    /\ Take("audio error")
    /\ recording' = FALSE /\ down' = FALSE /\ primary' = FALSE /\ rec_lock' = FALSE
    /\ ui' = "error"
    /\ RestartTimer(FALSE, ota_updating)
    /\ stale' = (stale \/ pipe = "on")
    /\ UNCHANGED <<task, ota_updating, mode, ota_lock, pipeline, radio, power, inputs, dropped>>

OtaBegun ==
    /\ Take("ota begin")
    /\ ota_updating' = TRUE
    /\ IF recording
       THEN BeginStop("ota stop") /\ UNCHANGED <<ota_lock, sleep_timer>>
       ELSE /\ ota_lock' \in {ota_lock, TRUE}
            /\ RestartTimer(FALSE, TRUE)
            /\ UNCHANGED <<task, recording, pipe>>
    /\ UNCHANGED <<ui, mode, down, primary, rec_lock, pipe_failed, radio, power, inputs, history>>

OtaProgressed ==
    /\ Take("ota progress")
    /\ ota_updating' = TRUE
    /\ UNCHANGED <<task, recording, ui, mode, down, primary, rec_lock, ota_lock, sleep_timer,
                   pipeline, radio, power, inputs, history>>

(* Mutant: no activity is noted at the end of an update.                   *)
OtaEndedQuietly ==
    /\ Take("ota end")
    /\ ota_updating' = FALSE /\ ota_lock' = FALSE
    /\ ui' = "ready"
    /\ UNCHANGED <<task, recording, mode, down, primary, rec_lock, sleep_timer, pipeline, radio,
                   power, inputs, history>>

OtaEnded ==
    /\ Take("ota end")
    /\ ota_updating' = FALSE /\ ota_lock' = FALSE
    /\ ui' = "ready"
    /\ RestartTimer(recording, FALSE)
    /\ UNCHANGED <<task, recording, mode, down, primary, rec_lock, pipeline, radio, power,
                   inputs, history>>

(* apply_app_ui_state                                                      *)
UiState(s) ==
    /\ Take(s)
    /\ ui' = IF s = "ready" /\ recording THEN ui ELSE s
    /\ IF s = "ready" /\ ~recording THEN RestartTimer(FALSE, ota_updating)
                                    ELSE UNCHANGED sleep_timer
    /\ UNCHANGED <<task, recording, ota_updating, mode, down, primary, rec_lock, ota_lock,
                   pipeline, radio, power, inputs, history>>

(* enter_deep_sleep: refused, or the end of this run of the device         *)
StayAwake ==
    /\ Take("sleep")
    /\ RestartTimer(recording, ota_updating)
    /\ UNCHANGED <<control, mode, pipeline, radio, power, inputs, history>>

DeepSleep ==
    /\ Take("sleep")
    /\ ~recording /\ ~ota_updating /\ ~ota_active /\ sync = "off"
    /\ power' = "sleep"
    /\ rec_lock' = FALSE
    /\ UNCHANGED <<task, recording, ota_updating, ui, mode, down, primary, ota_lock,
                   sleep_timer, pipeline, radio, inputs, history>>

Environment == \/ Button \/ HostUiState \/ HostMode \/ Connect \/ Disconnect
               \/ OtaBegin \/ OtaData \/ OtaAbort \/ OtaRefused \/ OtaRestart
               \/ TimerFires \/ SyncEnds \/ PipeFails \/ PipeEnds

Handlers == \/ FrontDownStop \/ FrontDownConfirm \/ FrontDownStart \/ Started \/ StartFails
            \/ FrontUp \/ StopReturns \/ StopTimesOut \/ SideUp \/ SyncDone
            \/ BleConnected \/ BleDisconnected \/ AudioError
            \/ OtaBegun \/ OtaProgressed \/ OtaEnded
            \/ \E s \in UiStates : UiState(s)
            \/ StayAwake \/ DeepSleep

Next == Environment \/ Handlers
Spec == Init /\ [][Next]_vars

-----------------------------------------------------------------------------
Queued(e) == \E i \in 1 .. Len(events) : events[i] = e

(* Types of the application's state; the event queue keeps its length.     *)
TypeOK ==
    /\ events \in Seq({"front down", "front up", "side up", "connected", "disconnected",
                      "ota begin", "ota progress", "ota end", "sleep", "sync done",
                      "audio error"} \cup UiStates)
    /\ Len(events) <= EventDepth
    /\ task \in {"loop", "start", "stop", "ota stop"}
    /\ ui \in {"ready", "recording", "thinking", "confirm", "error"}
    /\ mode \in {"click", "hold"}
    /\ pipe \in {"off", "on", "ending"} /\ sync \in {"off", "running", "notified"}
    /\ power \in {"on", "sleep", "restart"}
    /\ inputs \in 0 .. MaxInputs
    /\ {recording, ota_updating, down, primary, rec_lock, ota_lock, sleep_timer, pipe_failed,
        ota_active, connected, stale, dropped} \subseteq BOOLEAN

(* Between two events the power-management locks are held exactly while a  *)
(* recording is shown, and the update's lock never outlives the update:    *)
(* neither a failure, a disconnect nor a failed start leaks or drops one.  *)
LocksBalanced ==
    task = "loop" => /\ rec_lock <=> recording
                     /\ ota_lock => ota_updating

(* The application never forgets a running recording, except               *)
(* when the error event of an earlier one reaches it after the next start. *)
NoForgottenRecording == pipe = "on" => recording \/ stale

(* A recording is disturbed by no sync, no deep sleep and no restart into  *)
(* a new image, whatever order the events come in.                         *)
RecordingUndisturbed ==
    pipe = "on" /\ ~stale => sync = "off" /\ (power = "on" \/ dropped)

(* "recording" on screen stops the sleep timer, and so does an update.  An *)
(* idle device always has the timer armed or its event on the way: no path *)
(* through errors, updates or disconnects leaves it awake for good, unless *)
(* an event was dropped.                                                   *)
SleepTimerLives ==
    /\ task = "loop" /\ power = "on"
    /\ ~recording /\ ~ota_updating
    => sleep_timer \/ Queued("sleep") \/ dropped

=============================================================================
