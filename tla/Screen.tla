------------------------------- MODULE Screen -------------------------------
(***************************************************************************)
(* What the device shows: components/ui_status/ui_status.c and the code of *)
(* main/main.c that draws, dims and lights the display again.              *)
(*                                                                         *)
(* Four tasks draw: the application task, the timer task (dimming, the end *)
(* of the capacity view and of the sync result), the BLE host (interaction *)
(* mode), and app_main while it boots.  todo holds the steps each has yet  *)
(* to take of what it is doing: one read or write of shared state, or one  *)
(* call into ui_status.c, which holds s_lvgl_lock, each.                   *)
(*                                                                         *)
(* Recordings, syncs and updates are what the application makes of them;   *)
(* events are not dropped (AppControl models the queue).  Scenes and       *)
(* states of the application are told apart as far as the code asks.  A    *)
(* deep sleep that begins ends the behaviour: the device starts again; the *)
(* panel, which a sleep given up leaves off, is not here (Power's l3b).    *)
(***************************************************************************)
EXTENDS Integers, Sequences

VARIABLES
    todo,                         \* [task -> the steps it has yet to take]
    state,                        \* s_recording, s_ota_updating, s_app_ui_state
    sync,                         \* "on" s_sync_running, "told" its done event waits
    s_display_dimmed, brightness, \* main.c's flag, the backlight
    scene, s_dimmed,              \* ui_status.c
    armed,                        \* the timers that are armed
    crossed,                      \* history: dimmed while being lit, or the reverse
    overdrawn,                    \* history: an idle screen decided without the recording
    kept                          \* history: a view that no timer ends

light == <<s_display_dimmed, brightness, s_dimmed, crossed>>
picture == <<scene, overdrawn, kept>>
screenVars == <<todo, state, sync, s_display_dimmed, brightness, s_dimmed, crossed,
                scene, overdrawn, kept, armed>>

Tasks == {"app", "timer", "ble", "main"}
Views == {"capacity", "result"}
Scenes == Views \cup {"boot", "idle", "recording", "syncing", "thinking", "update", "error"}
AppStates == [recording : BOOLEAN, updating : BOOLEAN, ui : {"ready", "recording", "busy"}]

(* A step: what it does; a drawing step also the fields of state it sets   *)
(* before, the scene, and the timers it starts afterwards.                 *)
Op(op) == [op |-> op, set |-> << >>, scene |-> "same", start |-> {}, blind |-> FALSE]
Drawing(set, s, start, blind) ==
    [op |-> "draw", set |-> set, scene |-> s, start |-> start, blind |-> blind]
Draw(set, s, start) == Drawing(set, s, start, FALSE)
Show(s) == Draw(<< >>, s, {})

(* drawn by one that does not look whether a recording is running, and by  *)
(* a task that has looked before                                           *)
ShowIdleBlindly == Drawing(<< >>, "idle", {}, TRUE)
ShowIdle == Drawing(<< >>, "idle", {}, ~state.recording)

ScreenInit ==
    /\ state = [recording |-> FALSE, updating |-> FALSE, ui |-> "ready"]
    /\ sync = "off"
    /\ todo = [t \in Tasks |-> IF t = "main" THEN <<ShowIdleBlindly>> ELSE << >>]
    /\ s_display_dimmed = FALSE /\ brightness = "full"
    /\ scene = "boot" /\ s_dimmed = FALSE
    /\ armed = {"dim"}
    /\ crossed = FALSE /\ overdrawn = FALSE /\ kept = FALSE

-----------------------------------------------------------------------------
(* The steps.                                                              *)
Is(t, op) == todo[t] # << >> /\ Head(todo[t]).op = op
Skip(t, n) == todo' = [todo EXCEPT ![t] = SubSeq(@, n + 1, Len(@))]

(* restart_display_dim_timer and the one-shot timers of the views          *)
Started(start) ==
    (armed \ start) \cup (IF state'.recording \/ state'.updating THEN start \ {"dim"} ELSE start)

(* note_activity: nothing to light, or light it; when that fails the flag  *)
(* stays; and its end                                                      *)
Wake(t) ==
    /\ Is(t, "wake") /\ UNCHANGED state
    /\ \/ s_display_dimmed /\ brightness' = "full" /\ Skip(t, 1) /\ UNCHANGED armed
       \/ Skip(t, 3) /\ armed' = Started({"dim"}) /\ UNCHANGED brightness
    /\ UNCHANGED <<sync, s_display_dimmed, s_dimmed, crossed, picture>>

(* the flag of main.c, dimmed or not                                       *)
Flag(t) ==
    /\ Is(t, "flag") /\ Skip(t, 1)
    /\ s_display_dimmed' = (t = "timer")
    /\ crossed' = \E other \in Tasks \ {t} : Is(other, "rest")
    /\ UNCHANGED <<state, sync, brightness, s_dimmed, picture, armed>>

(* ui_status_set_idle_dimmed                                               *)
Rest(t) ==
    /\ Is(t, "rest") /\ Skip(t, 1) /\ UNCHANGED state
    /\ s_dimmed' = (t = "timer")
    /\ armed' = Started(IF t = "timer" THEN {} ELSE {"dim"})
    /\ UNCHANGED <<sync, s_display_dimmed, brightness, crossed, picture>>

(* set_scene and ui_status_set_recording, with the assignments before      *)
Drawn(t) ==
    /\ Is(t, "draw") /\ Skip(t, 1)
    /\ LET step == Head(todo[t]) IN
       /\ state' = [f \in DOMAIN state |->
                         IF f \in DOMAIN step.set THEN step.set[f] ELSE state[f]]
       /\ armed' = Started(step.start)
       /\ scene' = IF step.scene = "same" THEN scene ELSE step.scene
       /\ overdrawn' = (state'.recording /\ (IF step.scene = "same" THEN overdrawn ELSE step.blind))
       /\ kept' = IF step.scene = "same" THEN kept ELSE scene' \in Views \ step.start
    /\ UNCHANGED <<sync, light>>

(* Mutant: the flag is set although the backlight did not change.          *)
DimAnyway(t) ==
    /\ Is(t, "dim") /\ Skip(t, 1)
    /\ brightness' \in {"dim", brightness}
    /\ UNCHANGED <<state, sync, s_display_dimmed, s_dimmed, crossed, picture, armed>>

(* display_dim_timer_cb, once it has looked                                *)
Dim(t) ==
    /\ Is(t, "dim")
    /\ \/ brightness' = "dim" /\ Skip(t, 1)
       \/ UNCHANGED brightness /\ Skip(t, 3)
    /\ UNCHANGED <<state, sync, s_display_dimmed, s_dimmed, crossed, picture, armed>>

(* the backlight of a device about to sleep; s_display_dimmed stays        *)
Off(t) ==
    /\ Is(t, "off") /\ Skip(t, 1)
    /\ brightness' \in {"off", brightness}
    /\ UNCHANGED <<state, sync, s_display_dimmed, s_dimmed, crossed, picture, armed>>

Step(t) == Wake(t) \/ Flag(t) \/ Rest(t) \/ Drawn(t) \/ Dim(t) \/ Off(t)

-----------------------------------------------------------------------------
(* The timers and the host's interaction mode begin.                       *)
Begin(t, steps) ==
    /\ todo[t] = << >>
    /\ todo' = [todo EXCEPT ![t] = steps]

DimFires ==
    /\ "dim" \in armed /\ armed' = armed \ {"dim"}
    /\ Begin("timer", IF s_display_dimmed \/ state.recording \/ state.updating THEN << >>
                      ELSE <<Op("dim"), Op("flag"), Op("rest")>>)
    /\ UNCHANGED <<state, sync, light, picture>>

(* Mutant: a dimmed display is left alone.                                 *)
ViewFiresUnlessDimmed(v) ==
    /\ v \in armed /\ armed' = armed \ {v}
    /\ Begin("timer", IF state.recording \/ state.updating \/ s_display_dimmed THEN << >>
                      ELSE <<ShowIdle>>)
    /\ kept' = (kept \/ (scene = v /\ (state.recording \/ state.updating)))
    /\ UNCHANGED <<state, sync, light, scene, overdrawn>>

(* capacity_display_timer_cb, sync_result_display_timer_cb                 *)
ViewFires(v) ==
    /\ v \in armed /\ armed' = armed \ {v}
    /\ Begin("timer", IF state.recording \/ state.updating THEN << >> ELSE <<ShowIdle>>)
    /\ kept' = (kept \/ (scene = v /\ (state.recording \/ state.updating)))
    /\ UNCHANGED <<state, sync, light, scene, overdrawn>>

(* apply_interaction_mode: an idle screen is drawn again                   *)
ModeChanges ==
    /\ state.ui = "ready" /\ ~state.recording
    /\ Begin("ble", <<ShowIdle>>)
    /\ UNCHANGED <<state, sync, light, picture, armed>>

-----------------------------------------------------------------------------
(* The events the application task takes: the steps of their handlers.     *)
(* Assignments and the drawing that follows them are one step: the other   *)
(* tasks cannot tell, having looked before it or looking after it.         *)
NoteActivity == <<Op("wake"), Op("flag"), Op("rest")>>
Busy(s) == <<Draw([ui |-> "busy"], s, {})>>
Ready == <<Draw([ui |-> "ready"], "idle", {})>>

Handle(steps) ==
    /\ Begin("app", steps)
    /\ UNCHANGED <<state, light, picture, armed>>

(* stop_recording: it failed, nobody is connected, or the host will tell   *)
StopSteps ==
    { <<Draw([recording |-> FALSE], "same", {"dim"})>> \o rest :
        rest \in {Busy("error"), Ready \o NoteActivity, << >>} }

StartSteps ==
    {<<Draw([recording |-> TRUE, ui |-> "recording"], "recording", {"dim"})>>, Busy("error")}

(* start_recording; while a decision is asked for, the key starts nothing  *)
FrontDown ==
    /\ \E steps \in IF state.recording THEN StopSteps
                    ELSE IF state.updating \/ sync = "on" THEN {<< >>}
                    ELSE StartSteps \cup (IF state.ui = "busy" THEN {<< >>} ELSE {}) :
          Handle(NoteActivity \o steps)
    /\ UNCHANGED sync

(* a key that changes nothing but the light                                *)
Activity == Handle(NoteActivity) /\ UNCHANGED sync

(* show_storage_capacity; when the store cannot tell, no timer is armed    *)
SideLong ==
    /\ \E start \in {{"capacity"}, {}} :
          Handle(NoteActivity \o <<Draw(<< >>, "capacity", start)>>)
    /\ UNCHANGED sync

(* a sync, unless it may not start                                         *)
SideShort ==
    /\ ~state.recording /\ sync # "on"
    /\ Handle(NoteActivity \o <<Show("syncing")>>)
    /\ sync' \in {sync, "on"}

SyncConnected == sync = "on" /\ Handle(<<Show("syncing")>>) /\ UNCHANGED sync

(* s_sync_running falls while the event that tells the result waits        *)
SyncStops ==
    /\ sync = "on" /\ sync' = "told"
    /\ UNCHANGED <<todo, state, light, picture, armed>>

SyncDone ==
    /\ sync # "off" /\ sync' = "off"
    /\ Handle(<<Draw(<< >>, "result", {"result"})>>)

(* Mutant: ready is drawn whatever happens.                                *)
UiStateReadyAlways ==
    /\ Handle(Ready \o NoteActivity)
    /\ UNCHANGED sync

(* apply_app_ui_state                                                      *)
UiState ==
    /\ \/ Handle(IF state.recording THEN << >> ELSE Ready \o NoteActivity)
       \/ Handle(<<Draw([ui |-> "recording"],
                        IF state.recording THEN "same" ELSE "recording", {})>>)
       \/ Handle(Busy("thinking"))
       \/ Handle(Busy("error"))
    /\ UNCHANGED sync

Current ==
    IF state.recording THEN <<Draw([ui |-> "recording"], "recording", {})>> ELSE Ready

BleConnected == Handle(Current \o NoteActivity) /\ UNCHANGED sync

BleDisconnected ==
    /\ Handle(IF state.recording
              THEN <<Draw([updating |-> FALSE, ui |-> "recording"], "recording", {})>>
              ELSE <<Draw([updating |-> FALSE, ui |-> "ready"], "idle", {})>>)
    /\ UNCHANGED sync

AudioError ==
    /\ Handle(<<Draw([recording |-> FALSE, ui |-> "busy"], "error", {"dim"})>>)
    /\ UNCHANGED sync

OtaBegin ==
    /\ \E stop \in IF state.recording THEN StopSteps ELSE {<< >>} :
          Handle(<<Draw([updating |-> TRUE], "same", {})>> \o stop
                 \o NoteActivity \o <<Show("update")>>)
    /\ UNCHANGED sync

(* it does not look whether the update has ended                           *)
OtaProgress == Handle(<<Draw([updating |-> TRUE], "update", {})>>) /\ UNCHANGED sync

(* the restart that ends an update is announced                            *)
OtaDone == Handle(<<Show("update")>>) /\ UNCHANGED sync

(* APP_EVENT_OTA_END, of a refused update too: it does not look whether a  *)
(* recording is running                                                    *)
OtaEnd ==
    /\ Handle(<<Drawing([updating |-> FALSE, ui |-> "ready"], "idle", {}, TRUE)>> \o NoteActivity)
    /\ UNCHANGED sync

(* enter_deep_sleep: refused, or given up once the display is off; what it *)
(* asks of the power, the button and the BLE host is Power's               *)
EnterDeepSleep ==
    /\ \E steps \in IF state.recording \/ state.updating \/ sync = "on" THEN {<< >>}
                    ELSE {<< >>, <<Op("off")>>} :
          Handle(steps)
    /\ UNCHANGED sync

Events == \/ FrontDown \/ Activity \/ SideLong \/ SideShort \/ SyncConnected \/ SyncDone
          \/ UiState \/ BleConnected \/ BleDisconnected \/ AudioError
          \/ OtaBegin \/ OtaProgress \/ OtaDone \/ OtaEnd \/ EnterDeepSleep

ScreenNext ==
        \/ \E t \in Tasks : Step(t)
        \/ DimFires \/ \E v \in Views : ViewFires(v)
        \/ ModeChanges \/ SyncStops \/ Events

ScreenSpec == ScreenInit /\ [][ScreenNext]_screenVars

-----------------------------------------------------------------------------
ScreenTypeOK ==
    /\ \A t \in Tasks : Len(todo[t]) <= 10
    /\ state \in AppStates
    /\ {s_display_dimmed, s_dimmed, crossed, overdrawn, kept} \subseteq BOOLEAN
    /\ sync \in {"off", "on", "told"} /\ brightness \in {"off", "dim", "full"}
    /\ scene \in Scenes /\ armed \subseteq Views \cup {"dim"}

AllDone == \A t \in Tasks : todo[t] = << >>

(* Between events the application knows whether the backlight is dimmed,   *)
(* so that the next press of a key lights it: whatever the timer task and  *)
(* the application task did at the same time, and whichever call failed.   *)
(* One case is left out: after a deep sleep that was given up the display  *)
(* is dark whatever the flag says, and a key lights it only if it had been *)
(* dimmed before or is dimmed now.  The sleeping face goes with the flag,  *)
(* except where the display was lit again between the flag and the face    *)
(* (crossed): the face then stays, on a bright display, until the display  *)
(* has been dimmed once more.                                              *)
LightIsKnown ==
    AllDone => /\ brightness # "off" => (s_display_dimmed <=> brightness = "dim")
               /\ ~crossed => (s_dimmed <=> s_display_dimmed)

(* A recording never looks like waiting: no handler draws the idle screen  *)
(* during one.  A task that had looked before it began may still draw it   *)
(* (overdrawn), and app_main does not look at all.                         *)
NotIdleWhileRecording ==
    AllDone /\ state.recording => scene # "idle" \/ overdrawn

(* The capacity view and the sync result give way, dimmed or not: while no *)
(* task draws, the one on the screen has its timer armed, unless it was    *)
(* shown without one or its timer fired while a recording or an update     *)
(* owned the screen (kept).                                                *)
ViewsGiveWay ==
    AllDone /\ scene \in Views => scene \in armed \/ kept
=============================================================================
