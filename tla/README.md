# Voice capture: specification, model checking and proofs

This directory holds TLA+ models of the voice-capture system: a pocket device
that records speech (`firmware/`), a receiver that stores, transcribes and files
what the device sends (`local-receiver/`), and a phone client for typed memos
(`kyf44-memo-client/`). The models are written from the code. `PROJECT.json`
maps every definition to the lines it stands for, and lists the hazards the
properties were chosen for. Paths in this file are relative to `src/`.

Run a model with `tlc -config MCx.cfg MCx.tla`, the proofs of a module with
`tlapm M.tla`, for `RecordingStoreProofs`, `AudioPipelineProofs`,
`AppControlProofs`, `PowerProofs`, `VoiceBleProofs`, `WifiSyncProofs`,
`ReceiverProofs` and `VoiceSyncProofs`.

## 1. The system

```
 keys, BLE host, timers, PMIC
        |  events (bounded queue)
        v
 application task --start/stop--> audio task --queue--> writer task
 (main.c)        <--error event-- (audio_pipeline.c)       |
   |  |  |                                                 v
   |  |  | start / done callback                    recording store
   |  |  v                                           (.part -> .ogg)
   |  | sync task (wifi_sync.c) -- reads and deletes .ogg --^
   |  |     |
   |  |     |  HTTP POST, LAN address then fallback address
   |  |     v
   |  |  receiver threads (app.py) --queue--> one worker --> notebook repository
   |  |     ^                                 |              (GitHub contents API)
   |  |     |  HTTP POST                      whisper, primed with the dictionary
   |  |  memo client (Android)                and the entity index
   |  |
   |  +--> display (ui_status.c), drawn by four tasks
   +--> PMIC (stick_s3_board.c), over I2C; BLE link (voice_ble.c)
```

| Component | State it keeps | Operations | What is hard |
|---|---|---|---|
| Recording store, `recording_store.c` | the page being built (segments, payload, granule position, page number), pages since the last fsync, `.part` and `.ogg` files | begin, write_opus, finish, abort | any I/O call fails; power goes between two of them; lacing and page limits |
| Audio pipeline, `audio_pipeline.c` | `s_running`, `s_failed`, `s_last_error`, the write queue, the two task handles, codec and encoder | start, stop, audio task, writer task, error callback | three tasks share flags with no lock; the queue fills; a long recording is split; stop times out |
| Application task, `main.c` | the event queue, `s_recording`, `s_ota_updating`, power locks, timers, UI state | a handler per event | events are late or dropped; what was checked may no longer hold |
| BLE link and update, `voice_ble.c` | connection handle, subscriptions, advertising and its retry callout, interval target and pending flag, `s_ota` (id, size, written) | GAP callbacks, GATT writes, begin/data/finish/abort, interval requests, notifications | a disconnect is reported after the fact; NimBLE refuses calls; the host task and the application task meet in an interval request |
| Wi-Fi sync, `wifi_sync.c` | `s_sync_running`, driver, event group, candidate list, counters | start, one task from connect to exit | late driver events; half-done set-up; answers lost after the receiver stored the file |
| Receiver, recordings, `app.py` | files per recording (audio, metadata, transcript, note, done marker), a queue in memory | POST /v1/recordings, worker, start-up scan | overlapping requests for one id; a crash or power loss between any two files; the push is not transactional |
| Receiver, memos, `app.py` | files per memo (text, metadata, done marker), a queue of its own | POST /v1/memos, worker, scan | as above |
| Prompt dictionary, `entity_dictionary.py`, `app.py` | a cache of terms with an expiry, the file of automatic terms | select, merge under budgets, refresh | an index that changes, cannot be read or cannot be stored; two budgets; the age of what is cached |
| Memo client (Java) | a directory of pending memos | save, sync from two threads, WorkManager retry | a rejected memo stops those after it; a new request is dropped under KEEP |
| Display, `ui_status.c`, `main.c` | scene, resting face, backlight, `s_display_dimmed`, dim and view timers | draw, dim, wake, show a view | application task, timer task, BLE host and `app_main` draw; a check and the drawing that rests on it are two steps |
| Board support and power, `stick_s3_board.c`, `main.c` | bus and PMIC handles, interrupt flags and line, what the application knows of the supply, the deep-sleep timer | probe, configure, clear flags, read, refresh, prepare and enter deep sleep | the cable is pulled between two reads; a transfer fails; the interrupt's event finds the queue full |
| Scripts, bench test, packaging tests | - | build-time and bench tools | not modelled |

What makes each part correct:

- *Recording store*: an `.ogg` is always complete; a `.part` loses a bounded
  amount; no audio that reached the medium disappears.
- *Audio pipeline*: nothing captured is lost without a failure being reported;
  stop reports what happened; the next session never meets the old one.
- *Application task*: the flags agree with what the other tasks do; a recording
  is disturbed by nothing; locks and timers are not leaked.
- *BLE link*: what is booted is the whole image that was announced; the cached
  link is the link; the last interval asked for wins; the device can be found
  again whatever failed.
- *Wi-Fi sync*: only what was acknowledged is deleted; the radio is released;
  the result is true; it ends.
- *Receiver*: what was accepted is processed; notes are the transcript, once.
- *Device and receiver together*: no recording is lost on the way.
- *Prompt dictionary*: the prompt is the longest prefix both budgets allow; the
  vocabulary is the best of the last index read, and not older than its lifetime.
- *Memo client*: the phone lets go of a memo only when the receiver has all of
  it; a retry stays scheduled; a saved memo becomes a verbatim note.
- *Display*: the application knows whether the light is down; a recording never
  looks like waiting; a view gives way.
- *Power*: a quiet interrupt line means the supply is known; no deep sleep on
  external power; an idle device on battery does go to sleep.

## 2. The modules

| Module | Stands for | Built on |
|---|---|---|
| `RecordingLog` | what a recording store promises: a sequence of packets, a bounded loss | - |
| `RecordingStore` | the writer of `recording_store.c` | implements `RecordingLog` |
| `StorageMount` | mounting in `recording_store.c`: card, flash, backlog | - |
| `AudioPipeline` | `audio_pipeline.c` | `RecordingLog` as its store |
| `AppControl` | `main.c`, with what it sees of the pipeline, the sync and BLE | - |
| `VoiceBle` | `voice_ble.c` | - |
| `WifiSync` | `wifi_sync.c` | `StorageMount` as the media it reads |
| `Receiver` | the recordings half of `app.py` | - |
| `VoiceSync` | device and receiver on an unreliable network | instances of `WifiSync` and `Receiver` |
| `PromptTerms` | `entity_dictionary.py` and the prompt of `app.py` | - |
| `MemoClient` | the Android client | - |
| `MemoReceiver` | the memo half of `app.py` | - |
| `MemoSync` | phone and receiver on an unreliable network | instances of `MemoClient` and `MemoReceiver` |
| `Screen` | `ui_status.c` and the code of `main.c` that draws, dims and lights | - |
| `Power` | the PMIC in `stick_s3_board.c`, battery refresh and deep sleep in `main.c` | - |
| `RecordingStoreProofs`, `AppControlProofs`, `AudioPipelineProofs`, `PowerProofs`, `VoiceBleProofs`, `WifiSyncProofs`, `ReceiverProofs`, `VoiceSyncProofs` | theorems about the module in their name. `RecordingStoreProofs` also that it implements `RecordingLog`, `VoiceSyncProofs` that it implements `WifiSync`; `ReceiverProofs` is also about `PromptTerms` and `MemoSync`, `PowerProofs` about `Screen` | extend them |

### RecordingStore

`pc` says how far `s_writer` has come: `idle` (not active), `headers` (file
created), `open` (between two calls), `close` (finished, not renamed). The
other variables are the fields of `recording_writer_t` under their own names,
and the two files of every name. A file is its page headers, its packets, how
many pages are certain to survive a power loss (`synced`), and whether bytes of
a further page follow (`torn`). Each call is one action per way it can end
(`WriteBuffered`, `WriteFlushed`, `WriteFails`, `WriteSyncFails`, ...). `begin`
and `finish` are cut where power may go between two durable effects: at the
creation, the headers, the last page and the rename. `Crash` keeps any
prefix of the pages that was not synced, of the call under way too
(`InFlight`).

A failed removal or sync in `abort` is ignored in the code; `RemovePart`
and `AbortKeep` choose among everything that may then be on the medium.

### AudioPipeline

One position per task. Flags are read and written one at a time, in the
order of the code: in particular the writer's exit test (`running?`, `audio?`,
`queue?`) is three steps. The store is `RecordingLog`, which is what
`RecordingStore` is proved to implement; `finish` is two steps of it
(`LogFlush`, `LogFinalize`). The error callback is counted in `callbacks`.
Packets carry session and sequence number as `audio_packet_t` does, and
`frames_in_file`, `quiet_run` decide the splits. A stalled card appears as a
writer that takes no step; the waits for the tasks' exit may then time out.
A start makes the channel, the codec and the encoder one after the other
(`resources`), opens the file and creates the two tasks, any of which may fail;
what is unwound is what the code unwinds at that place. `leaked` remembers that a
failed `init_i2s` left the channel it had made.

### StorageMount

`store` is what a boot decided: the card, or the internal flash when no card can
be mounted, or neither (`recording_store_init` is not tried again). `flash` is
the partition: blank, formatted or damaged. `MountFlash` is `mount_flash` with
both of its callers: at boot a blank partition may be formatted, for the backlog
of a sync nothing is. `InFlash` are the recordings made when there was no card.
`WifiSync` extends the module: it opens the backlog before it lists what to
send, closes it after the last file, and boots (`Boot`) may fall between any two
steps of a sync, as `audio_pipeline_init` mounts in its own time.

### AppControl

Each handler of `app_event_task` is an action; a handler that blocks in
`audio_pipeline_start` or `audio_pipeline_stop` is two (`task` is then `start`,
`stop` or `ota stop`), and everything else goes on meanwhile. `Post` is
`xQueueSend` with no wait: it drops the event when the queue is full and
remembers that in `dropped`. `stale` remembers that an error event was taken
while a later recording ran. The pipeline shrinks to `off`, `on`, `ending` and
whether it failed, the sync to `off`, `running`, `notified`.

### VoiceBle

NimBLE runs its callbacks one after the other in the host task, so each is one
action; `voice_ble_request_slow_interval` runs in the application task
and is cut at every access to shared state (`RequestSlow`, `SetTarget`, then
`Called`/`Done`, `CallEalready`/`Deferred` or `CallFails`). The link has two
sides: `link` and `peer_subs` are what the controller and the peer have, the
`s_` variables what the code has cached. A connection ends (`Drop`) before it is
reported (`OnDisconnect`); the host may be reset at any time. `StartAdvertising`
is the whole function with its retry: when starting fails the callout is armed,
when setting the data fails nothing is (`mute`). An image is a sequence of units
`<<transfer, number>>`, so that a partition filled from two transfers, with a
hole or out of order, is told from the image that was announced; `told` is the
last event the application was given. `missed` names an interval request that
NimBLE refused, or that the two tasks lost between them. Three characteristics
notify (`Kinds`); the subscriptions of two are kept (`Tracked`). The OTA state goes
out with every report of an update, whoever subscribed (`OtaState`); `unasked`
are the characteristics a peer was notified of that it had not subscribed to.

### WifiSync

`sync` is the position in `wifi_sync_task`, `off` when `s_sync_running` is
false. `reachable` is chosen when a sync starts: the networks that would give
an address in time. `link`, `bits` and `late` are the driver, the event group
and the one disconnect report that may still be on its way. Three kinds of
upload outcome are left open (`UploadOk`, `UploadFails` twice), so that
`VoiceSync` can tie them to a receiver.

### Receiver

A request is a slot that walks through `receive_recording` (`lookup`, `open`,
`write`, `tmp`, `replace`, `enqueue`, `answer`), one step per effect another
thread can see. The worker walks through `process_recording_async` (`listen`,
`render`, `push`, `finish`). Audio and its transcript are both named by the
audio: `transcripts[i] = d` means the text of `d`. `received_at` is the number of
the lookup that drew it; it names the note in the notebook, which is why two
requests that both store can produce two notes. `Crash` is the process; with
`PowerLoss` it also takes what `atomic_write_text` renamed and never fsynced, any
choice of metadata, transcripts, notes and done markers, and `forgotten` remembers
of which ids, for each kind a property asks about. Whisper may find speech in torn
audio or none; `unheard` are the ids it found none in (`NoSpeech`).

### VoiceSync

`upload_file` is `Connect`, then one of `Reply`, `GiveUp` (timed out or the
answer lost; the receiver goes on), `BrokenOff` (the body never arrived), or
`NotConnected`. `attempt` is the request the device waits for. Both sides
restart (`Crash`, `DeviceReset`).

### PromptTerms

A term is a number in the order of the strings, `Length` what it costs. `Fill`
is `add_term` term by term, a recursive function on the places of the list: a term
seen before is passed over, the first that does not fit ends the list. `Key` is
the sort key of `select_entity_terms`, with the place as its last part because the
sort is stable; `Before` compares two keys part by part, and `Ranked` puts each
candidate behind as many as come before it. A call of `load_transcription_prompt` is one step
(`FromCache`, `Refresh`, `RefreshFails`, or `RefreshUnwritten`, where the terms
are cached before their file cannot be written and the caller still gets the old
ones); only the worker of the recordings makes it. The index, its origin and
the manual dictionary change under the receiver, and minutes pass (`Tick`).

### MemoClient, MemoReceiver, MemoSync

`ui` is how far `capture` is on the UI thread: writing the file, or saved and
not yet asking for a sync (the request and `executor.execute` follow each other
in one step). `work` is WorkManager's one unique request, which is there until the
result of a worker that has returned is taken (`WorkerSucceeds`), `tasks` the threads
that run `syncAll` and whose result nobody waits for: the executor's, and
workers that WorkManager has stopped. `holder` has the lock of `syncAll`; `todo`
is what remains of its listing, `cur` the memo it uploads and `body` what it
read. A memo is its file's share of the text (`empty`, `some`, `all`) and the
kind of text: `plain`, `blank` (white space to Python's `strip` and not to
Java's `trim`) or `long`. Two histories name what the code does not cover:
`skipped`, the memos whose request KEEP dropped, or that a kill came before,
until there is a request again; and `early`, the memos `syncAll` read before
`savePending` had written them.

The receiver's request is checked, then answered. Nobody looks at the files of a
memo that has no metadata, so that storing is one step when it succeeds
(`Store`); `StoreFails` and `Crash` stop it on the way. The queue is a set, as
processing an id twice does what doing it once does. `MemoSync` ties the two
with `Connect`, `Delivered`, `NotDelivered` (another code, a lost answer, a file
that cannot be deleted) and `GiveUp` (the request goes on alone).

### Screen

`todo` holds, for each of the four tasks, the steps it has yet to take: one
access to shared state or one call into `ui_status.c` (which holds
`s_lvgl_lock`) each. A handler looks at the application's state when it begins
and draws later, as the code does (`state` is what the flags of `main.c` say); `blind` marks a drawing of the idle screen
whose task had not seen the recording that runs when it lands. `brightness` is
the backlight, `s_display_dimmed` what `main.c` believes of it, `s_dimmed` the
sleeping face of `ui_status.c`. Recordings, syncs and updates are only what the
application makes of them, and events come in any order. A deep sleep
(`EnterDeepSleep`) is refused, or switches the backlight off (`Off`), after which it
begins, which ends the behaviour, or is given up; why it is given up is in `Power`.

### Power

`pc` walks through the application task one bus transfer at a time:
`update_battery_status` clears the flags (`ClearRead`, `ClearWrite`) and then
reads level, charging and USB; the way into deep sleep reads the supply afresh
(`FreshCharging`, `FreshUsb`) before `Prepare` switches display and audio off.
Every transfer may fail; `init_i2c` tries its candidates in order (`Probe`). The
line is low while a flag is raised; its interrupt disables itself (`Isr`) until
the handler enables it again, which it never does when the event found the queue
full. `missed`, `excused` and `lost` are the last update that read nothing, the
fresh check that failed or was overtaken by the cable, and the sleep event that
found the queue full.

## 3. What is checked

All runs that pass explore every reachable state of their instance.

| Run | Instance | States | Shows |
|---|---|---|---|
| `recording_store` | 2 names, packets of 2, 5, 0 and 9 bytes, page of 3 lacing values, 8 bytes or 2 packets, fsync every 2 pages, 5 packets a recording | 472,009 | `FinalFilesComplete`, `GranulesExact`, `BoundedLoss`, `AudioIsKept`, and that it implements `RecordingLog` (`LogSpec`) |
| `audio_pipeline` | queue of 2, split after 2 frames in silence and 3 at the latest, 2 sessions, 4 frames, 5 files | 658,918 | `SavedIsAPrefix`, `NoSilentLoss`, `StopTellsTheTruth`, `ResourcesOwned`, `SessionsEnd` |
| `app_control` | queue of 3, 5 inputs from outside | 647,275 | `NoForgottenRecording`, `RecordingUndisturbed`, `SleepTimerLives` |
| `voice_ble` | 2 transfer ids (one of them 0, as in a cleared transfer), images of 1, 3 and 4 units, a partition of 3, writes of up to 2 units, progress every 2, any number of connections, resets and failures | 142,256 | `BootImageIsWhole`, `IntervalSettles`, `LinkIsKnown`, `Reachable` |
| `wifi_sync` | 5 recordings, 2 of them in flash, 3 networks, 2 candidates a sync, a partition in any condition, any number of syncs | 199,324 | `ResultHonest`, `FirstNetworkIsFound`, `OnlyAckedIsDeleted`, `SyncEnds` |
| `receiver` | 1 id, speech and silence, 2 request slots, 3 requests, 2 stops, each of them possibly a power loss that takes any of the files | 985,210 | `AcceptedIsTracked`, `DoneMeansNoted`, `NotesAreVerbatim`, `AcceptedIsProcessed` |
| `voice_sync` | 1 recording, 3 requests one at a time, 2 stops of the receiver, 1 reset of the device | 1,546,072 | `NothingLost`, `NotedOnce` |
| `prompt_terms` | 5 terms, 3 indexes, 2 dictionaries, budgets of 2 terms or 7 characters and of 3 terms or 9, a lifetime of 7 minutes, a clock to 10 | 472,572 | `PromptIsLongestPrefix`, `VocabularyIsTheBest`, `VocabularyIsFresh` |
| `memo_sync` | 2 memos, plain or blank, any number of syncs and network failures, and one upset: a kill, a stopped worker, a closed activity, a failed save or push, a stop of the receiver | 431,715 | `NoMemoLost`, `RetryIsScheduled`, `SavedIsNoted` |
| `screen` | all of `Screen`, which has no constants | 4,510,211 | `LightIsKnown`, `NotIdleWhileRecording`, `ViewsGiveWay` |
| `power` | 3 bus candidates, the PMIC on the second, queue of 2, 2 changes of the supply, 1 key, 1 fault | 680,321 | `PowerIsKnown`, `SleepsOnBattery`, `IdleDeviceSleeps`, `PowerIsLearnt` |
| `voice_sync_late` | 1 recording, 2 requests at a time | - | `SafeOnTheMac` fails, see below |

The type invariants state the types; section 4 proves those of all modules but
`VoiceSync`, whose proof has its types in other parts, and of the memos those of the
two halves together. `LocksBalanced`, `RadioReleased`, `SentIsMounted`, `AppIsTold`
and `BuffersFit` are invariants of their modules that need no run, being proved.

Where a property has an exception, the exception is a state the code really
reaches, and the property names it:

| Module | Exceptions |
|---|---|
| `AppControl` | `dropped`: an event found the queue full. `stale`: an error event was taken while a later recording ran |
| `AudioPipeline` | `leaked`: a failed `init_i2s` kept its channel |
| `VoiceBle` | `ota_state`, which is sent whoever subscribed. `missed`: NimBLE refused an interval, or two tasks met in the request. `mute`: the advertising data or the address was refused, for which there is no retry |
| `Receiver` | `dropped`: processing failed, and only a restart or a repeated upload tries again. `forgotten.metadata`: a power loss took the metadata; of `forgotten.transcript` and `forgotten.note` only what is said of the lost file itself is left out. `unheard`: found silent while a second request had the file torn |
| `MemoReceiver`, `MemoClient` | `dropped` as above; `skipped`, `early` (section 2); `Stuck` in `SavedIsNoted`: the memo is behind one the receiver turns down |
| `Screen` | `brightness = "off"`: a deep sleep was given up after it had switched the backlight off. `crossed`: dimmed while being lit, or the reverse. `overdrawn`: idle drawn by a task that looked before the recording began, or does not look. `kept`: a view whose timer was never armed, or fired while a recording or an update owned the screen |
| `Power` | `missed`, `excused`, `lost` (section 2) |

**Why the bounds are enough.** *Store*: the limits are small so that pages fill
by count, by lacing values and by bytes; five packets make two full pages, one
fsync and a remainder. *Pipeline*: two sessions show what one leaves behind for
the next, four frames show two splits, of which one is forced, and a queue of 2
fills. *AppControl*: five inputs are enough for a recording to fail while the
next one is started and something else is pressed, and a queue of 3 is
overfilled by them. *VoiceBle*: an image of three units arrives in one write and
a half, or in three, crosses a progress mark, and fills the partition; four do
not fit; a second id shows a transfer that is taken over or aborted by another.
*WifiSync*: three networks are one out of range, one after it, and a third that
is passed over; two of five files do not fit, and files lie on the card and in
flash, so that each medium has one that is sent and one that waits. *Receiver*: ids share only the
queue and the worker, so one id with two slots has every race on files; three
sends are two overlapping requests and a repeat or a conflict; besides what is
torn there is audio of two texts, one of them none. *VoiceSync*: one
recording needs a first send, its fallback and one more in the next sync.
*PromptTerms*: five terms of three lengths end a list by count, by characters
and by neither; one is too short, one occurs under two kinds; the clock passes
one lifetime and one retry. *MemoSync*: one memo is being saved while the other
is listed, sent, or in the way; faults of the network have no bound, the others
are one. *Screen* is not bounded. *Power*: one fault may hit any transfer, two
changes of the supply are a cable in and out around any of them, one key wakes
the device or starts a recording, and a queue of 2 is filled by it and the
timers.

**Deadlock** is checked except where the system really stops: in `MCAppControl`
(the device goes to deep sleep or restarts), `MCReceiver` (the clients have
sent all they will, all is processed, and nobody has anything to do) and
`MCPower` (the device sleeps and nobody presses a key).

**Fairness.** `SessionsEnd` assumes weak fairness of the audio task and of the
writer task: the scheduler runs a task that can run, and every call in them
returns. The application task has none: nobody must press a button. `SyncEnds`
assumes it for the sync task, for the end of a request (20 s time-out), for the
driver reporting a disconnect, and for the driver's answer only when the
network is in range; the connection time-out needs no driver.
`AcceptedIsProcessed` assumes it for request threads, the worker thread and the
restart by launchd. Clients, crashes and failures have none. `SavedIsNoted` assumes weak fairness of the
UI thread while it saves, of `syncAll`, of WorkManager running what it holds, of
the receiver's threads and its restart, and strong fairness of what may fail and
is tried again and again: reading the file, connecting, storing the memo before
the phone gives up, and getting the answer through. Opening the app again has none.
`Reachable` assumes weak fairness of the host's callbacks (synchronisation, the
retry callout, the report of a disconnect) and of the restart after an update,
and strong fairness of a retry that succeeds: a retry is armed again each time it
fails. `PowerIsLearnt` assumes weak fairness of the application task and strong
fairness of the periodic refresh finding room in the queue: its period is 10 s,
and no handler takes as long. Plugs, keys and faults have none.

### Where the code and its words disagree

One of these is a run that TLC refutes:

- `voice_sync_late`: *"a success response means the recording is safe on the
  Mac"* (`wifi_sync.c:421`). A request the device gave up and its retry are both
  past the lookup; the retry is answered and the file deleted on the device;
  then the first request opens the same file with `"wb"` and stops there.
  `NothingLost` shows that nothing else in `VoiceSync` loses a recording: it
  holds, and is proved, when a request that was given up has ended before the next
  is sent (`LateRequests = FALSE`) and the Mac keeps its power (`PowerLoss = FALSE`).

The others are the named exceptions of properties, met while modelling:

- *"Sync only ever runs outside of active recording"* (`wifi_sync.c:371`). A
  recording fails; before its error event is taken the user stops it and starts
  another; the handler (`main.c:806`) then clears `s_recording` for the wrong
  recording, and the side button starts a sync. `stale` is this and only this.
- *"no known network in range; never connected"* (`wifi_sync.h:24`). The
  disconnect report of a network that was given up arrives after the bits were
  cleared for the next one and ends its wait (`wifi_sync.c:164`).
  `FirstNetworkIsFound` shows that the first network is not affected.
- *"Resume any recording whose upload was durably stored but never finished
  processing"* (`app.py:513`). The scan looks at the metadata, which is renamed
  and not fsynced (`app.py:126`); a power loss may take it and leave the audio
  (`forgotten.metadata`). Transcripts, notes and done markers are written in the same
  way; losing them only makes work again, as `NotesAreVerbatim` and
  `DoneMeansNoted` show, but for a text that whisper may hear otherwise. Where the
  metadata goes and the done marker stays, the scan passes over a repeated upload
  that the receiver did not get to before it stopped.
- *"If offline, WorkManager keeps the local memo and retries when networking is
  available"* (`kyf44-memo-client/README.md:22`). A memo of full-width spaces
  passes `text.trim().isEmpty()` (`MainActivity.java:66`) and is answered 400
  (`app.py:616`); `syncAll` throws (`MemoStore.java:85`), in every retry at the
  same memo, and none of those behind it is sent. An empty file left by a failed
  save, or a text over 16 KiB, does the same (`Stuck`). KEEP also drops
  the request for a memo saved while a worker is past its listing (`skipped`).
- A repeated upload queues a recording that is being processed once more
  (`app.py:582`); the worker finds transcript and note and repeats only the
  push, which compares before it writes.
- *"Per-session resources: created on start, destroyed after writer
  finalization"* (`audio_pipeline.c:79`). When `init_i2s` fails after it made its
  channel, `audio_pipeline_start` returns without giving it back
  (`audio_pipeline.c:484`). The port has one receive channel, so no recording can
  be started until the device restarts; `ResourcesOwned` shows that this is the
  only thing that may stay behind, and the only way to it: after every other
  session, and every start that failed elsewhere, nothing is held.
- A deep sleep that is given up after its preparation does not switch display
  and audio power on again (`main.c:330`-`349`, `SleepFails` in `Power`). The
  backlight stays off too, and `s_display_dimmed` says nothing of it: if the display
  had not been dimmed before, no key lights it until the dim timer has gone by
  (`brightness = "off"` in `Screen`).
- *"Retrying cannot change the outcome"* (`app.py:309`). Whisper may find no speech
  in a file that a second request has just truncated or half written; the recording
  is marked done without a note, though all of it is there a moment later
  (`unheard`).
- `ota_send_state_json` looks at the connection only (`voice_ble.c:119`), where
  the notifications of audio and recording state are sent to a subscriber only:
  whoever is connected is sent the state of an update. The `SUBSCRIBE`
  handler does not keep who asked for it (`voice_ble.c:528`).
- `app_main` draws the idle screen without looking whether a recording was
  started by a key meanwhile, and so does the end of a refused update
  (`overdrawn`).
- When the power interrupt's event finds the queue full nothing enables the
  interrupt again (`main.c:1120`); `PowerIsLearnt` shows that the refresh makes
  up for it.
- An abort with another transfer's id clears `s_ota` and leaves its `esp_ota`
  handle open (`voice_ble.c:294`). A refused write tells the application that
  the update ended while `s_ota` is active, which is why `AppIsTold` goes
  one way only.

## 4. What is proved

Every theorem is of the form `Spec => ...` (`MemoSpec`, `PromptSpec`, `ScreenSpec`
where one proof module is about several modules) and holds for all values of the
constants that satisfy the named assumptions of the module (`NameAssumption`,
`LimitAssumption`, ...), which TLC evaluates in the run of that module. The
theorems of `VoiceSyncProofs` have two hypotheses more, with which their run is
made too: `LateRequests = FALSE`, without which `voice_sync_late` refutes
what they say, and `PowerLoss = FALSE`. `DeviceImplementsSync` has neither.

| Module | Theorem | Proves |
|---|---|---|
| `RecordingStoreProofs` | `TypeCorrect`, `BuffersNeverOverflow`, `OggFilesAreComplete`, `CrashLossIsBounded`, `PositionsAreExact`, `StoreImplementsLog`, `AudioStays` | `TypeOK`, `BuffersFit`, `FinalFilesComplete`, `BoundedLoss`, `GranulesExact`, `LogSpec`, `AudioIsKept` |
| `AppControlProofs` | `TypeCorrect`, `NoLockIsLeaked`, `RecordingIsKnown`, `NothingMeetsARecording`, `IdleDeviceWillSleep` | `TypeOK`, `LocksBalanced`, `NoForgottenRecording`, `RecordingUndisturbed`, `SleepTimerLives` |
| `PowerProofs`, of `Power` | `TypeCorrect`, `QuietLineMeansKnown`, `NoSleepOnExternalPower`, `BatteryIsNotDrained` | `TypeOK`, `PowerIsKnown`, `SleepsOnBattery`, `IdleDeviceSleeps` |
| `PowerProofs`, of `Screen` | `ScreenTypesCorrect`, `TheLightIsKnown`, `RecordingIsSeen`, `ViewsAreTakenBack` | `ScreenTypeOK`, `LightIsKnown`, `NotIdleWhileRecording`, `ViewsGiveWay` |
| `VoiceBleProofs` | `TypeCorrect`, `BootsOnlyWhatIsWhole`, `UpdateEndIsReported`, `CachedLinkIsTheLink`, `LastIntervalWins` | `TypeOK`, `BootImageIsWhole`, `AppIsTold`, `LinkIsKnown`, `IntervalSettles` |
| `WifiSyncProofs` | `TypeCorrect`, `OutcomeIsHonest`, `FirstNetworkIsTried`, `SyncGivesBack`, `SentIsReadable`, `DeletesOnlyAcked` | `TypeOK`, `ResultHonest`, `FirstNetworkIsFound`, `RadioReleased`, `SentIsMounted`, `OnlyAckedIsDeleted` |
| `ReceiverProofs`, of `Receiver` | `TypeCorrect`, `NothingAcceptedIsForgotten`, `NotesKeepTheirText`, `DoneIsNoted` | `TypeOK`, `AcceptedIsTracked`, `NotesAreVerbatim`, `DoneMeansNoted` |
| `ReceiverProofs`, of `MemoSync` | `MemoTypesCorrect`, `NoSavedMemoIsLost`, `SavedMemosHaveARequest`, `DeliveredNotesAreWhole` | `MemoTypeOK`, `NoMemoLost`, `RetryIsScheduled`, `NotesAreWhole` |
| `ReceiverProofs`, of `PromptTerms` | `PromptsAreLongest`, `VocabulariesAreTheBest`, `VocabulariesAreFresh` | `PromptIsLongestPrefix`, `VocabularyIsTheBest`, `VocabularyIsFresh` |
| `AudioPipelineProofs` | `TypeCorrect`, `SessionResources`, `NeverAHole`, `NothingLostSilently`, `StopIsHonest` | `TypeOK`, `ResourcesOwned`, `SavedIsAPrefix`, `NoSilentLoss`, `StopTellsTheTruth` |
| `VoiceSyncProofs` | `NothingIsLost`, `NotedOnlyOnce`, `DeviceImplementsSync` | `NothingLost`, `NotedOnce`, `Device!Spec` |

Each proof has an invariant stronger than what is stated, one lemma per action
(or group of actions) that keeps it, and a temporal step at the end. The
strengthenings were first checked with TLC.

*Recording store, files.* `BoundedLoss` alone is not inductive: a crash truncates
to what was synced, so the proof must know, while a recording is open, how
much that is. `ActiveOK` says it: the file has the pages that were numbered, and
all but the last `pages_since_sync` of them are synced (`Growing`); no page
after the i-th carries more than `PacketsPerPage` packets (`Behind`); the page
buffer holds exactly what was accepted beyond the file (`Buffered`). The
unsynced packets are then at most `PacketsPerPage` times `SyncEveryPages`
(`Loss`), by the moment at which the counter is compared.

*Recording store, refinement.* `FileInv` adds what the packets are: file and page
buffer together are the accepted packets in order, pages cover them in order
(`Chain`) and each names the position of its last one (`Exact`). Every step of
the store is then a step of `RecordingLog` or changes nothing it can see:
buffering is `LogAccept` with the medium as it was, a page with its fsync is
`LogAccept` that pushes older packets out, every failure, abort and
crash is `LogGiveUp` (`GiveUpStep`, with what the call under way may have left),
the rename is `LogFinalize`. `AudioIsKept` follows from the steps of
`RecordingLog` alone: none of them shortens what a name holds.

*Application task.* The hard part is what the queue may still hold. `OrderInv`
says it for updates: every begin or progress event is followed by the end event
once the update is over, and no disconnect overtakes that end. Without it a
device could wait for ever in an update, and `SleepInv` (an idle device has its
timer armed, the timer's event queued, or an event was dropped) would not be
kept. `RecInv` says that while a recording runs or is being started no sync runs,
the device is on, and an update that came in between has its begin event in the
queue; `LockInv` relates the locks to `s_recording`, `s_ota_updating` and the
place the task waits at.

*Power.* `LineTellsSupply` says that a quiet line means a known supply everywhere
but between the clearing of the flags and the end of the reading that follows;
`CheckedSupply` that from the fresh check on the cable is out unless `excused`;
`IdleMeansArmed` that outside of an attempt to sleep an idle device on battery is on
its way to one.

*BLE.* The partition holds the first `written` units of the transfer under way
(`UpdateInv`); what is cached of the link is the link, or its end is still to be
reported (`LinkInv`); the interval asked for was handed over, or is pending
while a procedure is under way, except where the application task is between
setting the target and its call, or between the call and the flag (`IntervalInv`).

*Wi-Fi sync.* Driver and flash are held only where the task gives them back
(`HeldInv`); at the turn of the first network no disconnect of an earlier sync is
still to be reported (`FirstInv`); the recordings taken are to be sent, being
sent, or dealt with (`ListInv`); each one dealt with is counted once (`CountInv`);
and the outcome is told once, after the counting (`TellInv`). What is sent lies
on a medium that is mounted: the backlog is opened for a sync that has the card,
and a boot that finds neither leaves a sync nothing to send.

*Receiver.* What a request writes cannot be told from what its neighbours write
unless they write the same, so the proof begins there: requests that overlap under
one id carry the same bytes, and from the first byte written to the rename the
audio is theirs or torn (`StoreInv`). A repeated lookup either finds the metadata
of those bytes or none. Whoever is to be answered with 200 or 201 is in hand
already (`TrackInv`): the answer comes after the queue, the queue after the
metadata, and the worker's four exits each leave a done marker, a drop, or the
metadata the start-up scan will find. `SetToSeqs`, by which the scan queues what
it finds, holds each id once (`EachOnce`). `NoteInv` says how far transcript, note
and push have come at each place of the worker. A power loss takes transcript
and note one without the other, so what it says of each holds but for the ids whose
file of that kind went: the note on the disk is still the note that was pushed when the
transcript is made anew, and a note made anew is made from the transcript, which is
still the one that was pushed. `DoneInv` needs no more of the two: a done marker speaks
of the notebook, where nothing is lost. `CrashTakes` says once what a stop leaves.
`ClockInv`, by which no two
requests draw the same time, counts the requests that are still to draw one.

*Device and receiver.* That the file leaves the device only for an answer of 200
or 201 is not enough: the answer must be the answer to the request that carries
the file being sent (`AttemptInv`), the request must carry what was recorded
(`FilesInv`, `ReqType`), and the answer must mean that it is stored. With one
request at a time the receiver's races are gone, and `StoreInv` is simple: a
request between the lookup and the rename finds no metadata, at the rename the
audio and the temporary metadata are its own, after it the metadata is
there. So what has metadata is whole and is never touched again (`StoredStays`), and
what is gone from the device has metadata (`DiskInv`), through the stop of the
receiver, the reset of the device, and the answer that got lost. For the notebook,
the time of a note is the time in the metadata, which never changes: the worker
carries it (`WorkInv`), so a recording processed twice makes the same note twice
(`NoteInv`), with the text of its transcript, which is of a whole file (`TextInv`).
Neither follows from the invariant of `WifiSync` or of `Receiver` alone: each allows
its peer anything. What each of them is proved to do alone still holds when they are
put together, for the device: `DeviceImplementsSync` takes the steps of `VoiceSync`
one by one. A reply with 200 or 201 is `UploadOk`; another code, a time-out, a
broken connection and a refused one are `UploadFails`; the steps of the
receiver change nothing the device has.

*Memos.* A memo is safe when it is whole on the phone, or whole in the receiver's
metadata and file. `TypedInv` says which memos there are, `SyncInv` that whoever
holds the lock of `syncAll` has listed files that are there. `WholeInv`: a memo
that is saved, and was not read before (`early`), is whole in its file and in what
was read of it; the one under the pen is not yet saved. `MacInv`: a request
answered 200 or 201 has its body in the metadata, and what has metadata is in the
memo's file as it came. `WaitInv` joins the two: the request the phone waits for
carries the memo being sent, as it was read. So the answer that lets the phone
delete a file (`DeliveredKeeps`) speaks of a whole memo; and what the receiver has
stored it never changes (`Kept`), as every handler looks for metadata before it
writes. `ListInv` is why a retry stays scheduled: a worker that holds the lock has
in its listing, or before it, all that is saved and waits, but for what is
`skipped`; so a worker that returns with success leaves nothing behind, and what is
saved before WorkManager takes its result is `skipped`. `QueuedInv`
adds what is queued and noted, and gives `DeliveredNotesAreWhole`: what the
notebook has of a memo that left the phone is all of it.

*Prompt, the budgets.* What `Fill` computes is a recursive function; `MadeIs`
gives it as a sequence of steps without induction over lists (see `LeastNumber` in
the pipeline's proof). `After` is what is so after n terms: the list fits both
budgets and its characters are counted right; unless it is full it has each of the
first n terms once, in order (`Holds`); and if it is full it has so of some first
m, and the term behind them was new and did not fit (`TooMuch`). `FillIsLongest`
reads that at the end of the list: any longer prefix would have that term too. The
cost of the reference definition is a sum over the same list (`CostSteps`,
`CostIs`).

*Prompt, the order.* Keys are compared part by part (`Lex`), which is strict,
transitive and total (`LexIsStrict`, `LexIsTransitive`, `LexIsTotal`), because the
last part is the place. In a finite set with such an order every number below its size
is the number of those before someone (`EveryPlaceIsTaken`): no two have the same
number, none has as many as there are. So `Ranked` holds each candidate
once, in order (`RankedIs`). The names are joined with `FlattenSeq`; `Holding` says
of each beginning which names it has, and that names of an earlier place come
earlier. `SelectedAreTheBest` puts the parts together: who was left out ranks
below everyone chosen.

*Prompt, the age.* `ExpiryInv`: what is cached expires a lifetime after the reading
it comes from, or a retry after the refresh that failed. Without it the time at
which a prompt takes its vocabulary from the cache says nothing of the vocabulary.

*Screen.* A step of a task says little; the proof is about the lists of steps that
tasks carry (`Lists`). In the application's list the three steps of lighting the
display stay together (`Together`); one that begins a recording is the last and
shows it (`Visible`); one that draws the idle screen, having looked, comes after the
recording's end (`Ended`). What a handler is given has this form (`EventsAreInOrder`,
from `Joined`, by which two lists of this form make one), and taking a step leaves
the rest of the list in it (`Passed`). Meanwhile only timer and application task
move the light: `Backlight` says what is between the change of the backlight and
the flag, `Face` what is between the flag and the face, where they may meet
(`crossed`). `Looks` and `GivesWay` are the other two properties while somebody
draws. Of a backlight that a deep sleep has switched
off `Backlight` says nothing, until a step of the two sets it again.
`Screen` has no constants: its theorems cover the states its run explores, and
give the reason.

*Audio pipeline.* Nine parts, each kept by a lemma of its own. `PlaceInv` says who
runs while the application task is where: a start or a stop that timed out has
let go, and every other waits for both tasks to exit before it touches what they
use. `HeldInv` derives the resources from these places; where neither task nor start
is, they are none, or the channel alone with `leaked`, after which no start gets
beyond `init_i2s`. `ErrorInv` says that of
two tasks that fail only the one that set `s_failed` first publishes: from then
until the callback it alone is at the publishing steps. `ExitInv` is about the
writer's exit test, whose three reads are steps of their own: what the earlier
ones saw stays true, because only the application task starts a session, and
only when both tasks are gone. `OpenInv` ties the open file to the
writer's place, through the moments of a split at which there is none.

The packets are numbered through the files: the first of a file follows the
last of the file before it (`FilesInv`), so a file before another of the same
session may not be empty. `OrderInv` puts the files of the sessions one after the
other. `QueueInv` and `StepInv` continue the numbers through the writer's hand
and the queue up to `s_seq`; `StepInv` holds as long as the writer loops or
nothing failed, which covers the moment in which the audio task has failed and the
writer is still to find out. `KindInv` says which files have their final name.
`Saved` joins the files of a session with `FlattenSeq`, a recursive function. What
it joins is proved without induction: `LeastNumber` takes the least element of a
set of numbers from the well-foundedness of `<`, `UpTo` makes of it that a set with
1, and with every number after one of its own, is everything, and `FlattenSteps`
then gives the join as a sequence of steps.

Not proved, and why:

- Liveness (`SessionsEnd`, `SyncEnds`, `AcceptedIsProcessed`, `SavedIsNoted`,
  `Reachable`, `PowerIsLearnt`) is model-checked only: TLAPS has no support for
  `ENABLED`, on which fairness rests.
- `VoiceSync` with `LateRequests` or with `PowerLoss`: the first loses recordings
  (see above); the second takes files of recordings that are gone from the
  device: without their metadata they are not processed, and `NothingLost` counts
  such a recording as lost (`Receiver` has these cases, with names).

The receiver's half of `VoiceSync` is not a behaviour of `Receiver`: a request whose
body never arrives (`BrokenOff`) is one `Receiver` leaves out, as it changes nothing
there. The memo modules have one specification, `MemoSpec`, which their theorems are
about.

## 5. Abstractions and what is left out

- *Store*: CRC, header contents and bytes; a packet is a value with a size.
  Names are drawn from a set; eight failing draws are `BeginFails`. Usage
  figures and the list of partial files only report, and are left out.
- *StorageMount*: a card is never damaged, and is there or not for the whole of a
  boot. What a failed format leaves is a partition that is no longer blank.
- *Pipeline*: samples and levels; a frame is quiet or not. The codec always
  returns from a read.
- *AppControl*: session numbers, the JSON of the host's messages, the button
  library. What is drawn is in `Screen`, the supply in `Power`. The restart after
  an update comes when the begin event has long been handled (an image takes
  minutes, the task's longest wait five seconds).
- *VoiceBle*: the contents of notifications, host names and device information.
  A notification that fails changes nothing, so message buffers running out are
  left out. One connection at a time, as the code configures.
- *WifiSync*: TLS and HTTP below the status code, removal of old `.sent` files.
  All driver events of one sync have been reported before the next one starts.
- *Receiver*: requests rejected before the lookup change nothing and are left
  out. Writing the temporary metadata file is one step, though the code opens (and so
  empties) it before it writes: another request may rename the empty file in between,
  and the writer then fills it under its final name, unless it is stopped first. The
  rename is a step of its own, so that it can find the file gone (`StoreFails`).
  A power loss takes a file or leaves it; an older or an empty version of it is left
  out. The GitHub token is set. The notebook is not edited by others. Overlapping requests under one id
  carry the same bytes, since an id belongs to one recording of one device;
  different bytes may come one after the other.
- *VoiceSync*: TLC has one recording and one network, the theorems any number.
- *PromptTerms*: which of its sources an index comes from (a readable one is
  one), the parsing of JSON and dates, the switch that turns the entity
  dictionary off, the command line of whisper. Lines are stripped.
- *MemoClient*: the settings are complete (`IllegalStateException` and with it
  `Result.failure` are left out), the clock does not go back, so that ids sort by
  capture, and the phone does not lose power. A file that cannot be created
  leaves no trace. Back-off is the choice of when a worker runs. When a sync fails, the
  lock is released and the work enqueued again in one step: `KEEP` drops a request
  before the one and after the other.
- *MemoReceiver*: one request at a time; a request the phone gave up has ended
  when the next one arrives. `VoiceSync` has the race of two. The receiver is killed
  but the Mac keeps its power; `Receiver` has the loss of what was never synced.
- *Screen*: widgets, layout, icons, generated fonts and the text of hints, which
  are output only. Scenes are told apart as far as the code asks about them. The panel,
  which a deep sleep given up leaves off, is in `Power`; here is its backlight.
- *Power*: what register values mean in volts and per cent, the GPIO of the keys.
  What else refuses deep sleep (a sync, an update under way) is `AppControl`'s.
- Not modelled: scripts, the bench test and its copy of the board support, the
  packaging tests.

## 6. Plan

Every safety property of a passing run is proved; what is left is more model. A run of
`VoiceSync` with two recordings needs a coarser `Receiver` first: steps of a
request that nobody else can tell apart would become one. The theorems of `VoiceSync`
without `PowerLoss = FALSE` would have `forgotten` as their exception.
`MemoReceiver` could take two requests at a time, as `Receiver` does.
