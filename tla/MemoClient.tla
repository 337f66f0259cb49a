----------------------------- MODULE MemoClient -----------------------------
(***************************************************************************)
(* The Android memo client, kyf44-memo-client: MainActivity saves a memo   *)
(* on the UI thread, asks WorkManager for a sync and starts one of its     *)
(* own; MemoStore.syncAll, one thread at a time, uploads and deletes what  *)
(* is pending, oldest first.                                               *)
(*                                                                         *)
(* The receiver's settings are complete and the phone's clock does not go  *)
(* back, so that ids sort by capture.  A process may be killed at any      *)
(* point; files survive it.  WorkManager keeps one unique request.         *)
(***************************************************************************)
EXTENDS Integers, FiniteSets, FiniteSetsExt

CONSTANTS Memo, Kind

VARIABLES texts,            \* history: what was typed for each memo
          files,            \* pending-memos/<id>.txt: how much of the text
          saved,            \* history: memos savePending returned for
          ui,               \* where capture() is
          open,             \* the activity exists
          tasks,            \* threads that sync and answer to nobody
          work,             \* WorkManager's request
          holder,           \* who is in syncAll
          todo,             \* the files it listed and did not come to
          cur,              \* the memo it uploads, or 0
          body,             \* what it read of it
          skipped,          \* history: memos no request was made for
          early             \* history: memos read before they were saved

capture == <<texts, saved, ui>>
syncing == <<holder, todo, cur, body>>
phoneVars == <<capture, files, open, tasks, work, syncing, skipped, early>>

PhoneInit ==
    /\ texts = [m \in Memo |-> "none"] /\ files = [m \in Memo |-> "none"] /\ saved = {}
    /\ ui = "idle" /\ open = FALSE /\ tasks = 0 /\ work = "none"
    /\ holder = "none" /\ todo = {} /\ cur = 0 /\ body = "none"
    /\ skipped = {} /\ early = {}

Newest == Cardinality({m \in Memo : texts[m] # "none"})
Pending == {m \in Memo : files[m] # "none"}

-----------------------------------------------------------------------------
(* MemoSyncWorker.enqueue, with ExistingWorkPolicy.KEEP                     *)
Keep == work' = IF work = "none" THEN "enqueued" ELSE work

(* onCreate, onResume, and the settings dialog                              *)
Resume ==
    /\ ui = "idle" /\ open' = TRUE /\ Keep
    /\ skipped' = IF work = "none" THEN {} ELSE skipped
    /\ UNCHANGED <<capture, files, tasks, syncing, early>>

(* capture, savePending: the file is created ...                            *)
CaptureMemo ==
    /\ open /\ ui = "idle" /\ Newest + 1 \in Memo
    /\ \E k \in Kind : texts' = [texts EXCEPT ![Newest + 1] = k]
    /\ files' = [files EXCEPT ![Newest + 1] = "empty"]
    /\ ui' = "write"
    /\ UNCHANGED <<saved, open, tasks, work, syncing, skipped, early>>

(* ... written, page by page ...                                            *)
WritePart ==
    /\ ui = "write" /\ files[Newest] = "empty"
    /\ files' = [files EXCEPT ![Newest] = "some"]
    /\ UNCHANGED <<capture, open, tasks, work, syncing, skipped, early>>

(* ... and synced.  A sync may have deleted it under the writer's hands.    *)
SaveDone ==
    /\ ui = "write" /\ ui' = "enqueue"
    /\ files' = IF Newest \in Pending THEN [files EXCEPT ![Newest] = "all"] ELSE files
    /\ saved' = saved \cup {Newest}
    /\ UNCHANGED <<texts, open, tasks, work, syncing, skipped, early>>

(* IOException: what there is of the file stays.                            *)
SaveFails ==
    /\ ui = "write" /\ ui' = "idle"
    /\ UNCHANGED <<texts, saved, files, open, tasks, work, syncing, skipped, early>>

(* KEEP drops the request while a worker runs, also when it has listed the  *)
(* files already, and until its result is taken.  Then executor.execute.    *)
Overlooked ==
    /\ Newest \in Pending
    /\ work = "returned" \/ (holder = "worker" /\ Newest \notin todo \cup {cur})

RequestSync ==
    /\ ui = "enqueue" /\ ui' = "idle" /\ Keep
    /\ skipped' = IF work = "none" THEN {}
                  ELSE IF Overlooked THEN skipped \cup {Newest} ELSE skipped
    /\ tasks' = tasks + 1
    /\ UNCHANGED <<texts, saved, files, open, syncing, early>>

(* onDestroy: shutdownNow drops what waits; a task that runs goes on.       *)
Destroy ==
    /\ open /\ ui = "idle" /\ open' = FALSE
    /\ tasks' \in (IF tasks = 0 THEN {0} ELSE 1 .. tasks)
    /\ UNCHANGED <<capture, files, work, syncing, skipped, early>>

Ui == WritePart \/ SaveDone \/ RequestSync

-----------------------------------------------------------------------------
(* WorkManager *)
WorkerRuns ==
    /\ work = "enqueued" /\ work' = "running"
    /\ UNCHANGED <<capture, files, open, tasks, syncing, skipped, early>>

(* It takes the result of doWork: success.                                  *)
WorkerSucceeds ==
    /\ work = "returned" /\ work' = "none"
    /\ UNCHANGED <<capture, files, open, tasks, syncing, skipped, early>>

(* The network is lost: the request waits again, and its thread goes on     *)
(* without anyone who asks for its result -- unless it has returned.        *)
WorkerStopped ==
    /\ work \in {"running", "returned"}
    /\ work' = "enqueued" /\ skipped' = {}
    /\ tasks' = IF work = "running" THEN tasks + 1 ELSE tasks
    /\ holder' = IF holder = "worker" THEN "task" ELSE holder
    /\ UNCHANGED <<capture, files, open, todo, cur, body, early>>

-----------------------------------------------------------------------------
(* syncAll: the lock is free; listFiles                                     *)
SyncBegin ==
    /\ holder = "none"
    /\ \/ tasks > 0 /\ holder' = "task"
       \/ work = "running" /\ holder' = "worker"
    /\ todo' = Pending /\ cur' = 0 /\ body' = "none"
    /\ UNCHANGED <<capture, files, open, tasks, work, skipped, early>>

(* Arrays.sort, readAllBytes                                                *)
ReadMemo ==
    /\ holder # "none" /\ cur = 0 /\ todo # {}
    /\ cur' = Min(todo) /\ todo' = todo \ {cur'} /\ body' = files[cur']
    /\ early' = IF ui = "write" /\ cur' = Newest THEN early \cup {Newest} ELSE early
    /\ UNCHANGED <<capture, files, open, tasks, work, holder, skipped>>

(* 200 or 201, and delete() worked                                          *)
UploadOk ==
    /\ cur # 0
    /\ files' = [files EXCEPT ![cur] = "none"]
    /\ cur' = 0 /\ body' = "none"
    /\ UNCHANGED <<capture, open, tasks, work, holder, todo, skipped, early>>

Unlock == holder' = "none" /\ todo' = {} /\ cur' = 0 /\ body' = "none"

(* Mutant: a worker that failed reports success.                            *)
SyncFailsSuccess ==
    /\ holder # "none" /\ Unlock
    /\ IF holder = "task" THEN tasks' = tasks - 1 /\ UNCHANGED work
                          ELSE work' = "returned" /\ UNCHANGED tasks
    /\ UNCHANGED <<capture, files, open, skipped, early>>

(* An exception ends the sync; doWork returns retry.  Until that is taken   *)
(* KEEP drops requests, and so it does when the work is enqueued again.     *)
SyncFails ==
    /\ holder # "none" /\ Unlock
    /\ IF holder = "task" THEN tasks' = tasks - 1 /\ UNCHANGED <<work, skipped>>
                          ELSE work' = "enqueued" /\ skipped' = {} /\ UNCHANGED tasks
    /\ UNCHANGED <<capture, files, open, early>>

(* Nothing is left; the lock is released, and doWork returns.               *)
SyncEnd ==
    /\ holder # "none" /\ cur = 0 /\ todo = {} /\ Unlock
    /\ IF holder = "task" THEN tasks' = tasks - 1 /\ UNCHANGED work
                          ELSE work' = "returned" /\ UNCHANGED tasks
    /\ UNCHANGED <<capture, files, open, skipped, early>>

-----------------------------------------------------------------------------
(* The process is killed; WorkManager's database is not.                    *)
Kill ==
    /\ open' = FALSE /\ ui' = "idle" /\ tasks' = 0 /\ Unlock
    /\ work' = IF work \in {"running", "returned"} THEN "enqueued" ELSE work
    /\ skipped' = IF work \in {"running", "returned"} THEN {}
                  ELSE IF work = "none" /\ ui = "enqueue" THEN skipped \cup {Newest}
                  ELSE skipped
    /\ UNCHANGED <<texts, saved, files, early>>

-----------------------------------------------------------------------------
PhoneTypeOK ==
    /\ texts \in [Memo -> Kind \cup {"none"}]
    /\ files \in [Memo -> {"none", "empty", "some", "all"}]
    /\ saved \subseteq Memo /\ skipped \subseteq saved /\ early \subseteq Memo
    /\ ui \in {"idle", "write", "enqueue"} /\ open \in BOOLEAN
    /\ (ui # "idle" => open)
    /\ tasks \in Nat
    /\ work \in {"none", "enqueued", "running", "returned"}
    /\ holder \in {"none", "task", "worker"}
    /\ (holder = "task" => tasks > 0) /\ (holder = "worker" => work = "running")
    /\ todo \subseteq Pending /\ cur \in Pending \cup {0}
    /\ (cur # 0) = (body # "none") /\ (holder = "none" => cur = 0 /\ todo = {})
=============================================================================
