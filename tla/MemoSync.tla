------------------------------ MODULE MemoSync ------------------------------
(***************************************************************************)
(* From the keypad to the notebook: the memo client (MemoClient) and the   *)
(* memo half of the receiver (MemoReceiver), over connections that break,  *)
(* time out and lose answers.                                              *)
(***************************************************************************)
EXTENDS Integers, Sequences, FiniteSets

CONSTANTS Memo, Kind,
          MaxUpsets         \* bound: stops, closed activities, failed saves and pushes

ASSUME MemoAssumption ==
    /\ Memo \subseteq Nat \ {0} /\ Kind \subseteq {"plain", "blank", "long"}
    /\ MaxUpsets \in Nat

VARIABLES texts, files, saved, ui, open, tasks, work, holder, todo, cur, body, skipped, early,
          post, memos, memo_metadata, memo_done, memo_queue, memo_notes, serving, memo_dropped,
          waiting,          \* syncAll waits for the answer to the request
          upsets

Phone == INSTANCE MemoClient
Mac == INSTANCE MemoReceiver

phoneVars == <<texts, files, saved, ui, open, tasks, work, holder, todo, cur, body, skipped, early>>
macVars == <<post, memos, memo_metadata, memo_done, memo_queue, memo_notes, serving, memo_dropped>>
memoVars == <<phoneVars, macVars, waiting, upsets>>

MemoInit == Phone!PhoneInit /\ Mac!MacInit /\ waiting = FALSE /\ upsets = 0

-----------------------------------------------------------------------------
Alone(A) == A /\ UNCHANGED <<macVars, waiting, upsets>>
Serve(A) == A /\ UNCHANGED <<phoneVars, waiting, upsets>>
Upset == upsets < MaxUpsets /\ upsets' = upsets + 1

Use == Alone(Phone!Resume \/ Phone!CaptureMemo)
Capture == Alone(Phone!Ui)
WorkerRuns == Alone(Phone!WorkerRuns \/ Phone!WorkerSucceeds)
SyncBegin == Alone(Phone!SyncBegin)
ReadMemo == Alone(Phone!ReadMemo)
SyncEnd == Alone(Phone!SyncEnd)

(* readAllBytes fails, also because shutdownNow interrupted the thread; or  *)
(* there is no connection, or the body does not get through.                *)
NoUpload == ~ waiting /\ (cur # 0 \/ todo # {}) /\ Alone(Phone!SyncFails)

Connect ==
    /\ cur # 0 /\ ~ waiting /\ waiting' = TRUE
    /\ Mac!PostMemo(cur, [kind |-> texts[cur], part |-> body])
    /\ UNCHANGED <<phoneVars, upsets>>

(* Mutant: the memo is deleted whatever the answer.                         *)
DeliveredAnyCode ==
    /\ waiting /\ Mac!Answered /\ waiting' = FALSE
    /\ Phone!UploadOk /\ UNCHANGED upsets

Delivered ==
    /\ waiting /\ post.status \in {200, 201} /\ Mac!Answered /\ waiting' = FALSE
    /\ Phone!UploadOk /\ UNCHANGED upsets

(* Another code; the answer is lost; the file cannot be deleted.            *)
NotDelivered ==
    /\ waiting /\ Mac!Answered /\ waiting' = FALSE
    /\ Phone!SyncFails /\ UNCHANGED upsets

(* The read timeout; the receiver goes on.                                  *)
GiveUp ==
    /\ waiting /\ post.pc = "check" /\ waiting' = FALSE
    /\ Phone!SyncFails /\ UNCHANGED <<macVars, upsets>>

ReceiveMemo == Serve(Mac!Handler) \/ (~ waiting /\ Serve(Mac!Answered))
MacWorks == Serve(Mac!Start \/ \E m \in memo_queue : Mac!Process(m))

SaveFails == Upset /\ Phone!SaveFails /\ UNCHANGED <<macVars, waiting>>
Close == Upset /\ Phone!Destroy /\ UNCHANGED <<macVars, waiting>>
PhoneStops == Upset /\ Phone!Kill /\ waiting' = FALSE /\ UNCHANGED macVars
WorkerStopped == Upset /\ Phone!WorkerStopped /\ UNCHANGED <<macVars, waiting>>
NotNoted == /\ Upset /\ \E m \in memo_queue : Mac!ProcessingFails(m)
            /\ UNCHANGED <<phoneVars, waiting>>
MacStops == Upset /\ Mac!Crash /\ waiting' = FALSE
            /\ IF waiting THEN Phone!SyncFails ELSE UNCHANGED phoneVars

MemoNext ==
    \/ Use \/ Capture \/ SaveFails \/ Close \/ WorkerRuns \/ WorkerStopped \/ PhoneStops
    \/ SyncBegin \/ ReadMemo \/ SyncEnd \/ NoUpload
    \/ Connect \/ Delivered \/ NotDelivered \/ GiveUp
    \/ ReceiveMemo \/ MacWorks \/ NotNoted \/ MacStops

MemoSpec == MemoInit /\ [][MemoNext]_memoVars

(* Threads run, WorkManager runs what it holds, launchd starts the          *)
(* receiver.  What may fail does not fail for ever: files are read, a       *)
(* connection is made, the memo is stored before the phone gives up, and    *)
(* the answer arrives, if each is tried again and again.                    *)
InTime == waiting /\ Serve(Mac!Store \/ Mac!Duplicate)

FairMemoSpec ==
    /\ MemoSpec
    /\ WF_memoVars(Capture) /\ WF_memoVars(WorkerRuns)
    /\ WF_memoVars(SyncBegin) /\ WF_memoVars(SyncEnd)
    /\ WF_memoVars(ReceiveMemo) /\ WF_memoVars(Delivered \/ NotDelivered)
    /\ WF_memoVars(MacWorks)
    /\ SF_memoVars(ReadMemo) /\ SF_memoVars(Connect) /\ SF_memoVars(InTime)
    /\ SF_memoVars(Delivered)

-----------------------------------------------------------------------------
MemoTypeOK ==
    /\ Phone!PhoneTypeOK /\ Mac!MacTypeOK
    /\ waiting \in BOOLEAN /\ upsets \in 0 .. MaxUpsets
    /\ (waiting => cur # 0 /\ post.id = cur)

Whole(m) == [kind |-> texts[m], part |-> "all"]

(* The phone lets go of a saved memo only when the whole of it is in a file *)
(* of the receiver that its start-up scan will find, whatever got lost or    *)
(* stopped in between (MemoStore.java:79-85) -- unless syncAll read the     *)
(* file while savePending was still writing it.                             *)
NoMemoLost ==
    \A m \in saved \ early :
        m \notin Phone!Pending => memos[m] = Whole(m) /\ memo_metadata[m] = Whole(m)

(* WorkManager has a request for every saved memo that is on the phone: a   *)
(* sync that fails asks for a retry, a kill does not lose the request       *)
(* (MemoSyncWorker.java:27-36) -- except for the memos whose request KEEP    *)
(* dropped, or that a kill came before.                                     *)
RetryIsScheduled ==
    \A m \in (saved \cap Phone!Pending) \ skipped :
        work # "none" \/ (ui = "enqueue" /\ m = Phone!Newest)

(* A file the receiver turns down, or a text it knows otherwise             *)
Stuck(b) == /\ b \in Phone!Pending
            /\ \/ Mac!MayBeRejected([kind |-> texts[b], part |-> files[b]])
               \/ memo_metadata[b] \notin {Mac!NoBody, Whole(b)}

Unfinished == {m \in saved \ (memo_done \cup memo_dropped \cup skipped \cup early) :
                   \A b \in 1 .. m : ~ Stuck(b)}

(* Every saved memo becomes a note, or processing it failed, or a file that *)
(* the receiver turns down comes before it, or no request was made for it:  *)
(* time and again nothing else is left to do.                               *)
SavedIsNoted == []<>(Unfinished = {})

=============================================================================
