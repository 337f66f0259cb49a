---------------------------- MODULE MemoReceiver ----------------------------
(***************************************************************************)
(* The memo half of the receiver, local-receiver/app.py: receive_memo()    *)
(* stores a typed memo, a worker thread of its own pushes it to the        *)
(* notebook repository.                                                    *)
(*                                                                         *)
(* One request at a time: the phone's syncs exclude each other, and one it *)
(* gave up is taken to end before the next.  A body is known by the text   *)
(* it comes from and by how much of that text it holds.  Token, id and     *)
(* content type are right.  The queue is a set: the worker does the same   *)
(* whenever an id comes, and a second time changes nothing.                *)
(*                                                                         *)
(* A "blank" text is white space to Python and not to Java, such as the    *)
(* full-width space; a "long" one has more than MAX_MEMO_BYTES.            *)
(***************************************************************************)
EXTENDS Naturals

CONSTANTS Memo,             \* memo ids, numbers in the order of capture
          Kind              \* kinds of text that are typed

VARIABLES post,             \* the request
          memos,            \* memos/<id>.txt
          memo_metadata,    \* memo-metadata/<id>.json: the digest
          memo_done,        \* ids with a memo-done/<id>.json
          memo_queue,       \* _memo_processing_queue, and what its worker is at
          memo_notes,       \* the memo's file in the notebook repository
          serving,          \* the receiver runs
          memo_dropped      \* history: ids dropped since the start

stored == <<memos, memo_metadata>>
results == <<memo_done, memo_notes>>
macVars == <<post, stored, results, memo_queue, serving, memo_dropped>>

NoBody == [kind |-> "none", part |-> "none"]
NoPost == [pc |-> "free", id |-> 0, body |-> NoBody, status |-> 0]

MacInit ==
    /\ post = NoPost
    /\ memos = [m \in Memo |-> NoBody] /\ memo_metadata = [m \in Memo |-> NoBody]
    /\ memo_done = {} /\ memo_queue = {}
    /\ memo_notes = [m \in Memo |-> NoBody]
    /\ serving = TRUE /\ memo_dropped = {}

-----------------------------------------------------------------------------
(* receive_memo *)
PostMemo(m, body) ==
    /\ serving /\ post = NoPost
    /\ post' = [pc |-> "check", id |-> m, body |-> body, status |-> 0]
    /\ UNCHANGED <<stored, results, memo_queue, serving, memo_dropped>>

Answer(status) == post' = [post EXCEPT !.pc = "answer", !.status = status]

(* An empty body, one that strip() empties, one that is too large; a part   *)
(* may end within a character, and then it is no UTF-8.                     *)
Rejected(body) == \/ body.part = "empty" \/ body.kind = "blank"
                  \/ body.kind = "long" /\ body.part = "all"
MayBeRejected(body) == Rejected(body) \/ body.part = "some"

(* 400 or 413 *)
Reject ==
    /\ post.pc = "check" /\ MayBeRejected(post.body) /\ Answer(400)
    /\ UNCHANGED <<stored, results, memo_queue, serving, memo_dropped>>

(* NewAlways is a mutant: read_memo_metadata is not asked.                  *)
Accepted == post.pc = "check" /\ ~ Rejected(post.body)
New == Accepted /\ memo_metadata[post.id] = NoBody

(* read_memo_metadata finds the id, and the digests differ                  *)
Conflict ==
    /\ Accepted /\ memo_metadata[post.id] \notin {NoBody, post.body} /\ Answer(409)
    /\ UNCHANGED <<stored, results, memo_queue, serving, memo_dropped>>

(* ... or agree: the memo is queued once more.                              *)
Duplicate ==
    /\ Accepted /\ memo_metadata[post.id] = post.body /\ Answer(200)
    /\ memo_queue' = memo_queue \cup {post.id}
    /\ UNCHANGED <<stored, results, serving, memo_dropped>>

MemoIs(part) == memos' = [memos EXCEPT ![post.id] = [post.body EXCEPT !.part = part]]
MetadataIsWritten == memo_metadata' = [memo_metadata EXCEPT ![post.id] = post.body]

(* store_memo_durably, write_memo_metadata, put.  Nobody looks at the files *)
(* of a memo without metadata, so that these are one step unless it fails.  *)
Store ==
    /\ New /\ MemoIs(post.body.part) /\ MetadataIsWritten /\ Answer(201)
    /\ memo_queue' = memo_queue \cup {post.id}
    /\ UNCHANGED <<results, serving, memo_dropped>>

(* An exception, so an answer 500: the disk is full.  What there is of the   *)
(* file counts as empty: the next attempt truncates it.                     *)
StoreFails ==
    /\ New /\ Answer(500)
    /\ MemoIs("empty")
    /\ UNCHANGED <<memo_metadata, results, memo_queue, serving, memo_dropped>>

Answered ==
    /\ post.pc = "answer" /\ post' = NoPost
    /\ UNCHANGED <<stored, results, memo_queue, serving, memo_dropped>>

Handler == Reject \/ Conflict \/ Duplicate \/ Store \/ StoreFails

-----------------------------------------------------------------------------
(* process_memo_async, in the memo worker thread.  render_memo_markdown     *)
(* keeps the text; push_to_mynotebook leaves a file that is there alone.    *)
Pushed(m) == IF memo_notes[m] # NoBody THEN memo_notes ELSE [memo_notes EXCEPT ![m] = memos[m]]

Process(m) ==
    /\ m \in memo_queue /\ memo_queue' = memo_queue \ {m}
    /\ memo_notes' = Pushed(m) /\ memo_done' = memo_done \cup {m}
    /\ UNCHANGED <<post, stored, serving, memo_dropped>>

(* Any step raises; the exception is logged and the memo dropped.  The push *)
(* may have worked: its answer was lost, or the marker was not written.     *)
ProcessingFails(m) ==
    /\ m \in memo_queue /\ memo_queue' = memo_queue \ {m}
    /\ memo_notes' \in {memo_notes, Pushed(m)} /\ memo_dropped' = memo_dropped \cup {m}
    /\ UNCHANGED <<post, stored, memo_done, serving>>

-----------------------------------------------------------------------------
Scanned == {m \in Memo : memo_metadata[m] # NoBody /\ m \notin memo_done}

(* The receiver stops, perhaps in the middle of receive_memo or of a push.  *)
Crash ==
    /\ serving /\ serving' = FALSE /\ post' = NoPost /\ memo_queue' = {}
    /\ memo_notes' \in {memo_notes} \cup {Pushed(m) : m \in memo_queue}
    /\ \/ UNCHANGED stored
       \/ New /\ MemoIs("empty") /\ UNCHANGED memo_metadata
       \/ New /\ MemoIs(post.body.part) /\ MetadataIsWritten
    /\ UNCHANGED <<memo_done, memo_dropped>>

(* Mutant: no scan at the start.                                            *)
StartScansNothing ==
    /\ ~ serving /\ serving' = TRUE /\ memo_dropped' = {}
    /\ UNCHANGED <<post, stored, results, memo_queue>>

(* main: reprocess_pending_memos, before the first request is served        *)
Start ==
    /\ ~ serving /\ serving' = TRUE /\ memo_queue' = Scanned /\ memo_dropped' = {}
    /\ UNCHANGED <<post, stored, results>>

-----------------------------------------------------------------------------
Bodies == [kind : Kind, part : {"empty", "some", "all"}] \cup {NoBody}

MacTypeOK ==
    /\ post = NoPost \/ post \in [pc : {"check", "answer"}, id : Memo, body : Bodies \ {NoBody},
                                  status : {0, 200, 201, 400, 409, 500}]
    /\ memos \in [Memo -> Bodies] /\ memo_metadata \in [Memo -> Bodies]
    /\ memo_notes \in [Memo -> Bodies] /\ memo_done \subseteq Memo
    /\ memo_queue \subseteq Memo /\ memo_dropped \subseteq Memo /\ serving \in BOOLEAN
    /\ (~ serving => post = NoPost /\ memo_queue = {})
=============================================================================
