------------------------------ MODULE Ingestion ------------------------------
(***************************************************************************)
(* One curriculum document: upload, reindex, edit and delete by            *)
(* administrators (curriculum_service), the worker's runs                  *)
(* (curriculum_tasks, ingestion_service) and those of                      *)
(* scripts/reindex_documents.                                              *)
(*                                                                         *)
(* A run is one transaction from its DELETE of the old chunks to its       *)
(* commit, minutes later; others see its effect only then.  What the PDF   *)
(* says is left out: a run writes one chunk per embedding batch.  Titles,  *)
(* types and edits that change neither grade nor subject do not touch this *)
(* state and are left out.                                                 *)
(***************************************************************************)
EXTENDS Integers, FiniteSets

CONSTANTS
    Jobs,       \* requests of administrators and runs of the script
    Labels,     \* a grade and a subject
    Batches     \* embedding batches in the document

ASSUME BatchesAssumption == Batches \in Nat \ {0}

Keep == "keep"      \* reindex asks for no label
ASSUME LabelsAssumption == Keep \notin Labels

Chunk == [by : Jobs, batch : 1..Batches, label : Labels]

VARIABLES
    status,     \* curriculum_documents.status, "none" before and "gone" after the row
    label,      \* its grade_level and subject
    stored,     \* the PDF is in storage
    chunks,     \* committed rows of document_chunks
    pc,         \* per job: its next step
    kind,       \* per job: what it is
    want,       \* per job: the labels the request asks for
    loaded,     \* per job: status as the run last loaded it
    saw,        \* per job: the chunks its DELETE saw, then deletes; kept as history
    mine,       \* per job: chunks added to its session
    redelivered,\* per job: its message has been delivered twice
    lost        \* a message was lost, or its run ended leaving the document as it was

docVars == <<status, label, stored>>
runVars == <<loaded, saw, mine, redelivered>>
vars == <<docVars, chunks, pc, kind, want, runVars, lost>>

Exists == status \notin {"none", "gone"}
Stages == {"queued", "read", "clearing", "batch", "commit", "failing"}
Running(p) == pc[p] \in {"read", "clearing", "batch", "commit"}

TypeOK ==
    /\ status \in {"none", "processing", "completed", "failed", "gone"}
    /\ label \in Labels
    /\ stored \in BOOLEAN
    /\ chunks \subseteq Chunk
    /\ pc \in [Jobs -> Stages \cup {"idle", "stored", "checked", "committed", "removed",
                                   "acking", "done"}]
    /\ kind \in [Jobs -> {"none", "upload", "reprocess", "again", "script", "delete"}]
    /\ want \in [Jobs -> Labels \cup {Keep}]
    /\ loaded \in [Jobs -> {"processing", "completed", "failed"}]
    /\ saw \in [Jobs -> SUBSET Chunk]
    /\ mine \in [Jobs -> SUBSET Chunk]
    /\ redelivered \in [Jobs -> BOOLEAN]
    /\ lost \in BOOLEAN

Init ==
    /\ status = "none" /\ label \in Labels /\ stored = FALSE
    /\ chunks = {}
    /\ pc = [p \in Jobs |-> "idle"]
    /\ kind = [p \in Jobs |-> "none"]
    /\ want = [p \in Jobs |-> Keep]
    /\ loaded = [p \in Jobs |-> "processing"]
    /\ saw = [p \in Jobs |-> {}]
    /\ mine = [p \in Jobs |-> {}]
    /\ redelivered = [p \in Jobs |-> FALSE]
    /\ lost = FALSE

-----------------------------------------------------------------------------
(* Requests.                                                               *)

Goto(p, stage) == pc' = [pc EXCEPT ![p] = stage]
Become(p, k) == pc[p] = "idle" /\ kind' = [kind EXCEPT ![p] = k]

\* Variant of UploadFile: an error of the storage is ignored, as in delete.
UploadFile_IgnoresError(p) ==
    /\ Become(p, "upload")
    /\ status = "none" /\ ~\E q \in Jobs : kind[q] = "upload"
    /\ stored' \in BOOLEAN
    /\ Goto(p, "stored")
    /\ UNCHANGED <<status, label, chunks, want, runVars, lost>>

\* upload, up to the storage.
UploadFile(p) ==
    /\ Become(p, "upload")
    /\ status = "none" /\ ~\E q \in Jobs : kind[q] = "upload"
    /\ stored' = TRUE
    /\ Goto(p, "stored")
    /\ UNCHANGED <<status, label, chunks, want, runVars, lost>>

\* The row is inserted and committed.
UploadRow(p) ==
    /\ pc[p] = "stored"
    /\ status' = "processing"
    /\ Goto(p, "committed")
    /\ UNCHANGED <<label, stored, chunks, kind, want, runVars, lost>>

\* _get_idle, for reindex (l = Keep) or for an update to other labels.
GetIdle(p, l) ==
    /\ Become(p, "reprocess")
    /\ Exists /\ status # "processing"
    /\ l # label
    /\ want' = [want EXCEPT ![p] = l]
    /\ Goto(p, "checked")
    /\ UNCHANGED <<docVars, chunks, runVars, lost>>

\* _start_processing up to its commit; an UPDATE that meets no row fails.
StartProcessing(p) ==
    /\ pc[p] = "checked"
    /\ Exists
    /\ status' = "processing"
    /\ label' = IF want[p] = Keep THEN label ELSE want[p]
    /\ Goto(p, "committed")
    /\ UNCHANGED <<stored, chunks, kind, want, runVars, lost>>

\* The task is published.
Delay(p) ==
    /\ pc[p] = "committed"
    /\ Goto(p, "queued")
    /\ UNCHANGED <<docVars, chunks, kind, want, runVars, lost>>

\* The broker refuses the task, or the API process dies before it publishes it.
DelayFails(p) ==
    /\ pc[p] = "committed"
    /\ Goto(p, "done")
    /\ lost' = TRUE
    /\ UNCHANGED <<docVars, chunks, kind, want, runVars>>

\* delete, first half: the file is removed; an error of the storage is ignored.
RemoveFile(p) ==
    /\ Become(p, "delete")
    /\ Exists
    /\ stored' \in {FALSE, stored}
    /\ Goto(p, "removed")
    /\ UNCHANGED <<status, label, chunks, want, runVars, lost>>

\* The chunks some other transaction has deleted and not committed.
LockedBy(p) == IF pc[p] \in {"batch", "commit"} THEN saw[p] \cap chunks ELSE {}
Locked(S, p) == \E q \in Jobs \ {p} : LockedBy(q) \cap S # {}

\* delete, second half: the row and, by the cascade, its chunks.
DeleteRow(p) ==
    /\ pc[p] = "removed"
    /\ ~Locked(chunks, p)
    /\ status' = "gone"
    /\ chunks' = {}
    /\ Goto(p, "done")
    /\ UNCHANGED <<label, stored, kind, want, runVars, lost>>

\* A request ends early: its row is gone, or the connection is lost.
RequestFails(p) ==
    /\ pc[p] \in {"stored", "checked", "removed"}
    /\ Goto(p, "done")
    /\ UNCHANGED <<docVars, chunks, kind, want, runVars, lost>>

\* reindex_documents comes to this document, whatever its status.
Script(p) ==
    /\ Become(p, "script")
    /\ Exists
    /\ Goto(p, "queued")
    /\ UNCHANGED <<docVars, chunks, want, runVars, lost>>

\* The broker delivers a message again, to a job of its own (bounded: there are
\* so many): the worker died between the commit and the acknowledgement, or its
\* connection broke while the run goes on.
Redeliver(p) ==
    /\ Become(p, "again")
    /\ \E q \in Jobs : /\ kind[q] \in {"upload", "reprocess", "again"}
                       /\ pc[q] \in (Stages \ {"queued"}) \cup {"acking"}
    /\ Goto(p, "queued")
    /\ UNCHANGED <<docVars, chunks, want, runVars, lost>>

-----------------------------------------------------------------------------
(* Runs.                                                                   *)

RunFrame == UNCHANGED <<docVars, kind, want, redelivered, lost>>

\* The run loads the document; without one it ends.
Load(p) ==
    /\ pc[p] = "queued"
    /\ IF Exists
       THEN Goto(p, "read") /\ loaded' = [loaded EXCEPT ![p] = status]
       ELSE Goto(p, "done") /\ UNCHANGED loaded
    /\ UNCHANGED <<chunks, saw, mine>> /\ RunFrame

\* The PDF was downloaded and chunked; delete_chunks starts, with the rows
\* committed now.
ReadPdf(p) ==
    /\ pc[p] = "read"
    /\ stored
    /\ saw' = [saw EXCEPT ![p] = chunks]
    /\ Goto(p, "clearing")
    /\ UNCHANGED <<chunks, loaded, mine>> /\ RunFrame

\* Variant of DeleteChunks: the deletion is committed on its own.
DeleteChunks_Commits(p) ==
    /\ pc[p] = "clearing"
    /\ ~Locked(saw[p], p)
    /\ chunks' = chunks \ saw[p]
    /\ Goto(p, "batch")
    /\ UNCHANGED <<loaded, saw, mine>> /\ RunFrame

\* The DELETE has waited for the rows it saw and holds those that are left.
DeleteChunks(p) ==
    /\ pc[p] = "clearing"
    /\ ~Locked(saw[p], p)
    /\ Goto(p, "batch")
    /\ UNCHANGED <<chunks, loaded, saw, mine>> /\ RunFrame

\* One batch: the document is loaded again, and the batch embedded and added
\* with its labels.
Batch(p) ==
    LET n == Cardinality(mine[p]) + 1 IN
    /\ pc[p] = "batch"
    /\ Exists
    /\ loaded' = [loaded EXCEPT ![p] = status]
    /\ mine' = [mine EXCEPT ![p] = @ \cup {[by |-> p, batch |-> n, label |-> label]}]
    /\ Goto(p, IF n = Batches THEN "commit" ELSE "batch")
    /\ UNCHANGED <<chunks, saw>> /\ RunFrame

\* The document was deleted midway: the run stops quietly.
Aborted(p) ==
    /\ pc[p] = "batch"
    /\ ~Exists
    /\ mine' = [mine EXCEPT ![p] = {}]
    /\ Goto(p, "done")
    /\ UNCHANGED <<chunks, loaded, saw>> /\ RunFrame

\* A run of the script ends with its commit, a task with its acknowledgement.
AfterCommit(p) == Goto(p, IF kind[p] = "script" THEN "done" ELSE "acking")

\* Variant of Commit: the rows are inserted without the foreign key.
Commit_NoForeignKey(p) ==
    /\ pc[p] = "commit"
    /\ status' = IF Exists THEN "completed" ELSE status
    /\ chunks' = (chunks \ saw[p]) \cup mine[p]
    /\ mine' = [mine EXCEPT ![p] = {}]
    /\ AfterCommit(p)
    /\ UNCHANGED <<label, stored, kind, want, loaded, saw, redelivered, lost>>

\* Variant of Commit: the last batch is still unflushed.
Commit_WithoutLast(p) ==
    /\ pc[p] = "commit"
    /\ Exists
    /\ status' = "completed"
    /\ chunks' = (chunks \ saw[p]) \cup {c \in mine[p] : c.batch < Batches}
    /\ mine' = [mine EXCEPT ![p] = {}]
    /\ AfterCommit(p)
    /\ UNCHANGED <<label, stored, kind, want, loaded, saw, redelivered, lost>>

\* Variant of Commit: the chunks are added to the old ones.
Commit_Appends(p) ==
    /\ pc[p] = "commit"
    /\ Exists
    /\ status' = "completed"
    /\ chunks' = chunks \cup mine[p]
    /\ mine' = [mine EXCEPT ![p] = {}]
    /\ AfterCommit(p)
    /\ UNCHANGED <<label, stored, kind, want, loaded, saw, redelivered, lost>>

\* Flush and commit.  The status is written only if it is not what was loaded.
Commit(p) ==
    /\ pc[p] = "commit"
    /\ Exists
    /\ status' = IF loaded[p] = "completed" THEN status ELSE "completed"
    /\ chunks' = (chunks \ saw[p]) \cup mine[p]
    /\ mine' = [mine EXCEPT ![p] = {}]
    /\ AfterCommit(p)
    /\ UNCHANGED <<label, stored, kind, want, loaded, saw, redelivered, lost>>

\* Anything a run awaits raises inside it (the file is missing or unreadable, the
\* model fails, the row is gone at the flush): rollback, and the except branches.
Raise(p) ==
    /\ Running(p)
    /\ saw' = [saw EXCEPT ![p] = {}]
    /\ mine' = [mine EXCEPT ![p] = {}]
    /\ Goto(p, IF kind[p] = "script" THEN "done" ELSE "failing")
    /\ UNCHANGED <<chunks, loaded>> /\ RunFrame

\* Variant of MarkFailed: the error handler only logs.
MarkFailed_Logs(p) ==
    /\ pc[p] \in {"failing", "acking"}
    /\ Goto(p, "done")
    /\ UNCHANGED <<docVars, chunks, kind, want, runVars, lost>>

\* _mark_failed, in a session of its own; after a commit too, when the exception
\* comes only then.
MarkFailed(p) ==
    /\ pc[p] \in {"failing", "acking"}
    /\ status' = IF Exists THEN "failed" ELSE status
    /\ Goto(p, "done")
    /\ UNCHANGED <<label, stored, chunks, kind, want, runVars, lost>>

\* The task returns, and its message is acknowledged.
Ack(p) ==
    /\ pc[p] = "acking"
    /\ Goto(p, "done")
    /\ UNCHANGED <<docVars, chunks, kind, want, runVars, lost>>

\* A task ends past its except branches: the soft time limit interrupts the
\* event loop, which cancels the coroutine, or _mark_failed raises too.  Nothing
\* is written, and the message is acknowledged.
Interrupted(p) ==
    /\ kind[p] # "script"
    /\ Running(p) \/ pc[p] = "failing"
    /\ saw' = [saw EXCEPT ![p] = {}]
    /\ mine' = [mine EXCEPT ![p] = {}]
    /\ Goto(p, "done")
    /\ lost' = TRUE
    /\ UNCHANGED <<docVars, chunks, kind, want, loaded, redelivered>>

\* The process is killed.  A worker that is gone leaves its message to be
\* delivered again (bounded: once per job); at the hard time limit the message
\* is acknowledged.
Killed(p) ==
    /\ Running(p) \/ pc[p] = "failing"
    /\ saw' = [saw EXCEPT ![p] = {}]
    /\ mine' = [mine EXCEPT ![p] = {}]
    /\ \/ /\ kind[p] # "script" /\ ~redelivered[p]
          /\ redelivered' = [redelivered EXCEPT ![p] = TRUE]
          /\ Goto(p, "queued")
          /\ UNCHANGED lost
       \/ /\ Goto(p, "done")
          /\ lost' = TRUE
          /\ UNCHANGED redelivered
    /\ UNCHANGED <<docVars, chunks, kind, want, loaded>>

Request(p) ==
    \/ UploadFile(p) \/ UploadRow(p) \/ StartProcessing(p) \/ RemoveFile(p)
    \/ \E l \in Labels \cup {Keep} : GetIdle(p, l)
    \/ Delay(p) \/ DelayFails(p) \/ DeleteRow(p) \/ RequestFails(p) \/ Script(p)
    \/ Redeliver(p)

Run(p) ==
    \/ Load(p) \/ ReadPdf(p) \/ DeleteChunks(p) \/ Batch(p) \/ Aborted(p)
    \/ Commit(p) \/ Raise(p) \/ MarkFailed(p) \/ Ack(p)

Next == \E p \in Jobs : Request(p) \/ Run(p) \/ Interrupted(p) \/ Killed(p)

Spec == Init /\ [][Next]_vars

\* A request that has committed goes on to publish its task or fails to, the
\* worker takes what is queued, and a run goes on until it ends: every call it
\* awaits returns or times out.  That a run is interrupted or killed is not assumed.
FairSpec ==
    /\ Spec
    /\ \A p \in Jobs : WF_vars(Delay(p) \/ DelayFails(p)) /\ WF_vars(Run(p))

-----------------------------------------------------------------------------
(* Properties.                                                             *)

\* Readers see all chunks of a run or none: a document is never searched half
\* indexed.
ChunksWhole ==
    \A p \in Jobs :
        {c \in chunks : c.by = p} # {} =>
            {c.batch : c \in {e \in chunks : e.by = p}} = 1..Batches

\* A run replaces whatever was committed before its DELETE: chunks of two runs
\* stand side by side only if the runs overlapped.
OverlapOnly == \A c, e \in chunks : e \notin saw[c.by]

\* However runs fail, are killed or overlap, a document that was searchable stays
\* searchable until it is deleted.
NeverEmptied == [][chunks # {} /\ chunks' = {} => status' = "gone"]_vars

\* Nothing comes back after a deletion, though runs were on their way.
NothingAfterDeletion == status = "gone" => chunks = {}

\* A document has its file unless somebody has asked for its deletion.
FileBehindDocument ==
    Exists /\ ~stored => \E p \in Jobs : kind[p] = "delete"

\* A document being processed does not stay so, unless a message was lost or a
\* run was killed or interrupted past its except branches.
Settles == (status = "processing" /\ ~lost) ~> (status # "processing" \/ lost)

=============================================================================
