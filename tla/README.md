# Verification of sarpebe

sarpebe writes lesson modules ("modul ajar") for teachers: a FastAPI backend over PostgreSQL,
a Celery worker over Redis that generates modules and ingests curriculum PDFs with the Gemini
API, and a Next.js browser client. This directory holds TLA+ models of the parts that keep
state, TLC instances that check them, and TLAPS proofs. Paths below are relative to
`src/sarpebe-backend/app` unless they start with `src/`.

## Inventory

| Component | State | Operations | What is hard |
|---|---|---|---|
| Lesson plan jobs (`core/services/lesson_plan_service.py`, `tasks/generation_tasks.py`) | the `lesson_plans` row, the Celery message | trigger, enqueue, run, retry, mark failed, edit, delete, report status | late acknowledgement: runs of one plan repeat and overlap; the row is read, then written after minutes |
| Generation quota (`core/services/quota_service.py`) | plans of the last 24 hours, row lock on the profile | ensure_available inside the trigger transaction | two triggers on the last slot; runs that change a plan's status while the quota is counted |
| Sessions and sign-in (`core/services/auth_service.py`) | refresh tokens (family, rotated, revoked, expiry), profile | login, refresh, logout, reset, disable, delete | rotation with a grace window, reuse detection, revocation racing a refresh in flight |
| E-mail tokens (same file, `db/repositories/auth_token_repository.py`) | one-time links, the mail that carries them | register, verify, resend, forgot, reset | single use, only the newest link works, two registrations of one address |
| Rate limits (`core/rate_limit.py`) | Redis counters with a time to live | get_count, increment, reset | increment and expiry are two calls |
| User administration (`core/services/user_service.py`, `api/deps.py`) | role and status of profiles, row locks | change password, delete own account, admin update, admin delete | the last active administrator, decisions on a profile read earlier |
| Curriculum documents (`core/services/curriculum_service.py`, `core/services/ingestion_service.py`, `tasks/curriculum_tasks.py`) | document row, its chunks, the stored file | upload, ingest, reindex, update, delete | long transaction beside short ones, delete during ingestion, lost task |
| Module generation (`core/services/llm_service.py`, `core/services/lesson_plan_checks.py`) | attempts of one run | draft, check, repair, keep the better | which of two answers is saved, what an error in the second does to the first |
| Model client (`core/llm_client.py`) | attempt counter | call with retry, ensure usable | bounds, permanent against transient errors |
| Retrieval (`core/services/rag_service.py`, `core/services/retrieval/`) | none; one retrieval is a sequence of calls and statements | embed, two searches, fusion, floor, rerank, choice of passages | the document is ingested again between the searches; the scores of a model; caps |
| PDF reading and OCR fallback (`utils/pdf_extract.py`, `core/services/ocr_service.py`) | per page its blocks; pages under way | tables, lines, paragraphs; transcribe the pages without text | heuristics that must not lose text; partial failure of concurrent calls |
| Chunking and embedding (`utils/chunking.py`, `core/services/embedding_service.py`) | none (pure); batches of vectors | split, overlap, tables; embed | sizes at the boundary, nothing lost, vectors paired with chunks |
| Export (`utils/modul_pdf.py`, `utils/modul_docx.py`, `utils/pdf_generator.py`) | none | render a stored module to PDF and Word | two renderers written twice, content the owner edited |
| Cost logging, job following, browser session (`core/services/cost_logging.py`, `src/sarpebe-frontend/lib`) | log rows; stream or poll state; token and expiry | log; follow, fall back; refresh | rows that nobody reads, one page, lost answers |

How they interact: the API and the worker share only PostgreSQL (READ COMMITTED, explicit
commits, no autoflush) and the broker. The API commits a row and then publishes a message; the
worker reads the row and commits its progress in short transactions (an ingestion run: in one long one); the API reads the row again
for every status question. Refresh tokens, profiles and counters are shared between concurrent
requests through row locks or single Redis commands.

## How the models are built

Every module takes one database commit, one locking or counting statement, one broker or Redis
command, or one read whose result is used after an `await` as one step, so TLC interleaves
requests, runs and scripts where the code can be interleaved. Three habits of the code shape all
database models:

- PostgreSQL runs READ COMMITTED. `SELECT ... FOR UPDATE` waits for the row and then sees its
  latest version; an `UPDATE` or `DELETE` works on the rows its snapshot selected, waits for those
  that are locked, and looks at them again, but never sees rows inserted meanwhile.
- The session does not flush before a commit and does not expire objects after it. A row loaded at
  the start of a request keeps its values there, even when it is read again with a lock.
- The ORM writes the columns whose value differs from the loaded one; an update of a row that is
  gone raises.

Properties that describe the past use history variables, named so where they are declared. Names of
operators follow the functions of the code; where one function is several steps, the comment says
which part a step is. Operators marked "Variant of ..." are plausible bugs of the definition that
follows; nothing in a specification uses them, and each property is violated by putting one of them
in the place of the original.

## Modules

### LessonPlanJobs

State: the columns of a `lesson_plans` row that matter (`status`, `content`, `meta`, `age`), the
trigger request, and per broker message its place in the broker or in its run (`pc`), its plan and
retry count (`msg`) and the status its run loaded (`seen`).

| Code | Actions |
|---|---|
| `LessonPlanService.trigger_generation` | `TriggerCommit`, `Enqueue`, `EnqueueFails` |
| `update_content`, `delete_plan` | `UpdateContentLoad`, `UpdateContentSave`, `DeletePlan` |
| `_run_generation` | `Skip`, `Load`, `Start`, `Draft`, `Repair`, `Complete`, `StopPermanently`, `Fault` |
| `_fail` | `FailLoad`, `FailCommit` |
| `generate_lesson_plan_task`, Celery | `Deliver`, `Escape`, `PublishRetry`, `Lose`, `Ack`, `WorkerCrash`, `ConnectionLost` |
| `get_job_status` | `Report` with `Stale` |

- `jobs` (`FairSpec`; one plan, three messages, one retry, one redelivery): runs are exclusive
  (`ExclusiveRun`), the task runs at most `MAX_RETRIES + 1` times and once more for each redelivery
  (`AttemptsBounded`), the row precedes its run (`WorkerFindsRow`), a completed plan is whole
  (`CompletedIsWhole`) and is never generated again over its owner's edit (`NeverRegenerated`). The
  exception in four of them, `dup`, is a message redelivered while its run goes on (the worker lost its
  connection to the broker) or after its retry was published (the worker died before acknowledging):
  late acknowledgement cannot exclude two messages then.
  Every triggered job is at last reported completed, failed or gone (`JobsReported`). The only
  fairness is that time passes; workers may be down for ever. It is the stale rule of
  `get_job_status` that makes it true.

`JobContract` is the abstract specification: the life of a job as its followers are told it
(`get_job_status`, by polling or by stream). `Told` maps the state of `LessonPlanJobs` to it, and
`KeepsContract` says that every step is one of the contract's or none: "pending" only once, nothing
after the deletion, and "processing" after "completed" only in the case `dup`. A status may still
fall from "completed" to "failed" (see Known behaviour); that is part of the contract because the
code does it.

Plans share nothing but the pool of messages, so one plan is enough; three messages give the first
attempt, its retry and one more, for an error that would publish it or a redelivery whose run goes on;
one redelivery comes at every point of a run, after the death of its worker or beside it, and with it
both messages of the exception. An exception at or after a commit leaves the row written and goes
through the except branches all the same (`AfterFault`, `AfterEscape`). The clock stops at
`STALE_AFTER + 1`.

### Quota

State: per request its progress, the limit read from the profile it loaded, the count it decided on;
the row lock per user; per plan its status as the quota sees it and whether it is in the 24 hour
window. `LoadUser`, `Unlimited`, `LockUser`, `Pass`, `Refuse` are `ensure_available` and the
dependency before it, `Insert` the rest of the trigger transaction; `PlanFails`, `PlanRunsAgain`,
`DeletePlan`, `LeaveWindow` and `ChangeTier` are what other parts do to the count.

- `quota` (one user, three requests, limit two): of the plans that a check let through, at most the
  limit hold a slot (`QuotaHeld`). A plan that failed and was run again by a redelivered message is not counted as
  let through: nothing checks the quota for it.

Users share no state, and three requests for two places is the smallest case in which a check can
be wrong after it was right.

### Sessions

State: per refresh token `row` (live, rotated, revoked), `family`, `grace`, the row lock; the
account; per request a record of its progress. `Refresh`, `Rotate`, `ReplayInGrace`, `Replay`,
`RejectExpired`, `CheckAccount`, `Issue` are `AuthService.refresh`; `RevokeSelect` and
`RevokeCommit` are the two halves of the `UPDATE` of `revoke_family` and `revoke_all_for_user`.

- `sessions` (two requests at a time, two logins, three tokens): a session has one live token more
  than the replays accepted in the grace window (`ForkOnlyInGrace`); a session revoked with no refresh under way and no grace window open stays
  closed (`ClosedForGood`); nothing is issued by a request during all of which the account was
  disabled (`IssuedWhileActive`).

Requests are reused, so two slots give any number of requests, two at a time. Three tokens are a
login and two renewals, or two logins of which one renews.

### AdminGuard

State: role, status and row lock per account; per request its job, its next statement and the ids
that `lock_active_admin_ids` selects. `Send...` is `get_current_user` with the checks of the route;
`LockTarget`, `SelectAdmins`, `CountAdmins`, `Write` are `admin_update`; `Delete` ends `admin_delete`
and `delete_account`, of which the latter counts first if its actor was loaded as an administrator.

- `admin_guard` (two accounts, three requests, every initial role and status with an active
  administrator): `admin_update` never takes the last active administrator away
  (`UpdateKeepsAnAdmin`), and whoever counted leaves one (`CountedKeepsAnAdmin`).
- `admin_guard_last`: violation of the same promise by the operation that does not count.

Two accounts are enough: with a third active administrator there is nothing to guard. PostgreSQL's
ending of a deadlock is `RollBack`, which may happen to any request at any time.

### Ingestion

State: the document's `status`, `label` (grade and subject), `stored` (the file), the committed
`chunks`; per job its step, what its run loaded, the chunks its `DELETE` saw and those in its
session. `UploadFile`, `UploadRow`, `GetIdle`, `StartProcessing`, `Delay`, `DelayFails`,
`RemoveFile`, `DeleteRow` are `curriculum_service`; `Load`, `ReadPdf`, `DeleteChunks`, `Batch`,
`Aborted`, `Commit`, `Raise`, `MarkFailed`, `Ack`, `Killed` the task and `ingest_document`; `Script` is
`scripts/reindex_documents.py`, which calls the same function whatever the status. A task is
acknowledged when it returns or raises (`task_acks_late`). `Interrupted` is a run that ends past its
except branches: the soft time limit is raised in the event loop, which cancels the coroutine, and
`CancelledError` is no `Exception`; or `_mark_failed` raises too. The document is left as it was and
the message acknowledged. `Redeliver` is a message delivered again while its run goes on or after its
commit; an exception after the commit marks the document failed all the same (`MarkFailed`).

- `ingestion` (`FairSpec`; an upload and two more jobs, two batches): readers see whole runs (`ChunksWhole`); a run
  replaces what it saw (`OverlapOnly`); nothing comes back after a deletion
  (`NothingAfterDeletion`); a searchable document stays searchable until it is deleted
  (`NeverEmptied`); a row has its file until somebody deletes it (`FileBehindDocument`).
  "processing" ends, unless a message was lost or a run killed or interrupted (`Settles`). The fairness
  is that a request which has committed goes on and that every awaited call of a run returns: each has
  a timeout. There is none for `Interrupted` and `Killed`.

Two batches are the least with a state between them; two jobs beside the upload let two runs overlap,
or one run and a deletion, while the upload's own run is still there. Each message is redelivered at
most once by `Killed`, and otherwise as a job of its own. The run takes one label, for no property reads
labels, so that an edit of them is a reindex there; the proofs take any.

### RateLimit

State: per key its count and whether it will expire; per request its next command. `Incr`, `Expire`
and their failing forms are `increment`; `GetCount`, `Verify` and `Reset` the use in `login` and
`reset_password`; `EmailAction` and `Allow` the use in `_email_action_allowed`.

- `rate_limit` (`FairSpec`; four requests, limits of two): e-mail actions stay within the limit
  (`AllowedInWindow`), and a lockout ends unless an increment was cut short (`LockoutEnds`). Fairness: Redis
  expires keys, and a request that has begun goes on. No request is assumed to arrive.

Four requests are one more than it takes to pass a limit of two after an expiry in between.

### EmailTokens

State: per `auth_tokens` row its use, purpose, expiry and row lock, and the mail with its link; the
profile; per request its progress, the rows its `UPDATE` selected. `RegisterLook`, `RegisterCommit`,
`RegisterLost` are `register`; `Ask`, `NotAllowed`, `SelectUnused`, `Issue` are `resend_verification`
and `forgot_password`; `Open`, `VerifyLock`, `VerifyLoad`, `OpenedAgain`, `RefuseUsed`, `VerifyCommit`
are `verify_email`; `ResetLock`, `RefuseReset`, `SelectUnused`, `ResetCommit` are `reset_password`.
`Deliver` sends or loses a mail, `Expire` lets a link expire, `Abort` is a rollback.

- `email_tokens` (one address, two requests, three links): an unverified account has a link
  (`AccountHasLink`); a reset link changes the password once (`ResetOnce`); a link older than the
  request for a new one, or than a reset, does not work again (`NewestWorks`); opening the link that
  verified the address is not refused as used (`DoubleOpen`).

Requests are reused. Two requests and three links are a link and the two that race to replace it.

### ModulGeneration and ModulExport

State: the stage, the calls made for the present answer and for both (`calls`, a history), the first
answer once it needs a repair, and what is saved. An answer is a set of objectives with the sources they cite and whether it has
another hard or soft problem, or it is no module, or the model abstains. `Sanitized`, `Hard`, `Soft`,
`References` are `lesson_plan_checks`; `FirstAnswer`, `RepairAnswer`, `Chosen` are `generate_modul`;
`TransientError`, `OtherError`, `Respond`, `Unusable` are `llm_client`.

`ModulExport` composes it with `Export`: `Return` and `Complete` store what was saved with the other
sections of the module, `UpdateContent` is the owner's edit with the validation of
`schemas/lesson_plan_content.py`, `ExportPdf` and `ExportDocx` read the row once and render it. `Export`
has the two renderers as sequences of entries with their numbers, texts and citations, and the PDF of a
plan in the first format.

- `modul_generation` (two passages, one invented id, modules of at most two objectives, two attempts;
  every optional section present, empty, blank or with an odd character, in turn): what is saved is
  grounded (`SavedIsGrounded`); each of the two answers costs at most `llm_max_attempts` calls, however
  they end (`CallsBounded`); every exported citation has one line among the references, and these are
  cited (`CitationsResolve`); the two exports read alike (`ExportsAgree`); and every text stands once in
  a file that is shown, also after an edit, and no control character makes Word's fail
  (`ExportsWhole`).

The checks look at each objective by itself and at whether all, or none, have a source; two objectives
over two passages give every case. The renderers treat their sections one by one, so sections are
varied one at a time. Widths, page breaks and labels cut off in a narrow cell are left out, but for
what makes a library raise: fpdf2 may for a table row higher than a page, for more columns than leave
room for a character (`MaxColumns`, two here, so that a table of three is one) and for a table without
columns; its core fonts do for a character they lack; python-docx does for U+FFFE and U+FFFF. A plan in
the first format may be replaced by any JSON: its sections are a text, a list, or of a form the PDF
function passes over.

### DocumentReading, PdfReading, Chunking

`PdfReading` is `pdf_extract` and `Chunking` is `utils/chunking`, as functions on texts whose characters
have a kind (what the code looks at) and an origin (where they stood), so that properties can follow
each character. Both are written with `Lists`: sequences that are sorted, filtered, cut and joined.
Loops are functions of the number of turns (`HardSplit`, `SplitOversize`, `SplitTable`,
`ChunkDocument`), one turn being an operator of its own (`CutOff`, `AddUnit`, `AddRow`, `AddBlock`), so
that they can be proved about. `DocumentReading` is the run around them: `Extract`, `AskPage`, `AnswerPage`, `ApplyOcr`,
`ChunkPages`, `EmbedBatch`, `Store`, and `Raise` for what ends it. OCR calls run concurrently, and each
answers, is skipped or raises.

- `document_reading`: every character that could be read is in the text or the heading of a chunk, with
  three exceptions that are exact (`NothingLost`); chunks keep to their limits (`ChunksFit`); an overlap
  is the end of the chunk before (`OverlapLinks`); heading and pages are those of the text (`WellCited`);
  a page is warned about if it still has no text (`WarningsTrue`); every chunk has its own vector
  (`VectorsPaired`).
- `document_reading_table`: violation, see Findings.

The documents are families: every text of ten characters over three kinds, and of eight over four,
without a layout; every sequence of five paragraphs of four kinds on two pages; every table of three
rows by two columns with missing and empty cells and a word above, below or inside it; four pages with text,
blanks or nothing, which OCR may read; tables around the limit. Limits are small (6 characters, overlap
2, tables 34) so that every limit is reached from both sides. `ocr_enabled = False` is the same as
an OCR limit of no pages. `_outside` asks of each character where it lies; the model asks it of a word,
so no box cuts through one. `CleanCell` strips a cell; what the code does to blanks within it and to "|"
changes no character that is kept.

### Retrieval

State: the rows of the document, which may be ingested again or deleted between the two searches (and an
ingestion that overlaps another leaves the rows of both, as in `Ingestion`); the hits of both, the shortlist, the scores, the passages. `Embed`, `SearchVector`, `SearchKeyword`, `Fuse`,
`Rerank`, `RerankFails`, `Choose` are the steps of `retrieve_context`, `Fail` an error of a call that
ends it. Rankings are lists sorted by an order (`Lists`).

- `retrieval` (three texts of lengths 2, 3 and 6 around a cap of 5, two ingestions, a shortlist of
  three of which two are taken, two hits of each search, answers of up to two items): passages fit the prompt and are left
  out only for a reason (`PassagesFit`); none stands before a better one (`BestFirst`); a refusal means
  that nothing near was found or the model rated all of it irrelevant (`HonestRefusal`); no text is
  given twice, unless it was stored anew between the searches or stands in two rows because two
  ingestions overlapped (`NoTwins`).

Three texts are one more than are taken. Texts are symmetric: nothing tells them apart but what the
initial state gives them.

## Findings

Each is a run that TLC ends with a counterexample; `PROJECT.json` quotes the sentence it refutes.

| Run | What the code does |
|---|---|
| `admin_guard_last` | two administrators who delete each other leave none (`core/services/user_service.py:125`) |
| `document_reading_table` | a table over the limit of one or two lines has no rows to split by and is dropped (`utils/chunking.py:138`) |

## Known behaviour

Eight things the models show that the documentation does not say, or says otherwise; the properties are
stated so as to allow them:

- `_fail` marks a completed plan failed, when its message is redelivered and loading the row faults on
  the last attempt (`tasks/generation_tasks.py:77` against `:101`): `JobContract` lets a job fail after it
  was completed.
- A token inserted by a refresh in flight survives a logout or a password reset
  (`db/repositories/refresh_token_repository.py:29`): `ClosedForGood` asks that no refresh is under way.
- Two ingestion runs that overlap leave the chunks of both
  (`db/repositories/curriculum_document_repository.py:26`): `OverlapOnly`.
- A repair discards a usable first answer when its call fails, when its response is blocked or cut off
  (`ensure_usable` raises inside it, `core/services/llm_service.py:142`) and when it abstains (`:156`). Only
  an invalid module or one with hard problems is passed over for the first, though the comment at `:151`
  says that a repair that made things worse must not discard it and `docs/ai-pipeline.md:87` that the
  first is kept. No property is stated of it; the model does as the code does (`Chosen`, `Unusable`,
  `TransientError`, `OtherError` in the stage "repair").
- An export of a module may fail. Cells and columns are unbounded (`schemas/lesson_plan_content.py:30`), and
  nothing catches what fpdf2 raises for a table that does not fit (`utils/modul_pdf.py:99`); `_clean`
  (`utils/modul_docx.py:34`) leaves U+FFFE and U+FFFF, which Word's XML excludes too.
- Words in the area of a table that has a text are left out whether or not one of its cells holds them
  (`utils/pdf_extract.py:180`, `:202`): `NothingLost` excepts them as `Framed`.
- A heading under which no text comes is in no chunk: one that another as important follows, one at the
  end, and one that two lower headings part from its text, since a chunk names the last two only
  (`utils/chunking.py:190`, `:215`). A short list item that begins with a number counts as a heading
  (`:25`, `:69`), so of consecutive ones only the last is found again: `NothingLost` excepts them as `Bare`.

Where a passing property carries an exception, the exception is what the code does not promise:

- `NeverRegenerated`, `ExclusiveRun`, `AttemptsBounded`, `CompletedIsWhole`: a worker that loses its
  connection goes on beside the redelivered message, and one that dies between publishing a retry and
  acknowledging leaves two messages.
- `JobsReported` speaks of what is reported: a plan reported failed because it is stale keeps its row,
  and its slot of the quota, as it was.
- `QuotaHeld` speaks of the plans there are: deleting one frees its slot
  (`docs/configuration.md:59` speaks of modules started).
- `ClosedForGood`: a token rotated within the grace window is still exchanged after the session was
  revoked.
- `CountedKeepsAnAdmin`: `delete_account` counts only if its actor was an administrator when the
  request began.
- `NewestWorks`: two requests for a link that overlap do not see each other's link, and both work.
- `WarningsTrue`: a page whose characters are all blank was never warned about.
- `NothingLost`: except the tables of the finding above, and the words and headings just named.
- `NoTwins`: a text stored anew between the searches has two rows, and so has one that two overlapping
  ingestions stored; both may be given. Two documents with the same text are two texts here.
- `ExportsWhole` speaks of the files that are shown: a PDF may fail for a table that does not fit or, in
  the first format, for a character the core fonts lack, and Word for a noncharacter.
- `Settles`, `LockoutEnds`, `CountersEnd`: a task that was never published, was killed or was
  interrupted past its except branches (`tasks/curriculum_tasks.py:46`) leaves its document "processing"; a counter whose `EXPIRE` did not happen never ends.
- No property says that chunks carry the present labels of their document: a run that overlaps an
  edit leaves some under the former ones.

## Proofs

`tlapm` proves the following for all values of the constants that satisfy the named assumptions.
In each module an invariant (`IInv`, or one named for its part of the module) is shown to hold
initially and to be kept by every step, and the theorems follow from it.

| Module | Theorems | What makes the invariant inductive |
|---|---|---|
| `LessonPlanJobs_proofs` | `TypeCorrect`, `RunsAreExclusive`, `RowPrecedesRun`, `CompletedStaysGenerated`, `CompletedPlansAreWhole`, `AttemptsAreBounded`, `ImplementsContract` | messages come only from an answered request, whose row was committed (`Published`); a run that raises has a retry left (`RetryAllowed`); nobody works on a completed plan (`CompletedIsIdle`); a run that found its plan failed finds it unchanged (`MarkingKnown`); the runs so far are no more than the retries and redeliveries of the pending message, and the run that has it (`Counted`) |
| `Limits_proofs`, over `Quota` | `TypeCorrect`, `QuotaIsHeld`, `LockIsHeldInside` | who passed the check still has a slot, because while it holds the lock the plans charged to its user can only become fewer (`SlotKept`) |
| `Limits_proofs`, over `RateLimit` | `LimitTypeCorrect`, `CountersEnd`, `LimitIsHeld` | allowed actions are no more than the counter has reached (`AllowedCounted`) |
| `Sessions_proofs` | `TypeCorrect`, `OneChain`, `RevokedStays`, `ClosedStaysClosed`, `DisabledGetsNothing` | a request that is to mark a token rotated holds its row, and the row is live (`RotationLocked`); a closed session is quiet (`ClosedQuiet`) |
| `Accounts_proofs`, over `AdminGuard` | `GuardTypeCorrect`, `UpdateIsGuarded`, `CountIsGuarded` | who counted holds the row of an active administrator that is not its target (`Witness`), and a lock protects its row (`Undisturbed`) |
| `Accounts_proofs`, over `EmailTokens` | `TypeCorrect`, `UnverifiedHasLink`, `ResetsOnce`, `OnlyNewestWorks`, `OpensTwice` | who has read a token holds its row (`Holder`); a link that a request is to replace is among the rows it selected, or spent (`Selected`) |
| `Documents_proofs`, over `Ingestion` | `TypeCorrect`, `RunsAreAtomic`, `RunsReplace`, `DeletionIsFinal`, `FileIsThere`, `StaysSearchable` | a job inserts once, when it ends, so a snapshot that has one chunk of a job has all of them (`SawWhole`) |
| `Documents_proofs`, over `Retrieval` | `PassagesAlwaysFit`, `BestAlwaysFirst`, `RefusalsAreHonest`, `NeverTwins` | the hits are rankings of rows, and of one ingestion unless two were met (`FoundTogether`); the shortlist shows the best near rows of the two rankings, each once (`Shown`); passages are what the choice takes from it, and there are none for a reason (`EndTells`) |
| `DocumentReading_proofs` | `ReadingIsTyped`, `ChunksAlwaysFit`, `VectorsArePaired`, `WarningsAreTrue`, `NothingIsLost` | pages hold blocks and pending answers are those of selected pages (`Read`); the rows so far are those of the first chunks, in order, and every chunk fits (`Written`); after the extraction the pages warned about are those without text (`Told`); a page's blocks hold what is printed on it, but for the words left out of a table's area, and what OCR read, and the chunks are those of the blocks (`Held`) |
| `ModulExport_proofs`, over `ModulGeneration` | `TypeCorrect`, `CitationsAreReal`, `SavedModulesAreGrounded`, `CallsAreBounded` | a first answer that waits for its repair was cleaned before (`FirstIsClean`); the calls for the repair come on top of at most `llm_max_attempts` (`CallsCounted`) |
| `ModulExport_proofs`, over the composition | `ExportsAlwaysAgree`, `CitationsAlwaysResolve`, `ExportsAreWhole`, `ExportedModulesAreGrounded`, `ExportedCallsAreBounded` | what is stored is a module whose reference list is what it cites until its owner edits it, and an edit is an answer the schemas accept (`ExportIInv`); the texts of what is stored keep telling where they stand (`PlacesAreKept`) |

`ImplementsContract` is the refinement: initial states map to initial states of `JobContract`, and every
step of `LessonPlanJobs` to one of its steps or none. `CountersEnd` is the safety half of `LockoutEnds`.

The theorems about the exports compare the two renderers part by part (`Alike`): a part of the PDF and
the same part of the Word file are empty together, and otherwise have the same entries with the same
numbers, texts and citations. Sections, numbers and the list of references are put together from such
parts in the same way, so the files agree. Each entry also carries that its citations are among those of
the objectives, that they stand by a text, and that the Word file has no control character; from these
follow that every citation has its line (`CitationsAlwaysResolve`) and that Word's export fails for
noncharacters only, a part of `ExportsAreWhole`.

`ExportsAreWhole` names every text by its place in the module: the part, the meeting, the row and the
column. For each part of the PDF a lemma says which texts it shows, that none of them stands in it
twice, and of which places they are (`Shows`); parts of different places are then put together
(`JoinShows`, `FlattenShows`). The topic and the learning model stand in two places and the code's own
column names in several (`Shared`): of these nothing is claimed but that they do not count for others.
A title that is blank falls back on the topic, a blank duration is left out. The Word file reads alike,
and so shows the same texts in the same places (`SameSpots`).

The theorems about a PDF follow its text through every loop. A hard split shortens what is left in each
turn; a unit leaves room for the overlap and the space before it, so pieces fit; the length that
`chunk_document` counts is that of the chunk with one empty line more (`Pending`), so the comparison it
makes with it bounds the chunk, also when an introduction keeps its successor; a table that was cut has
lines that are again those of its parts. The vectors of a batch are in the order of their chunks, and
an answer of the wrong length is asked for again text by text, so the n-th row has the n-th vector. A
page that had text still has a block with text after stripping, splitting into paragraphs and
joining lines, which is why the warnings are true. `NothingIsLost` follows every character: for each
function, from the cleaning of a cell to the flush of what is pending, a lemma says that what it returns
holds the ink it was given, and each loop keeps the ink of what it has built and of what it has left
(`CutInks`, `SplitInks`, `RowInks`, `StateInks`). Whether OCR may replace the blocks of a page is part of
the argument: the pages it is asked for have blocks without ink. A heading is not in the text of a chunk,
so it needs an argument of its own: the path that the loop keeps lists the headings that stand, each more
important than those after it (`PathListsStanding`), its last two are those over the next block of text
(`HeadsAreCurrent`), and a block with ink leaves a chunk that carries them (`ChunkDocumentCarries`).

Loops of the code are written as functions on 0..n or as folds. What they compute for every input is
proved by induction on the natural numbers, from the library's theorems on well-founded relations:
`ListLemmas` has that induction (`CountingUp`), the value of such a loop (`LoopsCompute`), and what
`FlattenSeq` and the operators of `Lists` return.

The assumptions are named where the constants are declared: sets of requests, calls or passages are
finite where they are counted, bounds are natural numbers, special values are none of the others. These
say more:

- `AnswersAssumption`, and with it the first part of `ShapesAssumption`: what the model answers is a module only if the schemas of
  `schemas/lesson_plan_content.py` accept it; what they reject is an unusable answer. An edit is
  validated by the guard of `UpdateContent`.
- `PlacesAssumption`: a text carries its place in the module as its name, which tells equal texts in two
  places apart; it restricts no text. Of a plan in the first format it also says what its PDF function
  tells apart (`OldShape`): a section is a text, a list or of another form, whatever JSON it is.
- `PassagesAssumption`: the passages a module is written from are finite (at most `rag_top_k`).
- `SizesAssumption`: `2 * (OverlapChars + 1) <= MaxChars`, true of the 150 and 1500 characters of
  `utils/chunking.py`. The promise of `split_oversize` that no piece is longer than the limit needs it.
- `DocumentsAssumption`: pages are what pdfplumber and pypdf return (`Page`), the answers of OCR are texts, a
  batch has at least one text.
- `LayoutAssumption`, for `NothingIsLost`: a cell has no text on a page without characters, from which
  pdfplumber would have to take it; `_extract_page` reads no tables there. TLC evaluates the assumption
  on the documents of the run.

Only model-checked: the liveness properties (`JobsReported`, `Settles`, `LockoutEnds`), which need
fairness and `ENABLED`; and `OverlapLinks` and `WellCited`, which compare the order of characters across
chunks and would need each lemma about them again for their order, in documents whose characters are
all different.

## Not modelled

Cost rows are written and never read by the service; that writing one may raise, and end the call it
belongs to, is in the models of the callers. The hook that follows a job is the state of one open page;
what the server tells it is in `LessonPlanJobs`. The browser session rests on next-auth, which decides
when its callbacks run; the server side of lost answers and concurrent refreshes is in `Sessions`.
Prompts, e-mail texts, the evaluation harness, migrations and the interactive scripts keep no state the
service relies on; the pages of the web interface are presentation. Titles, topics, the wording of errors,
and fonts and widths in an export are left out of the models that carry them. Chunks may keep the former
labels of a document that is edited while a run of it works; the edit starts another run.
`PROJECT.json` lists every component with its reason.

## Plan

Done: `LessonPlanJobs` with `JobContract`, `Quota`, `Sessions`, `AdminGuard`, `Ingestion`, `RateLimit`,
`ModulGeneration`, `EmailTokens`, `Retrieval`, `Export`, `ModulExport`, and `DocumentReading` with
`PdfReading` and `Chunking`, each with its proofs.

Left: proofs of `OverlapLinks` and `WellCited`, and the browser's side
(`BrowserSession` over `Sessions`, `JobFollower` over `Report`).
