# NovelIQ: formal models

NovelIQ analyses novels: a text is cut into chapters, language-model agents
annotate the chapters, later stages derive statistics, topics and a diagnosis.
One analysis takes hours and hundreds of model calls, is watched through a
stream of notifications, and may be cancelled, fail, or be interrupted by a
restart and be resumed.  The back end is one asyncio process over PostgreSQL;
blocking database work runs in threads.  This directory holds TLA+ models of the
parts of the back end where the order of events decides whether an analysis is
correct, the TLC runs that check them, and proofs.

Paths below are relative to `src/src/` of the repository.

## Inventory

| Component | State | Operations | Where it is hard |
|---|---|---|---|
| **Model pool** (`model_pool/capacity.py`, `selection.py`, `contracts.py`) | the process-wide ledger of seats; per run a deque of requests, attempts, back-offs, reservations, published results, a loop | enqueue, elect, publish, feedback, stop, close | the loop is suspended after it took a seat; all runs share the ledger; limits, weights and health change under it; deciding between waiting and giving up |
| **Model health** (`model_pool/health.py`) | turns per model | record a turn, score | scores decide elections and change with time alone |
| **Chapter work queue** (`work/chapter_pool.py`) | tasks in flight, states of works, the failure that ends the run | enqueue, dispatch, reap, requeue, save, stop, close | one task per attempt, one per save, the loop of the pool, cancellation at any await |
| **Annotation agent** (`agents/annotation/`) | executions, contributions per author | execute, save, confirm, abort, cancel, recover, consolidate | what is in memory must match what is committed |
| **Annotation store** (`storage/repositories/annotation_writes.py`, `storage/operations.py`) | one immutable result per work | save, idempotent per execution | an error does not tell whether the commit happened |
| **Case pool** (`case_pool/`, `storage/repositories/case_writes.py`) | cases, claims, submissions and registrations per author; their table | push, claim, submit, snapshot, restore, confirm, abandon, roll back, merge, load, recover | executions of several chapters, and the sessions of the diagnosis, change the same cases; memory and table are written at different times |
| **Diagnosis sessions** (`agents/diagnosis/`) | sessions waiting, assigned, at work, saving; the report | start, assign, retry, save, abort, report, retain pending cases | sessions share seats and cases; a save runs on through a cancellation; the report may start only when nothing is open |
| **Organisation draft** (`event_trees/organization.py`, `storage/repositories/diagnosis_event_writes.py`) | events, containments and relations of all sessions in memory, a cached view of the store | write, contain, relate, retract, save, abort, report, hydrate | one draft for all sessions; each saves and takes back its own share; tools run in threads that outlive their session |
| **Task life cycle** (`workflows/service.py`, `application.py`, `analysis/`, `work/task_manager.py`, `startup_recovery.py`) | status of the task in the store, the handle of its asyncio task | create, resume, cancel, delete, claim, end, shut down, recover | store and handle are changed at different times; requests cross each other |
| **Analysis stages** (`workflows/analysis/`, `preprocess.py`, `annotate.py`, `linguistic.py`, `aggregate.py`, `topic.py`, `diagnose.py`) | what each transaction saved, what an execution skips | the transactions of six stages, the checks of a resume | an execution stops after any transaction and the next one runs under other settings |
| **Notification stream** (`sse/`, `api/routes/sse.py`, `storage/repositories/event_outbox.py`) | a queue and a worker per task, the outbox with sequence numbers, the projection, a bounded queue per connection | accept, save, retry, retire, push, snapshot, replay, watch | a message reaches a browser by a push, a replay or both; queues overflow and are retired |
| **Event bus** (`event_bus/`) | handlers, subscribers, requests under way | handle, request, publish | duplicate and abandoned requests |
| **Audit** (`audit/`) | pending records | record, barrier | the barrier before a save |
| **Fact graph**, **event trees** | contributions per author | contribute, confirm, roll back | as the case pool |
| Storage sessions, text processing, topics, metrics, HTTP, settings, front end | - | - | sequential code, I/O or data |

How they interact.  A request creates a task or resumes it; `_run_analysis_core`
claims the row and runs the stages that are not complete.  `run_annotate` plans
the works of a run and gives them to `ChapterWorkerPool.run`.  That creates one
`ModelElectionPool`, requests a model for each work over the bus, and dispatches
each result as an attempt: a bus request to the agent, then the save.  The agent
works on the case pool, which the save, the confirmation and the roll-back keep in
step with its table.  `run_diagnose` runs sessions on the cases that are left, on
the same ledger of seats, and the report.  All of them notify: a notification is
queued by the `NotificationConsumer`, saved in the outbox and pushed to browsers,
and **suspends its sender** as long as the queue of the task is full.

What makes each component correct:

- pool: the ledger matches what is in use, a retry keeps its turn, and the pool gives
  up only when nothing can change;
- queue: it returns only with everything saved, otherwise raises; no work is
  lost, executed twice at once, or executed after it is saved; each seat is held
  as long as the agent lives, and given back in the end; a run that is cancelled ends;
- agent and store: what memory shows as confirmed is committed, and what is
  withdrawn is not;
- cases: a case is solved once, by the execution that holds it; no execution
  loses a case to the end or failure of another; nothing found is forgotten;
- diagnosis: the report reads saved cases only and is never refused; seats add up;
- organisation: containments are a forest; whatever is not saved belongs to a session
  that will save it or take it back; the report is accepted when the sessions are over;
- task: at most one execution works on it; its row says "running" exactly as long
  as one does; a deleted row stays deleted; requests are answered, and a cancelled
  execution stops;
- stages: whatever the settings and interruptions, what is skipped is complete;
  results are not older than what they are computed from, and expensive work is not
  lost, as long as the settings stay;
- stream: a browser sees every message once and in order.

## Modules

| Module | Models |
|---|---|
| `ModelElection` | the ledger and the pools of any number of runs, with an arbitrary caller |
| `ChapterWorkers` | extends it: the work queue as the caller, its attempts, saves and ways out, the agent and the store as the queue sees them |
| `WorkPromise` | what the queue promises `run_annotate`: each work is saved at most once, before the report; a run returns only with everything saved; one whose clean-up is cancelled is given up, and its attempts may still save |
| `CasePool` | the operations of the case pool and of its table, as operators on records |
| `CaseExecutions` | extends it: executions of the annotation agent at work on the pool, their saves and failures, the consolidation of a chapter, a restart |
| `DiagnosisSessions` | extends `CasePool`: the sessions and the report of a diagnosis |
| `OrganizationDraft` | the draft of events in which the sessions of a diagnosis write, their saves and aborts, the report |
| `TaskLifecycle` | the requests on one task, its executions, its row, shutdown and restart |
| `AnalysisStages` | the transactions of the six stages and the checks of a resume |
| `NotificationStream` | the notifications of one task from their acceptance to the browsers |
| `ModelElectionProofs`, `ChapterWorkersProofs`, `CaseExecutionsProofs`, `DiagnosisSessionsProofs`, `OrganizationDraftProofs`, `TaskLifecycleProofs`, `AnalysisStagesProofs`, `NotificationStreamProofs` | theorems |
| `MC...` | instances for TLC |

One action is what a task does between two awaits at which another task can run,
or one transaction of the store.

**`ModelElection`.** `seats` is `ModelCapacity._entries`, with the slot that
`reserve` picks (`FreeSlot`).  For each run: `pending` is the deque, `attempts`,
`reservations` and `cooling` the fields of its work records (the clock is reduced
to whether `available_at` has passed), `assignments` the published results,
`mpc` where the loop stands, `closed` and `attached` the stop flag and the
handlers on the bus.  An iteration of `run()` is one of `Elect` (followed by
`Publish` when `notify_capacity` suspends), `ElectionFails` (wait, or end with an
error or `ModelElectionExhausted`) and `LoopEnds`.  `Publish` does what the code
does after the await: it uses the head it read before, and drops whatever is at
the head now.  `Enqueue`, `Feedback`, `StopElections` and `Close` are the bus
handlers, `CancelLoop` what the owner does to the loop's task.  `Reconfigure`,
`ScoreDrops`, `ScoreRecovers` and `CoolingEnds` are settings, health and time.
Uuids of reservations become the number of the attempt, which `MaxAttempts` bounds:
a bound of the model, since nothing in the code limits the retries of a work.  The two
readings of the clock in one iteration are two: a back-off may end between them.  Weights and failure
counts only bias the choice among selectable models and are left out, like
`resume_attempt` and `allowed_model_ids`, which no caller sets.

**`ChapterWorkers`.** `qpc` is the main loop of `run()`, `apc[w]` the task of the
attempt of `w` with its `save` task, the other names are the local variables and
attributes of the code.  `AttemptStarts` to `Requeue` are `attempt()` up to the
save, `SaveBegins` to `RecoverRaises` are `_save`, `AfterSave` to `GiveBackEnds`
the rest of the attempt and its `finally`.  `Reap`, `Dispatch`, `AttemptRaised`,
`ModelTaskEnded` and `CancelledInLoop` are what one iteration finds after its
`asyncio.wait`; `TellCancel` to `ClosePool` are the `except` and `finally`
clauses.  `cancelled[r]` tells a cancellation found in the wait of the main loop from
one that lands at another await (`CancelledElsewhere`), of which one may follow the
first; it cuts the clean-up short (`Cut`).  `agent[w]` says whether an execution lives, `memory[w]` what became of
the contributions of the last one, `stored[w]` which attempt is committed.

Constants switch behaviour that depends on the surroundings:

| Constant | TRUE means | In production |
|---|---|---|
| `NotifySuspends` | capacity notifications suspend their sender | yes, with the SSE consumer started |
| `LoopFaults` | an exception from settings or notifications ends the loop | possible |
| `LostReplies` | an error of the store may hide a commit | yes (`storage/errors.py`) |
| `CancelFlag` | `is_cancelled` is given to `run()` | no: the orchestrator passes none, tests do |
| `CancelAnywhere` | a cancellation lands at any await, not only in the main wait, and again in the clean-up after another | yes |

`MCChapterWorkers` has all of them on.  The other runs turn off what their property does
not need: the two violations appear without the rest, and `RunsStop` is checked without
lost replies and crashes of the loop to keep its graph small.  The proofs assume nothing
of them.

`session_factory` (`work/chapter_pool.py:267`) returns the storage of the process
(`storage/service.py:99-106`) and cannot raise; it is not modelled.

**`CasePool`, `CaseExecutions`.** `pool` is the object of `case_pool/__init__.py`
(`known`, `owner`, `submitted`, and per execution `registrations`, `created`,
`saved`), `rows` the table with the `resolver` of each case.  `Pushed`, `Claimed`,
`Submitted`, `Confirmed`, `Abandoned`, `RolledBack`, `Restored`, `Merged`,
`Recovered` and `Committed` are the methods of the same names.  The actions follow
`AnnotationAgent`: a tool call holds the lock of the agent without an await, so
`Call` is one action, and `FailedCall` one that ends in `Restored`; `Complete` is
`freeze`, `Commit` the transaction of `save_annotation` with the cases in it,
`Confirm`, `ConfirmRaises`, `RecoverWork`, `Withdraw` what follows it (a confirmation
that raises may have confirmed the case pool or not, `agent.py:542-552`); a
consolidation holds the lock while a thread works, so it is three actions.
`Crash` forgets the memory, `Recover` loads the table.

**`DiagnosisSessions`.** `stage[s]` is the coroutine `_attempt` of session `s`,
`who[s]` its execution, `free` the seats.  `pending` is the deque of the pool,
`electing` its suspended election, `elected` the sessions for which a seat was taken
and not handed out yet, `closing` that elections and assignments have ended.  `Spawn`
and `ReportBegins` are `_run_work`; `Ask` and `Enqueued` the request for a seat; `Elect`
and `Publish` the two halves of an election, as in `ModelElection`, so that a retry that
comes to the head in between is dropped and the elected session stays queued behind its
seat; `Assign` the task that hands assignments out, `Misdirected` its `ValueError` when
nobody waits for one, which is what becomes of such an entry when it is elected.  `Begin`
to `Confirm` are the attempt with its shielded save, `CommitUnacknowledged` a commit
whose reply is an error, `Cancel` and `StopSession` a cancellation, which a session waits
out while it saves, and which may leave behind a request to the pool that is still
handled (`unread`, `stranded`); `StageFails` the end with `retain_pending_cases`,
`Resume` a later diagnosis.  A session retries as long as the model fails; `Executions`
bounds that in the model only.

**`OrganizationDraft`.** `events`, `edges` and `referred` are the dictionaries
`events`, `containments` and `relations` of `EventOrganizationDraft`, `cache` its
`_stored_view` (`Unread` after `refresh_read_cache`), `session[a]` what became of
execution `a`, `inStore` the rows.  `WriteEvent`, `Contain`, `Relate` and the two
retractions are the operations of `write_event`; each runs under the lock of the
draft.  Evidence and relations are abstracted to the events they refer to, which
is all that the saves check.  `Save` is `save_session_progress` with
`save_case_session_rows`, which stores drafted events of other sessions that its
rows refer to; `SaveUnacknowledged` is a commit whose reply is an error; `Abort` is
`abort_session`.  Synchronous tools run in threads of the executor, and cancelling
the session does not stop the thread: an execution that is `failing` still writes,
until `abandon` takes its cases away and `_resolve_case` refuses it.  `Report` is
`finish` with `save_diagnosis_events`, `Restart` a new draft from
`hydrate_draft_from_run`.

**`TaskLifecycle`.** `status` is the row, `known` and `held` the entry of the
`TaskManager`, `stage[e]` a coroutine `_run_analysis_core`, `at[r]` what a request
awaits.  `Start` is the claim, `Finish`, `Fail`, `Withdraw` the handlers of
`error_handler.py` up to their first await and `Ended` what follows; `CutShort` a
cancellation that lands in that await.  `Fail` also follows an announcement of the
success that raises, and writes "failed" over "completed".  `StartFails` and `Refuse` are writes the
store refuses.

**`AnalysisStages`.** `saved` is the set of results in the store, `annotated` and
`analysed` the chapters and batches that carry their marks, `skip` what
`check_stage_completion_status` decided when the execution began, or, in the first
execution of a reanalysis that forces some stages, the others (`Begin`).  Each action is
one transaction, with the rows a deletion takes along.  A chapter is annotated with or
without events (`eventful`): an event forbids the deletion of its annotation, and with
it of any chapter (`ChaptersKept`); annotations without events go with their chapters
(`InsertChapters`).  Two variables are history and not code: `steady` (every execution
had all stages and the same settings) and `stale` (the statistics or the report are
older than something they are computed from).

**`NotificationStream`.** `queue` and `worker` are the entries of one task in the
consumer, `stored` its outbox, `cursor` the projection, `pushed[c]` the bounded
queue of a connection, `phase[c]` its generator, `got[c]` what it was sent.  A
message sent is saved, projected and pushed under one lock (`Send`); `SendFails`
is an error of the store before or after the commit, after which the same message
is tried again; `Expire` and `Expired` are the 60 idle seconds and what is lost
when a message arrives between the pop of the queue and the end of the worker.


## Runs

Each run is a finite instance; every property of a run that passes is violated by
at least one plausible bug put into the model (`mutants` in `PROJECT.json`).

| Run | Instance | Shows |
|---|---|---|
| `MCModelElection` | two runs; works w1, w2 of r1, w3 of r2, which names its model; two models; edits that raise a limit, lower it under the seats taken, and unlist w3's model; suspension, a crash of a loop, back-offs that end at any moment | the ledger stays exact, positions are distinct, retries go first, a pool gives up only by the clock |
| `MCChapterWorkers` | one run, two works, two seats, two attempts each, every switch on: suspension, hidden commits, a crash of the election loop, the cancel flag, a cancellation anywhere and a second one; every outcome of execution, save, confirmation and recovery | works, seats, agents, memory and store agree; a return means everything is saved; a work is lost in one way only; the queue implements `WorkPromise` |
| `MCChapterWorkersLive` | one run, two works, two seats; suspension, so that works may be lost, and cancellations anywhere | a run that is cancelled or failing ends |
| `MCChapterWorkersLost` | two works, two seats, with suspension | violation: a retry is lost (below) |
| `MCChapterWorkersHidden` | two works on one seat, with lost replies | violation: a stored work is withdrawn (below) |
| `MCCaseExecutions` | three executions, two cases, one of them found by a consolidation; one restart | cases are solved once; failures and roll-backs touch nobody else's cases |
| `MCDiagnosisSessions` | three executions, two cases, two sessions and the report on two seats, one resumed diagnosis | the report reads saved cases and is never refused; cases of failed sessions survive; seats add up, with lost retries and what they leave in the queue |
| `MCOrganizationDraft` | two executions with one event each, beside two stored events of which one contains the other; one restart | the containments are a forest, unsaved rows have an author, the report is accepted |
| `MCTaskLifecycle` | three requests, three executions, one refused write, one restart | one execution at most, and the row tells whether there is one; a cancellation is answered and the execution stops |
| `MCAnalysisStages` | two chapters, three batches, all settings, four executions, the first of them possibly narrowed | what a completed task claims is there; results are current while the settings stay; annotated chapters are kept while the settings stay or any event is stored |
| `MCAnalysisStagesWhole` | two executions under one setting | violation: a language stage skipped half done (below) |
| `MCNotificationStream` | one client, queue of one, pages of one, four messages, two capacities, one failure of the store, one restart | the stream of a client has no gap and no repetition, capacity reaches who watches, everything is shown |

Bounds and why they are enough.

- Two works are the fewest with which a retry overtakes a queue or two works share
  a seat; two models the fewest with a choice; two runs the fewest that share the
  ledger.  `MaxAttempts` = 2 gives feedback that is stale and a position reused
  beside a taken one.  In `MCModelElection` the constraint `FewFaults` follows two
  attempts in all, one published result not yet taken (nothing in the pool reads
  them), one model with a low score and one dead loop at a time.
  `OneDisturbance` follows, in `MCChapterWorkers`, a low score, a dead loop and a
  cancellation one at a time; `FewRetries`, in `MCChapterWorkersLive`, three attempts in
  all, enough to lose a retry and to execute again what was elected in its place, and no
  low score.  Neither the violations nor the proofs need such limits.
  Several runs are explored in `MCModelElection` and not with the queue: `QueueUsesPool` proves that
  the queue calls the pool only in ways `PoolSpec` has, for any number of runs.
- Three executions are the fewest with which one fails while a second claims what
  it gave back and a third still holds another case; a second case keeps a claim
  apart from a submission.  `CrashesThatCount` does not follow a restart with an
  empty table, which leads to a new process; `OneFailsAtATime` one execution at a time
  whose failed save or confirmation is not dealt with yet.
- Three requests let two that passed their check before either acted be crossed by
  a third.
- Three batches put one between the first and the last; four executions let a narrowed
  first one be followed by settings that change there and back.  Chapters are symmetric.
- A queue and a page of one make overflow and paging happen at every message; four
  messages make both happen twice.
- Two sessions on two seats are the fewest with which one comes to the head of the
  queue while the election of the other is suspended; three executions let one of them
  retry.  `ResumesThatCount` does not follow a diagnosis that begins again with no case
  solved, which is one that begins.  Two drafting sessions are the fewest of which one uses what the other takes back.
  `Related` lets relations join a stored event with a new one, the only kind whose
  end may vanish.

`CHECK_DEADLOCK FALSE` is set where the system may really stop: a run, task or
client that is over, a pool nobody calls, a report that is stored.  The run of
the diagnosis checks deadlock: until it is over something can always be done.

`SYMMETRY` is used only with invariants and action properties, never with a
property about what eventually happens.

## Fairness

- `ChapterWorkers` (`FairSpec`, for `RunsStop`): weak fairness of the main loop and of
  the attempts, since asyncio runs a ready task; of the wake-up of a main loop that was
  cancelled; and, in the steps of an attempt, that an execution that is told to stop and
  an operation of the store come to an end, which their time limits give.  Nothing is
  assumed of the pool, back-offs, scores, faults or cancellations.  That a run ends by
  itself is not claimed, and would be false: retries have no limit, and a lost retry is
  waited for.
- `TaskLifecycle`: weak fairness of the first step of an execution, of what a
  **cancelled** stage does next, of the last announcement, and of each request under
  way.  A stage need not end by itself.  That a cancelled one ends is `RunsStop` for the
  stage with something to clean up.  Nobody has to make a request, shut down or refuse a
  write.
- `NotificationStream`: weak fairness of the worker, of the sending of capacities
  and of each open connection.  The failures of the store are bounded
  (`MaxTroubles`): a database that never answers shows nothing to anybody.
- `DiagnosisSessions`: none; no liveness is claimed.  A session whose retry was lost is
  waited for until the diagnosis is cancelled.
- The other modules assume none.

## Where code and documentation differ

1. **A retry is lost** (`MCChapterWorkersLost`).  `model_pool/capacity.py:228-236`
   takes a seat for the head of `pending`, awaits `notify_capacity()`, then calls
   `pending.popleft()`.  A retry put at the head meanwhile is dropped instead.  The
   retried work is in no queue any more, so the run cannot return, and the elected
   one, still queued, is executed once more after it was saved.
   `work/chapter_pool.py:109` relies on the retry being kept.  `LostOnlyToRetry` says that
   works are lost in no other way.  The diagnosis shares this queue: a retried session is
   dropped like a work, and the entry left behind, when it is elected later, finds no
   receiver and fails the stage (`agents/diagnosis/work_runtime.py:118-122`).
2. **A stored work is withdrawn** (`MCChapterWorkersHidden`).  `work/chapter_pool.py:280`
   sends `agent.abort` after an error of the store that is no transport error.  A
   connection that breaks in the commit (`storage/operations.py:43`) gives such an error,
   and the work may be stored.  The docstring of `abort` (`agents/annotation/agent.py:593`)
   expects the queue to have verified that it is not, and `storage/errors.py:29` says
   that this error is no reason to skip the check.  What memory and store look like after
   the run is over is otherwise as `MemoryMatchesStore` says.
3. **A stage is skipped half done** (`MCAnalysisStagesWhole`).
   `linguistic/completion.py` reads the marks of the batches only.  Negation
   corrections, corrected curves, boundary scores and word vectors are saved after
   the last batch; an execution stopped in between resumes with the stage skipped
   and completes without them.  `aggregate` has then also computed the global
   statistics over the uncorrected numbers.

## What the code does otherwise

Statements one might expect that the code does not keep.  They follow from the
models but no run is spent on them.

- **Pool and queue.**  Feedback frees the reservation before it awaits the
  notification, so a work may be elected before its old attempt has left, and its
  dispatch raises.  A back-off that ends between two readings of the clock in one
  iteration makes the loop raise `ModelElectionExhausted` (`GivesUpOnlyByTheClock` says
  that nothing else does).  A cancellation in the first await of the `finally` clause
  skips `models.close()`, and the seats stay taken; a clause earlier, it closes the pool
  under agents that still work; while the run enqueues, it leaves the handlers on the
  bus.  `SeatsSound`, `CleanEnds` and `MemoryMatchesStore` except the run whose clean-up
  was cut (`Cut`), and no other.
- **Task.**  A task that has written "completed" and awaits its last notification is
  turned into a cancelled one by a cancellation (`workflows/application.py:37-38`).
  A deletion takes the row away under an execution that works on.  Of two resumes
  that cross, the second overwrites the handle of the first, and for a moment the
  manager does not hold the execution that works: who cancels then stops the wrong one,
  and the task stays "running" (`CancelStops` speaks of the execution that works).  If
  the announcement of a success raises, "failed" is written over "completed".  A write refused at the end of an
  execution leaves the row "running" until the next restart.
- **Stages.**  A task that a reanalysis made is an empty run; if only some stages are
  forced, the others are left out without a look at the store, so with
  `force_topic_model` alone nothing is saved and the task is "completed"
  (`workflows/service.py:81-88`, `workflows/topic.py:79-82`).  `CompletedIsCovered`
  excepts a task completed in that execution; a resume runs all stages.
  When settings change between two executions, an earlier stage may run again behind
  statistics and a report that exist and are therefore skipped
  (`metrics/queries/completion.py`): `ResultsAreCurrent` holds for a task that is
  `steady`.  And preprocessing that starts over under new settings deletes annotated
  chapters, if no annotation of the run has an event (`models/work.py:57-62`,
  `chapter_repository.py:27`).
- **Diagnosis.**  A session cancelled while its request to the pool is under way is
  elected and never looks at its assignment: the seat comes back when the pool is closed.
  A second cancellation in the `except` clause of an attempt skips
  `abort_session` (`agents/diagnosis/work_runtime.py:266`).
- **Organisation draft.**  A session may relate an event that another session has
  only drafted.  If the other takes its event back first (a failure, a retry), the
  save of the first is refused (`diagnosis_event_writes.py:118`) and the session can
  only fail with it, though the comment at line 100 speaks of the reference making
  the event firm.  After a lost reply an equal containment by another session is
  accepted in memory and refused at its save, since the stored one has another
  producer, and it cannot be retracted.
- **Notifications.**  A message that arrives between the retirement of an idle queue
  and the end of its worker is lost with the queue (`sse/notification_consumer.py`
  promises order and retries); `EverythingShown` excepts it.  The notifications of a
  deleted task are tried again for ever.  If `connect_snapshot` fails, the
  connection stays among the observers (`api/routes/sse.py:46-47`).

## Proofs

The theorems hold for every value of the constants that satisfies the assumptions
of the module.  Every invariant and action property that a run checks and that
holds is proved.  Type invariants are properties of runs for the queue, the
diagnosis and the notifications only; those of the other modules are proved and not
checked besides.

**`ModelElectionProofs`** (of `PoolSpec`: any runs, works, models, configurations and
bound on the attempts, with or without suspension, crashes of the loop and back-offs
that end within an iteration): `TypeCorrect`, `LedgerAlwaysExact`, `SeatsAlwaysDistinct`
(from `OneSeatPerWorkAlways` and `SlotsAlwaysDistinct`), `RetriesGoFirst` and
`OnlyTheClock`.  `ModelElectionAssumption` is what the code validates: limits are
positive, a model with a weight is listed, each work belongs to one run.
The first inductive invariant, `TypeInv`, adds to the types that the ledger is
finite (a position is chosen by counting it) and that a suspended loop holds a
result and a queue that is not empty.  `FreeSlotIsFree` is the pigeonhole argument
for `reserve`.  The second, `LedgerInv`, carries the ledger.  `LedgerExact` is not
inductive: an election takes a seat before the reservation is recorded, and when it
records it nothing in `LedgerExact` says that the seat is still there.
`NotifyHoldsSeat` does: while the loop is suspended the work has no reservation, so
no feedback removes the seat, and belongs to the suspended run, so no other loop
elects it, which in turn needs `QueueOwned`.
The third, `QueueDistinct` with `TurnInv`, is about the order.  That tried works stand
in front (`TurnsKept`) is not kept by an election that resumes and drops a head that is
not the work it hands out; `TurnHeld` says that such a head has then been tried too.
`OnlyTheClock` shows that the test at the end of an iteration repeats every condition
of the selection except the second reading of the clock, so that a pool gives up only
if nobody holds a seat and a back-off of its head ended in between (`SelectsOrWaits`,
`GivesUpStep`).

**`ChapterWorkersProofs`** (of `Spec`: any runs sharing the ledger, any works, models,
switches and bound on the attempts).  No theorem assumes a switch to be off: they
hold with suspended notifications, hidden commits, crashes and cancellations anywhere.
What a cancellation breaks is excepted run by run (`Cut`), what a lost retry breaks by
`Lost`.  The theorems of the pool are about `PoolSpec`, so the first step is that the
queue is a caller of it (`QueueUsesPool`).  `BasicInv` adds to the invariants of the
pool the numbering of attempts and what a call finds when it is made: an attempt at
work still holds the reservation of its work (`SeatKept`), a retry is asked for only
while an attempt is left (`RetryFits`), a result not yet taken is newer than the
attempts known and the only one of its work (`AssignmentsFresh`).  The layers above it:

- `SaveInv` follows a work from its execution to its committed result (`WorkStands`)
  and a run on its ways out (`WayOut`); the others rest on it.
- `ReturnInv` is the argument for `AllWorksSaved`.  The code compares two numbers, so
  the proof has to show that no success is counted twice: `CountBound` says that the
  count never exceeds the works saved by attempts that were reaped.  A saved work may
  be elected again after a retry was lost; `QueueAccounted` says that such a run has a
  work that waits nowhere and is not saved (`Lost`), with which the count stays short,
  and that otherwise nothing is done twice, which is `WorksAreAccounted`.  So a lost
  retry can keep a run from returning but never makes it return too early.
- `CleanInv`: a run that is not cut has nothing left when the `finally` clause is
  entered.  With `FailedIsIdle` (a pool that failed found no agent at work) it gives
  `RunsEndClean`, `SeatsAreSound` and the refinement `PromiseIsKept`, in which a run
  that was cut is one that was abandoned.
- `WorksAreLostOnlyToRetries`: a work that is neither saved nor at work waits in the
  queue or in a result (`Waits`).  The analysis goes through every step that could end
  this and leaves one, the drop of a head for another work (`Strayed`); that this head
  was tried before is `TurnInv`.  `EnqueuedInv` covers the start of the run.
- `PendingInv` and `ConfirmedInv` follow what memory knows of a work; with `CleanInv`
  they give `MemoryMatchesTheStore`.

**`CaseExecutionsProofs`**: `CasesAlwaysSafe`, `FailuresStayLocal`, `OthersKeep`,
`RowsResolveOnce` and their parts.  `CaseInv` adds to the types what the methods of
the pool rely on (an unknown case is free, what is submitted is held, what is held
or created is registered by its holder), what an execution may hold at each of its
stages, and how the table lags behind: a resolver in the table has committed, and
its case is held in memory until that is confirmed.  Lemmas say field by field what
each operation of `CasePool` leaves (`PushedFields` to `RecoveredFields`), and one
lemma per action shows that the invariant survives.

**`TaskLifecycleProofs`**: `RowIsTrue` (from `OneExecutionWorks` and
`RunningMeansWorking`) and `DeletedIsFinal`.  Two resumes that cross leave two
executions scheduled, so the argument cannot be about the handle: `OwnersAgree` is
about the status, which is "running" only while one execution owns it, and an
execution that has written "completed" still owns it, since a cancellation lets it
write once more.

**`AnalysisStagesProofs`**: `CompletedCovered`, `ResultsCurrent`, `ExpensiveKept`.
`StageInv` says that a skipped stage was complete when the execution began
(`SkipSound`) and that whatever stages lie behind the present one are complete now
(`StagesBehind`, `PreprocessBehind`, `MarksBehind`), except in a first execution that
was narrowed by a reanalysis.  `SteadyOrder` adds that, while the executions are alike,
a stage that runs has nothing behind it that a later one has saved: this is why no
earlier result changes under a later one, and why chapters are inserted again only
while none is annotated.  The lemmas about `From` show that the next stage is the first
that is not skipped.

**`OrganizationDraftProofs`**: `AlwaysForest`, `UnsavedIsOwned`, `ReportAlwaysTaken`.
The tools read a cache, so the heart of `OrganizationInv` is `ReadsAreFresh`: rows
are missing from the cache only as long as the draft still shows them.  Saves and
aborts keep it because they drop the cache; a lost reply keeps it because the draft
still holds what was stored.  `OneMoreEdge` shows that the walk `contain` makes
along the parents is enough to keep a forest.  `StoreIsClosed` and `UnsavedHasAuthor`
together leave the report nothing to refuse.  Assumed is only that identities
differ and that the annotation stores a forest (`NotedIsForest`).

**`DiagnosisSessionsProofs`**: `NoSeatIsLost`, `ReportIsAccepted`, `FoundCasesAreKept`,
`CasesStaySafe`, `ReportsReadSavedCases`.  `ControlInv` counts: free seats, elected
sessions and sessions on a seat add up to `Seats`, and no session on a seat is elected,
so that none is seated twice, whatever entries retries leave in the queue.  `QueueInv`
says that a suspended election has its seat and finds an entry to drop.  `CasesInv` relates the pool to the rows of
the store.  Receipts are merged after the transaction that made them, in any order,
so a receipt may be old when it is merged but never wrong (`ReceiptsOld`).  A row
the memory does not know is in a receipt still to come, and a case that is not a row
was registered by an execution that is not saved (`KnownOrArriving`).  What a session
at work has resolved in the store is of its own transaction and held as submitted
(`CommittedHeld`), and all that it contributed is stored (`CommittedStored`), so its
failure takes nothing back that is saved.  When the report begins no session is
left, hence no execution is unsaved, and it owns nothing itself, so that nothing opens
or is unsaved again before its check.

**`NotificationStreamProofs`**: `OutboxIsInOrder`, `NoStreamHasGap`,
`WatchersSeeCapacity`, for any number of connections and messages and queues of any
size.  `OutboxInv` orders the messages from the queue over the outbox to the
projection, with one exception, the message whose write was committed and not
confirmed (`Committed`), which is in both; that a second try of it is recognised is
what keeps the order.  `StreamInv` needs more than that a stream has no gap: what is
left of its page comes next (`PageComesNext`), and what was pushed are the last
positions of the projection, with none missing between them and what was sent
(`PushedIsLatest`).  A connection that falls behind is no longer pushed to, and has
then been told to reconnect (`RegisteredOrDismissed`).  For the capacity the
invariant counts the connections that watch (`ObserversCounted`), since the route is
retired by that count.

Only model-checked: what must eventually happen (`RunsStop`, `CancelAnswered`,
`CancelStops`, `EverythingShown`), which is out of the prover's reach, and the three
violations.  `ControlHolds`, `DomainHolds`, `QueueHolds`, `TurnsHold`, `StagesSound`,
`OrganizationSound` and the statements `...Invariant` are the inductive invariants
themselves.

## Not modelled

- **The dialogue with the models, the tools and what they produce**: the content is
  data.  The models keep what a dialogue may do to shared state.
- **Fact graph, event trees of the annotation**: contributions per author that are
  confirmed or rolled back under a lock, the protocol of the case pool without its
  claims; `CaseExecutions` has the harder case.
- **Plot lines, outcomes and the report's content**: written by the report session
  alone.
- **Audit**: a journal beside the work; its barrier can only delay or refuse a save,
  and the models of its callers allow both.
- **The task table of the event bus**: requests are shielded from their callers in
  `ChapterWorkers`, the subscription appears in `NotificationStream`.
- **The arithmetic of model health**: a score may drop and recovers.
- **Text processing, topics, metrics, embeddings, lexicons**: algorithms over real
  texts and floating-point numbers, without concurrency of their own.
- **SQL**: a transaction is one atomic step of its caller.  HTTP routing, settings
  and their validation, migrations, the front end: input and output.
- **Whole novels**: deletion of a novel with its tasks, uploads and listings.

Most of the repository is of these kinds (user interface, SQL access, migrations,
prompts and tools, numerical code), so the modules cover a small share of its
lines, but they cover the files in which tasks, threads and transactions meet.
