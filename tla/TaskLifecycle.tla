---------------------------- MODULE TaskLifecycle ----------------------------
(***************************************************************************)
(* The life of one analysis task: the requests that create, resume, cancel *)
(* and delete it, the coroutines that execute it, the status in the store, *)
(* the handle the TaskManager keeps, a shutdown and a restart.             *)
(*                                                                         *)
(* All of it runs on one event loop, so an action is what happens between  *)
(* two awaits.  A request that announces something awaits the bus, which   *)
(* suspends when the notifications of the task are backed up: whatever     *)
(* else is enabled may happen first.                                       *)
(*                                                                         *)
(* Abstracted: what an execution does between its claim and its end        *)
(* (AnalysisStages), the requests that are refused and change nothing, and *)
(* the other tasks.                                                        *)
(***************************************************************************)
EXTENDS Naturals

CONSTANTS
    Requests,      \* requests, each used once
    Executions,    \* coroutines of _run_analysis_core, each used once
    NoExecution,   \* the handle of a task that has never been scheduled
    MaxRefused,    \* bound on the writes the store refuses
    MaxRestarts    \* bound on the restarts of the process

ASSUME TaskLifecycleAssumption ==
    /\ NoExecution \notin Executions
    /\ MaxRefused \in Nat
    /\ MaxRestarts \in Nat

VARIABLES
    status,     \* the status in the store; "absent" and "deleted" have no row
    known,      \* the TaskManager holds an entry for the task
    held,       \* the execution that entry points to
    stage,      \* execution -> how far it has come
    stopped,    \* executions whose cancellation has not reached them yet
    at,         \* request -> what it awaits
    target,     \* request -> the execution it waits for
    closing,    \* the process is shutting down
    refused,    \* writes the store has refused
    torn,       \* one of them belonged to an execution of this process
    restarts    \* restarts so far

vars == <<status, known, held, stage, stopped, at, target, closing, refused,
          torn, restarts>>

HasRow == {"pending", "running", "completed", "failed", "cancelled"}
Ends   == {"completed", "failed", "cancelled"}

Stages == {"new",         \* not created
           "scheduled",   \* created, its first step has not run
           "running",     \* it has claimed the task
           "succeeding",  \* "completed" is written, the bus is awaited
           "failing",     \* "failed" is written, the bus is awaited
           "withdrawing", \* "cancelled" is written, the bus is awaited
           "done"}

Waits == {"idle",         \* not made yet
          "scheduling",   \* a pending task is announced, then scheduled
          "telling",      \* the end of a pending task is announced
          "announcing",   \* "cancelling" is announced, then cancels
          "awaiting",     \* a cancelled execution is awaited
          "removing",     \* an execution is awaited, then the row deleted
          "over"}

TypeOK ==
    /\ status \in HasRow \cup {"absent", "deleted"}
    /\ known \in BOOLEAN
    /\ held \in Executions \cup {NoExecution}
    /\ stage \in [Executions -> Stages]
    /\ stopped \subseteq Executions
    /\ at \in [Requests -> Waits]
    /\ target \in [Requests -> Executions \cup {NoExecution}]
    /\ closing \in BOOLEAN
    /\ refused \in 0..MaxRefused
    /\ torn \in BOOLEAN
    /\ restarts \in 0..MaxRestarts

Init ==
    /\ status = "absent"
    /\ known = FALSE
    /\ held = NoExecution
    /\ stage = [e \in Executions |-> "new"]
    /\ stopped = {}
    /\ at = [r \in Requests |-> "idle"]
    /\ target = [r \in Requests |-> NoExecution]
    /\ closing = FALSE
    /\ refused = 0
    /\ torn = FALSE
    /\ restarts = 0

Live(e) == e \in Executions /\ stage[e] \notin {"new", "done"}

\* What the manager's handle gives a request: a task that is not done.
HeldLive == known /\ Live(held)

\* An UPDATE of a run that is not there changes nothing.
Written(s) == IF status \in HasRow THEN s ELSE status

Refuse == /\ refused < MaxRefused
          /\ refused' = refused + 1
          /\ torn' = TRUE

StoreWorks == UNCHANGED <<refused, torn>>

Process == <<closing, restarts>>

-----------------------------------------------------------------------------
(* The executions. *)

Steps(e, from, to) ==
    /\ stage[e] \in from
    /\ stage' = [stage EXCEPT ![e] = to]
    /\ UNCHANGED <<known, held, at, target, Process>>

\* Mutant: the claim does not look at the status.
StartUnclaimed(e) ==
    /\ e \notin stopped
    /\ Steps(e, {"scheduled"}, IF status \in HasRow THEN "running" ELSE "done")
    /\ status' = Written("running")
    /\ StoreWorks
    /\ UNCHANGED stopped

\* The claim: the task is taken only while it is pending.  Without a row the
\* identifier is not found, and the handler of that error fails as well.
Start(e) ==
    /\ e \notin stopped
    /\ Steps(e, {"scheduled"}, IF status = "pending" THEN "running" ELSE "done")
    /\ status' = IF status = "pending" THEN "running" ELSE status
    /\ StoreWorks
    /\ UNCHANGED stopped

\* The claim raises, or it succeeds and the environment cannot be set up:
\* without a session the failure is written by the last resort, which
\* swallows its own failure.
StartFails(e) ==
    /\ e \notin stopped
    /\ Steps(e, {"scheduled"}, "failing")
    /\ status \in HasRow
    /\ \/ /\ status = "pending"
          /\ status' = "failed"
          /\ StoreWorks
       \/ /\ status' = "failed"
          /\ Refuse
       \/ /\ status' \in {status, IF status = "pending" THEN "running" ELSE status}
          /\ Refuse
    /\ UNCHANGED stopped

\* All stages are through, or the hook finds that they were before.
Finish(e) ==
    /\ e \notin stopped
    /\ \/ /\ Steps(e, {"running"}, "succeeding")
          /\ status' = Written("completed")
          /\ StoreWorks
       \/ /\ Steps(e, {"running"}, "failing")
          /\ status' = Written("failed")
          /\ Refuse
    /\ UNCHANGED stopped

\* A stage raises, or the announcement of the success does, which the same
\* handler turns into a failure; a cancellation can be replaced by what the
\* cleaning up of a stage raises.
Fail(e) ==
    /\ stopped' = stopped \ {e}
    /\ \/ /\ Steps(e, {"running", "succeeding"}, "failing")
          /\ status' = Written("failed")
          /\ StoreWorks
       \/ /\ Steps(e, {"running", "succeeding"}, "done")
          /\ Refuse
          /\ UNCHANGED status

\* Mutant: the status is left to the request that cancels.
WithdrawUnwritten(e) ==
    /\ e \in stopped
    /\ stopped' = stopped \ {e}
    /\ Steps(e, {"running", "succeeding"}, "withdrawing")
    /\ StoreWorks
    /\ UNCHANGED status

\* CancelledError inside the body, which is still awaiting the bus after it
\* has written "completed".
Withdraw(e) ==
    /\ e \in stopped
    /\ stopped' = stopped \ {e}
    /\ \/ /\ Steps(e, {"running", "succeeding"}, "withdrawing")
          /\ status' = Written("cancelled")
          /\ StoreWorks
       \/ /\ Steps(e, {"running", "succeeding"}, "done")
          /\ Refuse
          /\ UNCHANGED status

\* The announcement of the end has been delivered.
Ended(e) ==
    /\ e \notin stopped
    /\ Steps(e, {"succeeding", "failing", "withdrawing"}, "done")
    /\ StoreWorks
    /\ UNCHANGED <<status, stopped>>

\* A cancellation outside the body leaves the coroutine at once: before its
\* first step, or in the handler of its end.
CutShort(e) ==
    /\ e \in stopped
    /\ stopped' = stopped \ {e}
    /\ Steps(e, {"scheduled", "failing", "withdrawing"}, "done")
    /\ StoreWorks
    /\ UNCHANGED status

-----------------------------------------------------------------------------
(* The requests. *)

Asks(r, next) ==
    /\ ~closing
    /\ at[r] = "idle"
    /\ at' = [at EXCEPT ![r] = next]
    /\ UNCHANGED Process

Goes(r, from, to) ==
    /\ at[r] = from
    /\ at' = [at EXCEPT ![r] = to]
    /\ UNCHANGED Process

Stop(e) == stopped' = IF Live(e) THEN stopped \cup {e} ELSE stopped

\* create_task_and_start and start_reanalysis.
Create(r) ==
    /\ Asks(r, "scheduling")
    /\ status = "absent"
    /\ status' = "pending"
    /\ known' = TRUE
    /\ StoreWorks
    /\ UNCHANGED <<held, stage, stopped, target>>

\* A new entry of the manager points to no execution.
Resume(r) ==
    /\ Asks(r, "scheduling")
    /\ status \in {"pending", "failed", "cancelled"}
    /\ ~HeldLive
    /\ status' = "pending"
    /\ known' = TRUE
    /\ held' = IF known THEN held ELSE NoExecution
    /\ StoreWorks
    /\ UNCHANGED <<stage, stopped, target>>

\* The handle is stored after the task is created: an entry that has been
\* deleted meanwhile raises, with the coroutine already scheduled.
Schedule(r) ==
    /\ Goes(r, "scheduling", "over")
    /\ \E e \in Executions :
        /\ stage[e] = "new"
        /\ stage' = [stage EXCEPT ![e] = "scheduled"]
        /\ held' = IF known THEN e ELSE held
    /\ StoreWorks
    /\ UNCHANGED <<status, known, stopped, target>>

CancelPending(r) ==
    /\ Asks(r, "telling")
    /\ status = "pending"
    /\ status' = "cancelled"
    /\ IF HeldLive THEN Stop(held) ELSE UNCHANGED stopped
    /\ StoreWorks
    /\ UNCHANGED <<known, held, stage, target>>

CancelRunning(r) ==
    /\ Asks(r, "announcing")
    /\ status = "running"
    /\ HeldLive
    /\ StoreWorks
    /\ UNCHANGED <<status, known, held, stage, stopped, target>>

\* The handle is read again after the announcement.
CancelHeld(r) ==
    /\ Goes(r, "announcing", "awaiting")
    /\ Stop(held)
    /\ target' = [target EXCEPT ![r] = held]
    /\ StoreWorks
    /\ UNCHANGED <<status, known, held, stage>>

\* Mutant: the request waits for the status instead of the execution.
AnsweredByStatus(r) ==
    /\ \/ Goes(r, "telling", "over")
       \/ Goes(r, "awaiting", "over") /\ status = "cancelled"
    /\ StoreWorks
    /\ UNCHANGED <<status, known, held, stage, stopped, target>>

Answered(r) ==
    /\ \/ Goes(r, "telling", "over")
       \/ Goes(r, "awaiting", "over") /\ stage[target[r]] = "done"
    /\ StoreWorks
    /\ UNCHANGED <<status, known, held, stage, stopped, target>>

DeleteRow ==
    /\ status' = "deleted"
    /\ known' = FALSE

Delete(r) ==
    /\ status \in Ends
    /\ \/ /\ HeldLive
          /\ Asks(r, "removing")
          /\ Stop(held)
          /\ target' = [target EXCEPT ![r] = held]
          /\ UNCHANGED <<status, known>>
       \/ /\ ~HeldLive
          /\ Asks(r, "over")
          /\ DeleteRow
          /\ UNCHANGED <<stopped, target>>
    /\ StoreWorks
    /\ UNCHANGED <<held, stage>>

\* The execution has ended within five seconds, and the row goes whatever has
\* become of the task; or it has not, and the request fails.
DeleteWaited(r) ==
    /\ Goes(r, "removing", "over")
    /\ \/ /\ stage[target[r]] = "done"
          /\ DeleteRow
          /\ UNCHANGED stopped
       \/ /\ stage[target[r]] # "done"
          /\ Stop(target[r])
          /\ UNCHANGED <<status, known>>
    /\ StoreWorks
    /\ UNCHANGED <<held, stage, target>>

-----------------------------------------------------------------------------
(* The process. *)

\* Every handle is cancelled and awaited before the process ends.
Shutdown ==
    /\ ~closing
    /\ \A r \in Requests : at[r] \in {"idle", "over"}
    /\ closing' = TRUE
    /\ IF HeldLive THEN Stop(held) ELSE UNCHANGED stopped
    /\ UNCHANGED <<status, known, held, stage, at, target, refused, torn, restarts>>

\* The process ends, at any moment or after a shutdown, and starts again.
\* Before it serves, what was running has failed and what was pending is
\* resumed; when the store refuses that, the process serves all the same.
Restart ==
    /\ restarts < MaxRestarts
    /\ restarts' = restarts + 1
    /\ closing' = FALSE
    /\ stopped' = {}
    /\ at' = [r \in Requests |-> IF at[r] = "idle" THEN "idle" ELSE "over"]
    /\ target' = [r \in Requests |-> NoExecution]
    /\ LET Gone == [e \in Executions |-> IF Live(e) THEN "done" ELSE stage[e]]
       IN  \/ /\ status = "pending"
              /\ \E e \in Executions :
                    /\ stage[e] = "new"
                    /\ stage' = [Gone EXCEPT ![e] = "scheduled"]
                    /\ held' = e
              /\ known' = TRUE
              /\ torn' = FALSE
              /\ UNCHANGED <<status, refused>>
           \/ /\ status # "pending"
              /\ status' = IF status = "running" THEN "failed" ELSE status
              /\ stage' = Gone
              /\ known' = FALSE
              /\ held' = NoExecution
              /\ torn' = FALSE
              /\ UNCHANGED refused
           \/ /\ stage' = Gone
              /\ known' = FALSE
              /\ held' = NoExecution
              /\ Refuse
              /\ UNCHANGED status

-----------------------------------------------------------------------------

Executes(e) ==
    \/ Start(e) \/ StartFails(e) \/ Finish(e) \/ Fail(e)
    \/ Withdraw(e) \/ Ended(e) \/ CutShort(e)

Proceeds(r) ==
    \/ Schedule(r) \/ CancelHeld(r) \/ Answered(r) \/ DeleteWaited(r)

Next ==
    \/ \E e \in Executions : Executes(e)
    \/ \E r \in Requests :
        \/ Create(r) \/ Resume(r) \/ CancelPending(r) \/ CancelRunning(r)
        \/ Delete(r) \/ Proceeds(r)
    \/ Shutdown
    \/ Restart

\* The loop runs every coroutine that is ready, an announcement is delivered,
\* and a stage that is cancelled ends (ChapterWorkers!RunsStop for the one that
\* has something to clean up).  That a stage ends by itself is not assumed: the
\* stages that call models may wait for ever.
Fairness ==
    /\ \A e \in Executions :
        /\ WF_vars(Start(e) \/ StartFails(e))
        /\ WF_vars(e \in stopped /\ (Withdraw(e) \/ Fail(e) \/ CutShort(e)))
        /\ WF_vars(Ended(e))
    /\ \A r \in Requests : WF_vars(Proceeds(r))

Spec == Init /\ [][Next]_vars /\ Fairness

-----------------------------------------------------------------------------
(* Properties.  "torn" excludes what follows when the store has refused a  *)
(* write of an execution: nothing else in this code tells that write again *)
(* before the next restart.                                                *)

Workers == {e \in Executions : stage[e] = "running"}

\* Whatever requests cross each other, at most one execution works on the
\* task.  (_prepare_task_execution_claim, against two resumes that both found
\* no execution)
OneWorker == torn \/ \A e, f \in Workers : e = f

\* A task is "running" exactly as long as an execution works on it: no way out
\* of an execution leaves it running for ever, and no request takes it away,
\* except a deletion.  (_run_analysis_core and its handlers)
RunningHasWorker ==
    torn \/ /\ status = "running" => Workers # {}
            /\ Workers # {} => status \in {"running", "deleted"}

\* Both: who asks the row learns whether somebody works on the task.
RowTellsTruth == OneWorker /\ RunningHasWorker

\* A row that has been deleted never comes back, neither by a resume nor by
\* the late write of an execution.  (update_run_task_fields, resume_task)
DeletedStays == [][status = "deleted" => status' = "deleted"]_vars

\* A request that cancels or deletes a task is answered.
CancelAnswered ==
    \A r \in Requests : at[r] \in {"announcing", "removing"} ~> at[r] = "over"

\* Who cancels the execution that works on the task does not find the task
\* "running" for ever.  It needs the handle of that execution: see the README
\* for the handle that a second resume puts in its place.
\* (cancel_task, _handle_cancelled)
CancelStops ==
    \A r \in Requests :
        (at[r] = "awaiting" /\ target[r] \in Workers) ~> (status # "running" \/ torn)
==============================================================================
