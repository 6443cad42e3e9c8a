--------------------------- MODULE ChapterWorkers ---------------------------
(***************************************************************************)
(* The queue of chapter works (ChapterWorkerPool): for each analysis run a *)
(* main loop, one task per attempt of a work, the save protocol of a       *)
(* completed work, and what the loop does when an attempt fails, the model *)
(* pool ends or the run is cancelled.  The pool it elects models with is   *)
(* the module it extends; the agent that executes a work is modelled here  *)
(* by its outcomes, its cancellation and what becomes of its               *)
(* contributions in memory and in the store.                               *)
(*                                                                         *)
(* One action is what a task does between two awaits that can let another  *)
(* task run.  A bus request is such an await.                              *)
(***************************************************************************)
EXTENDS ModelElection

CONSTANTS
    WorkList,         \* run -> the list of works run() was called with
    LostReplies,      \* an error of the store may hide a commit that happened
    CancelFlag,       \* the caller passes is_cancelled
    CancelAnywhere    \* a cancellation may land outside the loop's wait

ASSUME ChapterWorkersAssumption ==
    /\ WorkList \in [Runs -> Seq(Works)]
    /\ \A r \in Runs : /\ WorksOf(r) = {WorkList[r][i] : i \in 1..Len(WorkList[r])}
                       /\ Cardinality(WorksOf(r)) = Len(WorkList[r])
                       /\ Len(WorkList[r]) > 0
    /\ LostReplies \in BOOLEAN
    /\ CancelFlag \in BOOLEAN
    /\ CancelAnywhere \in BOOLEAN

VARIABLES
    qpc,              \* run -> where the main loop stands
    raising,          \* run -> an exception is on its way out of run()
    enqueued,         \* run -> works enqueued so far, before the loop starts
    succeeded,        \* run -> attempts reaped that returned True
    stopping,         \* run -> no save may begin any more
    model_ended,      \* run -> the loop saw the model task end by itself
    terminal_failure, \* run -> an attempt ended with a terminal outcome
    cancelled,        \* run -> "no", "asked" in the wait of its loop, or "cut":
                      \* a cancellation landed outside that wait
    tocancel,         \* run -> active works not yet told agent.cancel
    states,           \* work -> self.states
    apc,              \* work -> where the attempt task stands
    receipt,          \* work -> attempt number in the payload of the attempt
    outcome,          \* work -> local variable of the attempt
    ending,           \* work -> how the attempt leaves its finally clause
    save_attempt,     \* work -> saves already tried by this attempt
    interrupted,      \* work -> the attempt task itself was cancelled
    agent,            \* work -> the execution of the work in the agent
    memory,           \* work -> the contributions of the last execution
    stored            \* work -> attempt whose save is committed, 0 if none

loopVars == <<qpc, raising, enqueued, succeeded, stopping, model_ended,
              terminal_failure, cancelled, tocancel>>
attemptVars == <<states, apc, receipt, outcome, ending, save_attempt, interrupted>>
agentVars == <<agent, memory, stored>>
queueVars == <<loopVars, attemptVars, agentVars>>
vars == <<poolVars, queueVars>>

-----------------------------------------------------------------------------
(* Program counters *)

Over == {"returned", "raised"}
LoopPcs == {"enqueue", "loop", "stopping", "gather", "finally", "close"} \cup Over

Finished == {"true", "false", "error"}
SavePcs == {"completed", "saving", "aborting", "confirming", "recovering", "saved"}
AttemptPcs == {"none", "created", "executing", "requeue", "on_saved", "feedback",
               "notified"} \cup SavePcs \cup Finished

WorkStates == {"none", "queued", "running", "completed", "saved", "failed",
               "save_unconfirmed"}

Active(r) == {w \in WorksOf(r) : apc[w] # "none"}
Done(r) == {w \in WorksOf(r) : apc[w] \in Finished}
\* Mutant: an attempt to be retried counts as a success.
ReturnedAny(r) == {w \in WorksOf(r) : apc[w] \in {"true", "false"}}

\* Where an attempt has its seat and will give it back.
Holding == {"created", "executing", "requeue", "on_saved", "feedback"} \cup SavePcs

Returned(r) == {w \in WorksOf(r) : apc[w] = "true"}
Unfinished(r) == Active(r) \ Done(r)

IsCancelled(r) == CancelFlag /\ cancelled[r] # "no"

-----------------------------------------------------------------------------
(* Leaving an attempt: the finally clause gives the seat back, unless the  *)
(* model pool ended first.                                                 *)

Leave(w, how) ==
    IF model_ended[RunOf[w]]
    THEN apc' = [apc EXCEPT ![w] = how] /\ UNCHANGED ending
    ELSE /\ apc' = [apc EXCEPT ![w] = "feedback"]
         /\ ending' = [ending EXCEPT ![w] = how]

\* Mutants: the seat of an unconfirmed save is given back; a misspelt state.
LeaveUnconfirmedReleasing(w) ==
    /\ states' = [states EXCEPT ![w] = "save_unconfirmed"]
    /\ Leave(w, "error")
LeaveUnconfirmedMisspelt(w) ==
    /\ states' = [states EXCEPT ![w] = "unconfirmed"]
    /\ apc' = [apc EXCEPT ![w] = "error"]
    /\ UNCHANGED ending

\* WorkSaveUnconfirmed keeps the seat until the run closes its pool.
LeaveUnconfirmed(w) ==
    /\ states' = [states EXCEPT ![w] = "save_unconfirmed"]
    /\ apc' = [apc EXCEPT ![w] = "error"]
    /\ UNCHANGED ending

-----------------------------------------------------------------------------
(* Execution *)

\* agent.execute registers the execution and opens its contributions.
AttemptStarts(w) ==
    /\ apc[w] = "created"
    /\ ~interrupted[w]
    /\ apc' = [apc EXCEPT ![w] = "executing"]
    /\ agent' = [agent EXCEPT ![w] = "running"]
    /\ memory' = [memory EXCEPT ![w] = "pending"]
    /\ UNCHANGED <<poolVars, loopVars, states, receipt, outcome, ending,
                   save_attempt, interrupted, stored>>

\* How an execution ends: a cancelled one only by its cancellation.  Everything
\* but a completed execution takes back what it contributed.
AgentEnds(w, o) ==
    /\ agent[w] # "idle"
    /\ agent[w] = "cancelled" => o = "exception"
    /\ agent' = [agent EXCEPT ![w] = "idle"]
    /\ memory' = [memory EXCEPT ![w] = IF o = "completed" THEN @ ELSE "withdrawn"]
    /\ UNCHANGED stored

\* The model pool has ended: whatever the execution returned is dropped.
ReplyDropped(w) ==
    /\ apc[w] = "executing" /\ ~interrupted[w]
    /\ model_ended[RunOf[w]]
    /\ \E o \in {"completed", "retry", "failed"} : AgentEnds(w, o)
    /\ apc' = [apc EXCEPT ![w] = "false"]
    /\ UNCHANGED <<poolVars, loopVars, states, receipt, outcome, ending,
                   save_attempt, interrupted>>

ExecutionRaises(w) ==
    /\ apc[w] = "executing" /\ ~interrupted[w]
    /\ AgentEnds(w, "exception")
    /\ Leave(w, "error")
    /\ UNCHANGED <<poolVars, loopVars, states, receipt, outcome, save_attempt,
                   interrupted>>

ExecutionCompletes(w) ==
    /\ apc[w] = "executing" /\ ~interrupted[w]
    /\ ~model_ended[RunOf[w]]
    /\ AgentEnds(w, "completed")
    /\ outcome' = [outcome EXCEPT ![w] = "completed"]
    /\ states' = [states EXCEPT ![w] = "completed"]
    /\ apc' = [apc EXCEPT ![w] = "completed"]
    /\ UNCHANGED <<poolVars, loopVars, receipt, ending, save_attempt, interrupted>>

ExecutionRetries(w) ==
    /\ apc[w] = "executing" /\ ~interrupted[w]
    /\ ~model_ended[RunOf[w]]
    /\ attempts[w] < MaxAttempts
    /\ AgentEnds(w, "retry")
    /\ outcome' = [outcome EXCEPT ![w] = "retry"]
    /\ states' = [states EXCEPT ![w] = "queued"]
    /\ apc' = [apc EXCEPT ![w] = "requeue"]
    /\ UNCHANGED <<poolVars, loopVars, receipt, ending, save_attempt, interrupted>>

\* Any other outcome ends the run: the elections stop before the seat is back.
ExecutionFails(w) ==
    LET r == RunOf[w] IN
    /\ apc[w] = "executing" /\ ~interrupted[w]
    /\ ~model_ended[r]
    /\ AgentEnds(w, "failed")
    /\ outcome' = [outcome EXCEPT ![w] = "failed"]
    /\ states' = [states EXCEPT ![w] = "failed"]
    /\ terminal_failure' = [terminal_failure EXCEPT ![r] = TRUE]
    /\ stopping' = [stopping EXCEPT ![r] = TRUE]
    /\ StopElections(r)
    /\ Leave(w, "error")
    /\ UNCHANGED <<qpc, raising, enqueued, succeeded, model_ended, cancelled,
                   tocancel, receipt, save_attempt, interrupted>>

\* The reply of an execution nobody awaits any more.
AgentEndsUnheard(w) ==
    /\ apc[w] # "executing"
    /\ \E o \in {"completed", "retry", "exception"} : AgentEnds(w, o)
    /\ UNCHANGED <<poolVars, loopVars, attemptVars>>

\* Mutant: the attempt ends without returning its work to the queue.
RequeueForgotten(w) ==
    /\ apc[w] = "requeue" /\ ~interrupted[w]
    /\ Leave(w, "false")
    /\ UNCHANGED <<poolVars, loopVars, states, receipt, outcome, save_attempt,
                   interrupted, agentVars>>

\* The retried work returns to the pool before its seat does.
Requeue(w) ==
    /\ apc[w] = "requeue" /\ ~interrupted[w]
    /\ Enqueue(w)
    /\ Leave(w, "false")
    /\ UNCHANGED <<loopVars, states, receipt, outcome, save_attempt, interrupted,
                   agentVars>>

-----------------------------------------------------------------------------
(* Saving a completed work *)

\* First step of _save: a run that is stopping starts no save.
SaveBegins(w) ==
    LET r == RunOf[w] IN
    /\ apc[w] = "completed"
    /\ IF model_ended[r]
       THEN Leave(w, "error")
       ELSE /\ apc' = [apc EXCEPT ![w] = IF stopping[r] \/ IsCancelled(r)
                                         THEN "aborting" ELSE "saving"]
            /\ UNCHANGED ending
    /\ UNCHANGED <<poolVars, loopVars, states, receipt, outcome, save_attempt,
                   interrupted, agentVars>>

\* The store keeps one immutable result per work and returns it to the
\* execution that wrote it.
SaveCommits(w) ==
    /\ apc[w] = "saving"
    /\ stored[w] \in {0, receipt[w]}
    /\ stored' = [stored EXCEPT ![w] = receipt[w]]
    /\ apc' = [apc EXCEPT ![w] = "confirming"]
    /\ UNCHANGED <<poolVars, loopVars, states, receipt, outcome, ending,
                   save_attempt, interrupted, agent, memory>>

\* The save raises: a transport error is tried once more, an error of the
\* rollback leaves the result unknown, any other takes the execution back.
SaveRaises(w, kind) ==
    /\ apc[w] = "saving"
    /\ stored[w] \notin {0, receipt[w]} => kind = "other"
    /\ \/ UNCHANGED stored
       \/ /\ LostReplies /\ stored[w] = 0
          /\ stored' = [stored EXCEPT ![w] = receipt[w]]
    /\ CASE kind = "rollback_failed" ->
              LeaveUnconfirmed(w) /\ UNCHANGED save_attempt
         [] kind = "transport" /\ save_attempt[w] = 0 ->
              /\ save_attempt' = [save_attempt EXCEPT ![w] = 1]
              /\ UNCHANGED <<states, apc, ending>>
         [] OTHER ->
              /\ apc' = [apc EXCEPT ![w] = "aborting"]
              /\ UNCHANGED <<states, ending, save_attempt>>
    /\ UNCHANGED <<poolVars, loopVars, receipt, outcome, interrupted, agent, memory>>

\* Mutant: the contributions stay.
AbortNothing(w) ==
    /\ apc[w] = "aborting"
    /\ Leave(w, "error")
    /\ UNCHANGED <<poolVars, loopVars, states, receipt, outcome, save_attempt,
                   interrupted, agentVars>>

Abort(w) ==
    /\ apc[w] = "aborting"
    /\ memory' = [memory EXCEPT ![w] = "withdrawn"]
    /\ Leave(w, "error")
    /\ UNCHANGED <<poolVars, loopVars, states, receipt, outcome, save_attempt,
                   interrupted, agent, stored>>

\* agent.confirm; it may raise before or after it confirmed the contributions.
Confirm(w) ==
    /\ apc[w] = "confirming"
    /\ memory' = [memory EXCEPT ![w] = "confirmed"]
    /\ apc' = [apc EXCEPT ![w] = "saved"]
    /\ UNCHANGED <<poolVars, loopVars, states, receipt, outcome, ending,
                   save_attempt, interrupted, agent, stored>>

ConfirmRaises(w) ==
    /\ apc[w] = "confirming"
    /\ memory' \in {memory, [memory EXCEPT ![w] = "confirmed"]}
    /\ apc' = [apc EXCEPT ![w] = "recovering"]
    /\ UNCHANGED <<poolVars, loopVars, states, receipt, outcome, ending,
                   save_attempt, interrupted, agent, stored>>

\* agent.recover rebuilds the contributions from the store, then confirms them.
Recover(w) ==
    /\ apc[w] = "recovering"
    /\ memory' = [memory EXCEPT ![w] = "confirmed"]
    /\ apc' = [apc EXCEPT ![w] = "saved"]
    /\ UNCHANGED <<poolVars, loopVars, states, receipt, outcome, ending,
                   save_attempt, interrupted, agent, stored>>

RecoverRaises(w) ==
    /\ apc[w] = "recovering"
    /\ LeaveUnconfirmed(w)
    /\ UNCHANGED <<poolVars, loopVars, receipt, outcome, save_attempt,
                   interrupted, agentVars>>

\* The attempt task resumes after the save task.
AfterSave(w) ==
    /\ apc[w] = "saved"
    /\ CASE interrupted[w] ->
              Leave(w, "error") /\ UNCHANGED <<states, outcome>>
         [] ~interrupted[w] /\ model_ended[RunOf[w]] ->
              Leave(w, "false") /\ UNCHANGED <<states, outcome>>
         [] OTHER ->
              /\ states' = [states EXCEPT ![w] = "saved"]
              /\ outcome' = [outcome EXCEPT ![w] = "saved"]
              /\ apc' = [apc EXCEPT ![w] = "on_saved"]
              /\ UNCHANGED ending
    /\ UNCHANGED <<poolVars, loopVars, receipt, save_attempt, interrupted, agentVars>>

\* The callback of the caller: progress, and consolidation of a whole chapter.
OnSaved(w) ==
    /\ apc[w] = "on_saved" /\ ~interrupted[w]
    /\ \E how \in {"true", "error"} : Leave(w, how)
    /\ UNCHANGED <<poolVars, loopVars, states, receipt, outcome, save_attempt,
                   interrupted, agentVars>>

\* pool.feedback.  Without a notification route the request and the end of the
\* attempt follow each other at once, long before a back-off of a second ends.
GiveBack(w) ==
    /\ apc[w] = "feedback"
    /\ attached[RunOf[w]]
    /\ Feedback(w, receipt[w], outcome[w])
    /\ apc' = [apc EXCEPT ![w] = IF NotifySuspends THEN "notified" ELSE ending[w]]
    /\ UNCHANGED <<loopVars, states, receipt, outcome, ending, save_attempt,
                   interrupted, agentVars>>

GiveBackEnds(w) ==
    /\ apc[w] = "notified"
    /\ apc' = [apc EXCEPT ![w] = ending[w]]
    /\ UNCHANGED <<poolVars, loopVars, states, receipt, outcome, ending,
                   save_attempt, interrupted, agentVars>>

\* Nobody answers a request to a pool that was closed under the attempt.
PoolGone(w) ==
    /\ apc[w] \in {"requeue", "feedback"} /\ ~interrupted[w]
    /\ ~attached[RunOf[w]]
    /\ apc' = [apc EXCEPT ![w] = "error"]
    /\ UNCHANGED <<poolVars, loopVars, states, receipt, outcome, ending,
                   save_attempt, interrupted, agentVars>>

\* The attempt task is cancelled at an await that a save does not shield.
Interrupted(w) ==
    /\ interrupted[w]
    /\ \/ /\ apc[w] = "created"
          /\ apc' = [apc EXCEPT ![w] = "error"]
          /\ UNCHANGED ending
       \/ /\ apc[w] \in {"executing", "requeue", "on_saved"}
          /\ Leave(w, "error")
    /\ UNCHANGED <<poolVars, loopVars, states, receipt, outcome, save_attempt,
                   interrupted, agentVars>>

AttemptStep(w) ==
    \/ AttemptStarts(w) \/ ReplyDropped(w) \/ ExecutionRaises(w)
    \/ ExecutionCompletes(w) \/ ExecutionRetries(w) \/ ExecutionFails(w)
    \/ Requeue(w) \/ SaveBegins(w) \/ SaveCommits(w)
    \/ \E kind \in {"other", "transport", "rollback_failed"} : SaveRaises(w, kind)
    \/ Abort(w) \/ Confirm(w) \/ ConfirmRaises(w) \/ Recover(w) \/ RecoverRaises(w)
    \/ AfterSave(w) \/ OnSaved(w) \/ GiveBack(w) \/ GiveBackEnds(w)
    \/ PoolGone(w) \/ Interrupted(w)

-----------------------------------------------------------------------------
(* The main loop *)

EnqueueNext(r) ==
    /\ qpc[r] = "enqueue"
    /\ enqueued[r] < Len(WorkList[r])
    /\ LET w == WorkList[r][enqueued[r] + 1] IN
       /\ Enqueue(w)
       /\ states' = [states EXCEPT ![w] = "queued"]
    /\ enqueued' = [enqueued EXCEPT ![r] = @ + 1]
    /\ UNCHANGED <<qpc, raising, succeeded, stopping, model_ended,
                   terminal_failure, cancelled, tocancel, apc, receipt, outcome,
                   ending, save_attempt, interrupted, agentVars>>

LoopBegins(r) ==
    /\ qpc[r] = "enqueue"
    /\ enqueued[r] = Len(WorkList[r])
    /\ StartLoop(r)
    /\ qpc' = [qpc EXCEPT ![r] = "loop"]
    /\ UNCHANGED <<raising, enqueued, succeeded, stopping, model_ended,
                   terminal_failure, cancelled, tocancel, attemptVars, agentVars>>

\* The except clause up to its first await; the elections stop with it.
Raise(r, running) ==
    /\ qpc' = [qpc EXCEPT ![r] = "stopping"]
    /\ raising' = [raising EXCEPT ![r] = TRUE]
    /\ stopping' = [stopping EXCEPT ![r] = TRUE]
    /\ tocancel' = [tocancel EXCEPT ![r] = running]

\* The head of the loop: return when enough attempts succeeded, else look at
\* the cancellation, else wait again.
LoopHead(r, count, running) ==
    CASE count >= Len(WorkList[r]) ->
            /\ qpc' = [qpc EXCEPT ![r] = "finally"]
            /\ UNCHANGED <<raising, stopping, tocancel>>
      [] count < Len(WorkList[r]) /\ IsCancelled(r) -> Raise(r, running)
      [] OTHER -> UNCHANGED <<qpc, raising, stopping, tocancel>>

StopsAtHead(r, count) == count < Len(WorkList[r]) /\ IsCancelled(r)

\* An iteration that finds a failed attempt.
AttemptRaised(r) ==
    /\ qpc[r] = "loop"
    /\ \E w \in WorksOf(r) : apc[w] = "error"
    /\ Raise(r, Unfinished(r))
    /\ StopElections(r)
    /\ UNCHANGED <<enqueued, succeeded, model_ended, terminal_failure, cancelled,
                   attemptVars, agentVars>>

\* Mutant: the loop leaves without awaiting the attempts.
ModelTaskEndedAtOnce(r) ==
    /\ qpc[r] = "loop"
    /\ ~LoopAlive(r)
    /\ \A w \in WorksOf(r) : apc[w] # "error"
    /\ IF terminal_failure[r]
       THEN Raise(r, Unfinished(r)) /\ StopElections(r) /\ UNCHANGED model_ended
       ELSE /\ model_ended' = [model_ended EXCEPT ![r] = TRUE]
            /\ raising' = [raising EXCEPT ![r] = TRUE]
            /\ qpc' = [qpc EXCEPT ![r] = "finally"]
            /\ UNCHANGED <<poolVars, stopping, tocancel>>
    /\ UNCHANGED <<enqueued, succeeded, terminal_failure, cancelled, attemptVars,
                   agentVars>>

\* An iteration that finds the model task ended: the failure of a work that
\* stopped it goes first; otherwise nothing more is sent to the agents.
ModelTaskEnded(r) ==
    /\ qpc[r] = "loop"
    /\ ~LoopAlive(r)
    /\ \A w \in WorksOf(r) : apc[w] # "error"
    /\ IF terminal_failure[r]
       THEN Raise(r, Unfinished(r)) /\ StopElections(r) /\ UNCHANGED model_ended
       ELSE /\ model_ended' = [model_ended EXCEPT ![r] = TRUE]
            /\ raising' = [raising EXCEPT ![r] = TRUE]
            /\ qpc' = [qpc EXCEPT ![r] = "gather"]
            /\ UNCHANGED <<poolVars, stopping, tocancel>>
    /\ UNCHANGED <<enqueued, succeeded, terminal_failure, cancelled, attemptVars,
                   agentVars>>

\* An iteration that reaps finished attempts, or only passes the head.
Reap(r) ==
    LET count == succeeded[r] + Cardinality(Returned(r)) IN
    /\ qpc[r] = "loop"
    /\ LoopAlive(r)
    /\ \A w \in WorksOf(r) : apc[w] # "error"
    /\ Done(r) # {} \/ IsCancelled(r)
    /\ succeeded' = [succeeded EXCEPT ![r] = count]
    /\ apc' = [w \in Works |-> IF w \in Done(r) THEN "none" ELSE apc[w]]
    /\ LoopHead(r, count, Unfinished(r))
    /\ IF StopsAtHead(r, count) THEN StopElections(r) ELSE UNCHANGED poolVars
    /\ UNCHANGED <<enqueued, model_ended, terminal_failure, cancelled, states,
                   receipt, outcome, ending, save_attempt, interrupted, agentVars>>

\* An iteration that takes an assignment, after it reaped what it found done.
Dispatch(r) ==
    LET a == Head(assignments[r])
        w == a.work
        count == succeeded[r] + Cardinality(Returned(r))
        running == Unfinished(r) \cup {w}
    IN
    /\ qpc[r] = "loop"
    /\ LoopAlive(r)
    /\ \A v \in WorksOf(r) : apc[v] # "error"
    /\ assignments[r] # <<>>
    /\ w \notin Unfinished(r)
    /\ TakeAssignment(r, StopsAtHead(r, count))
    /\ succeeded' = [succeeded EXCEPT ![r] = count]
    /\ apc' = [v \in Works |-> IF v = w THEN "created"
                               ELSE IF v \in Done(r) THEN "none" ELSE apc[v]]
    /\ states' = [states EXCEPT ![w] = "running"]
    /\ receipt' = [receipt EXCEPT ![w] = a.attempt]
    /\ outcome' = [outcome EXCEPT ![w] = "failed"]
    /\ save_attempt' = [save_attempt EXCEPT ![w] = 0]
    /\ LoopHead(r, count, running)
    /\ UNCHANGED <<enqueued, model_ended, terminal_failure, cancelled, ending,
                   interrupted, agentVars>>

\* The same with an attempt of that work still in flight: ValueError.
DispatchRefused(r) ==
    LET w == Head(assignments[r]).work IN
    /\ qpc[r] = "loop"
    /\ LoopAlive(r)
    /\ \A v \in WorksOf(r) : apc[v] # "error"
    /\ assignments[r] # <<>>
    /\ w \in Unfinished(r)
    /\ TakeAssignment(r, TRUE)
    /\ Raise(r, Unfinished(r))
    /\ apc' = [v \in Works |-> IF v \in Done(r) THEN "none" ELSE apc[v]]
    /\ UNCHANGED <<enqueued, succeeded, model_ended, terminal_failure, cancelled,
                   states, receipt, outcome, ending, save_attempt, interrupted,
                   agentVars>>

-----------------------------------------------------------------------------
(* Cancellation, and the way out *)

RequestCancel(r) ==
    /\ qpc[r] = "loop"
    /\ cancelled[r] = "no"
    /\ cancelled' = [cancelled EXCEPT ![r] = "asked"]
    /\ UNCHANGED <<poolVars, qpc, raising, enqueued, succeeded, stopping,
                   model_ended, terminal_failure, tocancel, attemptVars, agentVars>>

\* CancelledError comes out of the wait of the main loop.
CancelledInLoop(r) ==
    /\ qpc[r] = "loop"
    /\ cancelled[r] # "no"
    /\ Raise(r, Unfinished(r))
    /\ StopElections(r)
    /\ UNCHANGED <<enqueued, succeeded, model_ended, terminal_failure, cancelled,
                   attemptVars, agentVars>>

\* agent.cancel reaches an execution only if it is registered.  It is, unless
\* the iteration that dispatched it is the one that met the cancellation.
Told(w) == [agent EXCEPT ![w] = IF @ = "running" THEN "cancelled" ELSE @]

\* Mutant: the request waits for an execution that is not registered any more.
TellCancelRegistered(r, w) ==
    /\ qpc[r] = "stopping"
    /\ w \in tocancel[r]
    /\ agent[w] = "running"
    /\ tocancel' = [tocancel EXCEPT ![r] = @ \ {w}]
    /\ agent' = Told(w)
    /\ UNCHANGED <<poolVars, qpc, raising, enqueued, succeeded, stopping,
                   model_ended, terminal_failure, cancelled, attemptVars, memory,
                   stored>>

TellCancel(r, w) ==
    /\ qpc[r] = "stopping"
    /\ w \in tocancel[r]
    /\ apc[w] = "created" => CancelFlag
    /\ tocancel' = [tocancel EXCEPT ![r] = @ \ {w}]
    /\ agent' = Told(w)
    /\ UNCHANGED <<poolVars, qpc, raising, enqueued, succeeded, stopping,
                   model_ended, terminal_failure, cancelled, attemptVars, memory,
                   stored>>

AllTold(r) ==
    /\ qpc[r] = "stopping"
    /\ tocancel[r] = {}
    /\ qpc' = [qpc EXCEPT ![r] = "gather"]
    /\ UNCHANGED <<poolVars, raising, enqueued, succeeded, stopping, model_ended,
                   terminal_failure, cancelled, tocancel, attemptVars, agentVars>>

\* Mutant: the attempts are not awaited.
AllGatheredAtOnce(r) ==
    /\ qpc[r] = "gather"
    /\ qpc' = [qpc EXCEPT ![r] = "finally"]
    /\ UNCHANGED <<poolVars, raising, enqueued, succeeded, stopping, model_ended,
                   terminal_failure, cancelled, tocancel, attemptVars, agentVars>>

AllGathered(r) ==
    /\ qpc[r] = "gather"
    /\ Unfinished(r) = {}
    /\ qpc' = [qpc EXCEPT ![r] = "finally"]
    /\ UNCHANGED <<poolVars, raising, enqueued, succeeded, stopping, model_ended,
                   terminal_failure, cancelled, tocancel, attemptVars, agentVars>>

CancelModelTask(r) ==
    /\ qpc[r] = "finally"
    /\ CancelLoop(r)
    /\ qpc' = [qpc EXCEPT ![r] = "close"]
    /\ UNCHANGED <<raising, enqueued, succeeded, stopping, model_ended,
                   terminal_failure, cancelled, tocancel, attemptVars, agentVars>>

ClosePool(r) ==
    /\ qpc[r] = "close"
    /\ Close(r)
    /\ qpc' = [qpc EXCEPT ![r] = IF raising[r] THEN "raised" ELSE "returned"]
    /\ UNCHANGED <<raising, enqueued, succeeded, stopping, model_ended,
                   terminal_failure, cancelled, tocancel, attemptVars, agentVars>>

\* A cancellation that lands at another await of the main loop: while it
\* enqueues (nothing is cleaned up), while it tells the agents (the request under
\* way still arrives) or awaits the attempts, or in the first await of the
\* finally clause (the pool stays open).  A task is cancelled by its user and by
\* the end of the process, so one of the two may find the other's at work.
CancelledElsewhere(r) ==
    /\ CancelAnywhere
    /\ cancelled[r] # "cut"
    /\ cancelled' = [cancelled EXCEPT ![r] = "cut"]
    /\ \/ /\ qpc[r] \in {"enqueue", "close"}
          /\ qpc' = [qpc EXCEPT ![r] = "raised"]
          /\ raising' = [raising EXCEPT ![r] = TRUE]
          /\ UNCHANGED <<tocancel, interrupted, agent>>
       \/ /\ qpc[r] = "stopping"
          /\ qpc' = [qpc EXCEPT ![r] = "finally"]
          /\ tocancel' = [tocancel EXCEPT ![r] = {}]
          /\ IF tocancel[r] = {} THEN UNCHANGED agent
             ELSE \E w \in tocancel[r] : agent' = Told(w)
          /\ UNCHANGED <<raising, interrupted>>
       \/ /\ qpc[r] = "gather"
          /\ interrupted' = [w \in Works |-> interrupted[w] \/ w \in Unfinished(r)]
          /\ UNCHANGED <<qpc, raising, tocancel, agent>>
    /\ UNCHANGED <<poolVars, enqueued, succeeded, stopping, model_ended,
                   terminal_failure, states, apc, receipt, outcome, ending,
                   save_attempt, memory, stored>>

-----------------------------------------------------------------------------
Init ==
    /\ PoolInit
    /\ qpc = [r \in Runs |-> "enqueue"]
    /\ raising = [r \in Runs |-> FALSE]
    /\ enqueued = [r \in Runs |-> 0]
    /\ succeeded = [r \in Runs |-> 0]
    /\ stopping = [r \in Runs |-> FALSE]
    /\ model_ended = [r \in Runs |-> FALSE]
    /\ terminal_failure = [r \in Runs |-> FALSE]
    /\ cancelled = [r \in Runs |-> "no"]
    /\ tocancel = [r \in Runs |-> {}]
    /\ states = [w \in Works |-> "none"]
    /\ apc = [w \in Works |-> "none"]
    /\ receipt = [w \in Works |-> 0]
    /\ outcome = [w \in Works |-> "failed"]
    /\ ending = [w \in Works |-> "false"]
    /\ save_attempt = [w \in Works |-> 0]
    /\ interrupted = [w \in Works |-> FALSE]
    /\ agent = [w \in Works |-> "idle"]
    /\ memory = [w \in Works |-> "none"]
    /\ stored = [w \in Works |-> 0]

MainStep(r) ==
    \/ EnqueueNext(r) \/ LoopBegins(r)
    \/ AttemptRaised(r) \/ ModelTaskEnded(r) \/ Reap(r)
    \/ Dispatch(r) \/ DispatchRefused(r)
    \/ CancelledInLoop(r)
    \/ \E w \in Works : TellCancel(r, w)
    \/ AllTold(r) \/ AllGathered(r) \/ CancelModelTask(r) \/ ClosePool(r)

Next ==
    \/ \E r \in Runs : \/ MainStep(r)
                       \/ RequestCancel(r)
                       \/ CancelledElsewhere(r)
    \/ \E w \in Works : AttemptStep(w) \/ AgentEndsUnheard(w)
    \/ \E r \in Runs : LoopStep(r) /\ UNCHANGED queueVars
    \/ Surroundings /\ UNCHANGED queueVars

Spec == Init /\ [][Next]_vars

\* The main loop and the attempts get their turns on the event loop, a task that
\* was cancelled is woken, and executions and operations of the store end.  Nothing
\* is assumed of the pool, of cancellations, faults, back-offs or scores, nor that
\* retries end.
Fairness ==
    /\ \A r \in Runs : WF_vars(MainStep(r)) /\ WF_vars(CancelledInLoop(r))
    /\ \A w \in Works : WF_vars(AttemptStep(w))

FairSpec == Spec /\ Fairness

-----------------------------------------------------------------------------
(* Properties *)

QueueTypeOK ==
    /\ qpc \in [Runs -> LoopPcs]
    /\ raising \in [Runs -> BOOLEAN]
    /\ enqueued \in [Runs -> Nat]
    /\ succeeded \in [Runs -> Nat]
    /\ stopping \in [Runs -> BOOLEAN]
    /\ model_ended \in [Runs -> BOOLEAN]
    /\ terminal_failure \in [Runs -> BOOLEAN]
    /\ cancelled \in [Runs -> {"no", "asked", "cut"}]
    /\ tocancel \in [Runs -> SUBSET Works]
    /\ states \in [Works -> WorkStates]
    /\ apc \in [Works -> AttemptPcs]
    /\ receipt \in [Works -> Nat]
    /\ outcome \in [Works -> {"failed", "retry", "completed", "saved"}]
    /\ ending \in [Works -> Finished]
    /\ save_attempt \in [Works -> {0, 1}]
    /\ interrupted \in [Works -> BOOLEAN]
    /\ agent \in [Works -> {"idle", "running", "cancelled"}]
    /\ memory \in [Works -> {"none", "pending", "withdrawn", "confirmed"}]
    /\ stored \in [Works -> Nat]

TypeOK == PoolTypeOK /\ QueueTypeOK

\* run() returns only when the save of every work is committed and confirmed in
\* memory, by the execution whose attempt was counted (PipelineWorkFailed: a
\* required work that is not saved keeps the next stage from starting).
AllSavedOnReturn ==
    \A r \in Runs : qpc[r] = "returned" =>
        \A w \in WorksOf(r) : /\ states[w] = "saved"
                              /\ stored[w] = receipt[w]
                              /\ stored[w] # 0
                              /\ memory[w] = "confirmed"

\* While the loop runs, a work that is not saved is somewhere: in the queue of
\* the pool, in an election or an assignment under way, or in an attempt.
NoWorkLost ==
    \A r \in Runs : qpc[r] = "loop" /\ LoopAlive(r) => \A w \in WorksOf(r) :
        \/ stored[w] # 0
        \/ apc[w] # "none"
        \/ w \in Queued(r)
        \/ electing[r].work = w
        \/ \E i \in 1..Len(assignments[r]) : assignments[r][i].work = w

\* A work that is to be elected again, or was never elected; and one that its
\* pool knows nothing of.
BackInQueue(w) ==
    \/ apc[w] \in {"none", "false"}
    \/ apc[w] \in {"feedback", "notified"} /\ ending[w] = "false"

Parked(r, w) ==
    /\ w \notin Queued(r)
    /\ ~AssignedTo(r, w)
    /\ ~(mpc[r] = "notify" /\ electing[r].work = w)

\* A work that is neither saved nor at work and that nobody will elect.
LostWork(r, w) == stored[w] = 0 /\ BackInQueue(w) /\ Parked(r, w)
Lost(r) == \E w \in WorksOf(r) : LostWork(r, w)

\* What waits for an election waits once, unsaved and with no attempt that could
\* still change it; what was handed out is not saved and nobody holds it; and no
\* agent works on a result that is already immutable.
WorkAccounted(r, w) ==
    /\ w \in Queued(r) => stored[w] = 0 /\ BackInQueue(w) /\ ~AssignedTo(r, w)
    /\ AssignedTo(r, w) => stored[w] = 0 /\ apc[w] \notin Holding
    /\ agent[w] # "idle" => stored[w] = 0

\* While the loop of a run goes on, its works are accounted for, in whatever order
\* retries, elections, feedback and reaping come, until one of them is lost.
\* (ChapterWorkerPool.run, ModelElectionPool.run)
WorksAccounted ==
    \A r \in Runs : qpc[r] = "loop" =>
        Lost(r) \/ \A w \in WorksOf(r) : WorkAccounted(r, w)

\* And a work is lost in one way only: it came back to the head of the queue for
\* another attempt while the election of another work was suspended, and the pool,
\* which resumes, drops the head in place of the work it hands out.
LostOnlyToRetry ==
    [][\A r \in Runs : \A w \in WorksOf(r) :
          qpc'[r] = "loop" /\ LostWork(r, w)' /\ ~LostWork(r, w) =>
              /\ mpc[r] = "notify" /\ mpc'[r] = "poll"
              /\ w = Head(pending[r]) /\ w # electing[r].work
              /\ attempts[w] > 0]_vars

\* A cancellation outside the wait of the loop leaves the clean-up of its own run
\* unfinished; what follows is promised to every other run.
Cut(r) == cancelled[r] = "cut"

\* The concurrency is the number of live agents (capacity.py docstring): an
\* execution lives only while its work holds the seat its attempt was given.
AgentsHoldSeats ==
    \A w \in Works : agent[w] # "idle" =>
        \/ Cut(RunOf[w])
        \/ \E s \in seats : s.work = w /\ s.attempt = receipt[w]

\* An attempt keeps its seat until it gives it back, and a save that is not
\* confirmed keeps it until the run ends: nobody else is started in its place.
UnconfirmedKeepsSeat ==
    \A w \in Works :
        states[w] = "save_unconfirmed" /\ qpc[RunOf[w]] \notin Over =>
            reservations[w] = receipt[w]

\* A pool gives back every seat of its run when it ends: the process-wide ledger
\* holds none of a run that is over (capacity.py docstring).
SeatsGivenBack ==
    \A r \in Runs : qpc[r] \in Over /\ ~Cut(r) => \A s \in seats : s.run # r

\* A seat is held exactly as long as it is used: by a live agent, by a save that
\* is not confirmed, and by nothing once the run is over, on every way out of it.
\* (ChapterWorkerPool.run, ModelElectionPool.close)
SeatsSound == AgentsHoldSeats /\ UnconfirmedKeepsSeat /\ SeatsGivenBack

\* A run that is over left no handler on the bus, which the next run of the same
\* name could not register again, and no attempt in flight.
EndsClean ==
    \A r \in Runs : qpc[r] \in Over /\ ~Cut(r) => ~attached[r] /\ Unfinished(r) = {}

\* The pool ends by its own rules only when no agent of the run is at work and
\* no save is in progress.
PoolFailsIdle ==
    \A r \in Runs : mpc[r] \in {"exhausted", "error"} =>
        \A w \in WorksOf(r) : agent[w] = "idle" /\ apc[w] \notin SavePcs

\* The ends of a run and of its pool are clean: each leaves nothing at work and
\* nothing registered.  (the finally clause of run, ModelElectionPool.run)
CleanEnds == EndsClean /\ PoolFailsIdle

\* agent.abort comes only after it was established that the work is not saved
\* (docstring of abort): no committed result has its contributions withdrawn.
OnlyUnsavedWithdrawn ==
    \A w \in Works : memory[w] = "withdrawn" => stored[w] # receipt[w] \/ stored[w] = 0

\* Memory and store agree: what is confirmed in memory is committed under the same
\* execution, unless the work was handed out once more and that attempt did not
\* begin; and when a run is over, what was completed but neither committed nor
\* unconfirmed was withdrawn.  (ChapterWorkerPool._save)
MemoryMatchesStore ==
    \A w \in Works :
        /\ memory[w] = "confirmed" =>
              /\ stored[w] # 0
              /\ stored[w] = receipt[w] \/ apc[w] = "created" \/ interrupted[w]
        /\ qpc[RunOf[w]] \in Over /\ memory[w] = "pending" =>
              states[w] = "save_unconfirmed" \/ model_ended[RunOf[w]] \/ Cut(RunOf[w])

\* The queue keeps its promise to the workflow (module WorkPromise): the saved
\* works are those with a committed result, and a run that is over has reported,
\* or was given up where its attempts outlive it.
ReportOf(r) ==
    CASE qpc[r] \notin Over -> "none"
      [] qpc[r] \in Over /\ Cut(r) -> "abandoned"
      [] OTHER -> qpc[r]

Promise == INSTANCE WorkPromise
    WITH saved <- {w \in Works : stored[w] # 0},
         report <- [r \in Runs |-> ReportOf(r)]

KeepsPromise == Promise!Spec

\* The queue uses the pool only in the ways its module allows any caller.
UsesPool == PoolSpec

\* A run that was cancelled, or that an error is on its way out of, ends: nobody
\* waits for an attempt, a seat, a closed pool or a lost work.
RunsStop ==
    \A r \in Runs : raising[r] \/ cancelled[r] # "no" ~> qpc[r] \in Over
=============================================================================
