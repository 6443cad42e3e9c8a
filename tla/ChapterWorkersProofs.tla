------------------------ MODULE ChapterWorkersProofs ------------------------
(***************************************************************************)
(* Proofs about the queue of chapter works, for any runs and works, any    *)
(* configuration of the models, any bound on the attempts, and whatever    *)
(* the switches of the module say: notifications that suspend, faults of   *)
(* the pools, errors of the store that hide a commit, cancellations that   *)
(* land anywhere.                                                          *)
(***************************************************************************)
EXTENDS ChapterWorkers, ModelElectionProofs

(* The list of a run names each of its works once. *)
LEMMA WorksAreFinite ==
    ASSUME NEW r \in Runs
    PROVE  IsFiniteSet(WorksOf(r)) /\ Cardinality(WorksOf(r)) = Len(WorkList[r])
<1> DEFINE n == Len(WorkList[r])
           f == [i \in 1..n |-> WorkList[r][i]]
<1>1. /\ WorkList[r] \in Seq(Works)
      /\ WorksOf(r) = {WorkList[r][i] : i \in 1..n}
      /\ Cardinality(WorksOf(r)) = n
    BY ChapterWorkersAssumption
<1>2. n \in Nat
    BY <1>1
<1>3. IsFiniteSet(1..n)
    BY <1>2, FS_Interval
<1>4. f \in Surjection(1..n, WorksOf(r))
    BY <1>1 DEF Surjection
<1> QED
    BY <1>1, <1>3, <1>4, FS_Surjection

LEMMA ReturnedAreCounted ==
    ASSUME NEW r \in Runs
    PROVE  IsFiniteSet(Returned(r)) /\ Cardinality(Returned(r)) \in Nat
    BY WorksAreFinite, FS_Subset, FS_CardinalityType DEF Returned

-----------------------------------------------------------------------------
(* Types of the queue *)

LEMMA QueueTypeInit == Init => QueueTypeOK
    BY DEF Init, QueueTypeOK, LoopPcs, AttemptPcs, Finished, WorkStates

LEMMA LeaveTypes ==
    ASSUME QueueTypeOK, NEW w \in Works, NEW how \in Finished, Leave(w, how)
    PROVE  apc' \in [Works -> AttemptPcs] /\ ending' \in [Works -> Finished]
<1>1. how \in AttemptPcs /\ "feedback" \in AttemptPcs
    BY DEF AttemptPcs
<1>2. apc \in [Works -> AttemptPcs] /\ ending \in [Works -> Finished]
    BY DEF QueueTypeOK
<1> QED
    BY <1>1, <1>2 DEF Leave

LEMMA AgentEndsTypes ==
    ASSUME QueueTypeOK, NEW w \in Works, NEW o, AgentEnds(w, o)
    PROVE  /\ agent' \in [Works -> {"idle", "running", "cancelled"}]
           /\ memory' \in [Works -> {"none", "pending", "withdrawn", "confirmed"}]
           /\ stored' = stored
    BY DEF AgentEnds, QueueTypeOK

LEMMA AttemptTypes ==
    ASSUME QueueTypeOK, NEW w \in Works, AttemptStep(w) \/ AgentEndsUnheard(w)
    PROVE  QueueTypeOK'
<1>1. ASSUME AttemptStarts(w) PROVE QueueTypeOK'
    BY <1>1 DEF AttemptStarts, QueueTypeOK, loopVars, AttemptPcs
<1>2. ASSUME ReplyDropped(w) PROVE QueueTypeOK'
    BY <1>2, AgentEndsTypes DEF ReplyDropped, QueueTypeOK, loopVars, AttemptPcs, Finished
<1>3. ASSUME ExecutionRaises(w) PROVE QueueTypeOK'
    BY <1>3, AgentEndsTypes, LeaveTypes DEF ExecutionRaises, QueueTypeOK, loopVars, Finished
<1>4. ASSUME ExecutionCompletes(w) PROVE QueueTypeOK'
    BY <1>4, AgentEndsTypes
    DEF ExecutionCompletes, QueueTypeOK, loopVars, AttemptPcs, SavePcs, WorkStates
<1>5. ASSUME ExecutionRetries(w) PROVE QueueTypeOK'
    BY <1>5, AgentEndsTypes
    DEF ExecutionRetries, QueueTypeOK, loopVars, AttemptPcs, WorkStates
<1>6. ASSUME ExecutionFails(w) PROVE QueueTypeOK'
    BY <1>6, AgentEndsTypes, LeaveTypes DEF ExecutionFails, QueueTypeOK, Finished, WorkStates
<1>7. ASSUME Requeue(w) PROVE QueueTypeOK'
    BY <1>7, LeaveTypes DEF Requeue, QueueTypeOK, loopVars, agentVars, Finished
<1>8. ASSUME SaveBegins(w) PROVE QueueTypeOK'
    <2>1. CASE model_ended[RunOf[w]]
        BY <1>8, <2>1, LeaveTypes DEF SaveBegins, QueueTypeOK, loopVars, agentVars, Finished
    <2>2. CASE ~model_ended[RunOf[w]]
        BY <1>8, <2>2
        DEF SaveBegins, QueueTypeOK, loopVars, agentVars, AttemptPcs, SavePcs
    <2> QED
        BY <2>1, <2>2
<1>9. ASSUME SaveCommits(w) PROVE QueueTypeOK'
    BY <1>9 DEF SaveCommits, QueueTypeOK, loopVars, AttemptPcs, SavePcs
<1>10. ASSUME NEW kind, SaveRaises(w, kind) PROVE QueueTypeOK'
    <2>1. stored' \in [Works -> Nat]
        BY <1>10 DEF SaveRaises, QueueTypeOK
    <2>2. \/ LeaveUnconfirmed(w) /\ UNCHANGED save_attempt
          \/ /\ save_attempt' = [save_attempt EXCEPT ![w] = 1]
             /\ UNCHANGED <<states, apc, ending>>
          \/ /\ apc' = [apc EXCEPT ![w] = "aborting"]
             /\ UNCHANGED <<states, ending, save_attempt>>
        BY <1>10 DEF SaveRaises
    <2>3. UNCHANGED <<poolVars, loopVars, receipt, outcome, interrupted, agent, memory>>
        BY <1>10 DEF SaveRaises
    <2>4. /\ "error" \in AttemptPcs /\ "aborting" \in AttemptPcs
          /\ "save_unconfirmed" \in WorkStates
        BY DEF AttemptPcs, SavePcs, Finished, WorkStates
    <2>5. /\ states' \in [Works -> WorkStates] /\ apc' \in [Works -> AttemptPcs]
          /\ ending' \in [Works -> Finished] /\ save_attempt' \in [Works -> {0, 1}]
        <3>1. CASE LeaveUnconfirmed(w) /\ UNCHANGED save_attempt
            BY <2>4, <3>1 DEF LeaveUnconfirmed, QueueTypeOK
        <3>2. CASE /\ save_attempt' = [save_attempt EXCEPT ![w] = 1]
                   /\ UNCHANGED <<states, apc, ending>>
            BY <3>2 DEF QueueTypeOK
        <3>3. CASE /\ apc' = [apc EXCEPT ![w] = "aborting"]
                   /\ UNCHANGED <<states, ending, save_attempt>>
            BY <2>4, <3>3 DEF QueueTypeOK
        <3> QED
            BY <2>2, <3>1, <3>2, <3>3
    <2> QED
        BY <2>1, <2>3, <2>5 DEF QueueTypeOK, loopVars
<1>11. ASSUME Abort(w) PROVE QueueTypeOK'
    BY <1>11, LeaveTypes DEF Abort, QueueTypeOK, loopVars, Finished
<1>12. ASSUME Confirm(w) \/ ConfirmRaises(w) \/ Recover(w) PROVE QueueTypeOK'
    <2>1. memory' = memory \/ memory' = [memory EXCEPT ![w] = "confirmed"]
        BY <1>12 DEF Confirm, ConfirmRaises, Recover
    <2>2. memory' \in [Works -> {"none", "pending", "withdrawn", "confirmed"}]
        BY <2>1 DEF QueueTypeOK
    <2>3. apc' \in [Works -> AttemptPcs]
        BY <1>12 DEF Confirm, ConfirmRaises, Recover, QueueTypeOK, AttemptPcs, SavePcs
    <2>4. UNCHANGED <<loopVars, states, receipt, outcome, ending, save_attempt,
                      interrupted, agent, stored>>
        BY <1>12 DEF Confirm, ConfirmRaises, Recover
    <2> QED
        BY <2>2, <2>3, <2>4 DEF QueueTypeOK, loopVars
<1>13. ASSUME RecoverRaises(w) PROVE QueueTypeOK'
    BY <1>13 DEF RecoverRaises, LeaveUnconfirmed, QueueTypeOK, loopVars, agentVars,
                 AttemptPcs, Finished, WorkStates
<1>14. ASSUME AfterSave(w) PROVE QueueTypeOK'
    <2>1. \/ /\ \E how \in Finished : Leave(w, how)
             /\ UNCHANGED <<states, outcome>>
          \/ /\ states' = [states EXCEPT ![w] = "saved"]
             /\ outcome' = [outcome EXCEPT ![w] = "saved"]
             /\ apc' = [apc EXCEPT ![w] = "on_saved"]
             /\ UNCHANGED ending
        BY <1>14 DEF AfterSave, Finished
    <2>2. UNCHANGED <<poolVars, loopVars, receipt, save_attempt, interrupted, agentVars>>
        BY <1>14 DEF AfterSave
    <2>3. /\ apc' \in [Works -> AttemptPcs]
          /\ ending' \in [Works -> Finished]
          /\ states' \in [Works -> WorkStates]
          /\ outcome' \in [Works -> {"failed", "retry", "completed", "saved"}]
        <3>1. ASSUME NEW how \in Finished, Leave(w, how), UNCHANGED <<states, outcome>>
              PROVE  /\ apc' \in [Works -> AttemptPcs]
                     /\ ending' \in [Works -> Finished]
                     /\ states' \in [Works -> WorkStates]
                     /\ outcome' \in [Works -> {"failed", "retry", "completed", "saved"}]
            BY <3>1, LeaveTypes DEF QueueTypeOK
        <3>2. ASSUME /\ states' = [states EXCEPT ![w] = "saved"]
                     /\ outcome' = [outcome EXCEPT ![w] = "saved"]
                     /\ apc' = [apc EXCEPT ![w] = "on_saved"]
                     /\ UNCHANGED ending
              PROVE  /\ apc' \in [Works -> AttemptPcs]
                     /\ ending' \in [Works -> Finished]
                     /\ states' \in [Works -> WorkStates]
                     /\ outcome' \in [Works -> {"failed", "retry", "completed", "saved"}]
            BY <3>2 DEF QueueTypeOK, AttemptPcs, WorkStates
        <3> QED
            BY <2>1, <3>1, <3>2
    <2> QED
        BY <2>2, <2>3 DEF QueueTypeOK, loopVars, agentVars
<1>15. ASSUME OnSaved(w) PROVE QueueTypeOK'
    BY <1>15, LeaveTypes DEF OnSaved, QueueTypeOK, loopVars, agentVars, Finished
<1>16. ASSUME GiveBack(w) \/ GiveBackEnds(w) \/ PoolGone(w) PROVE QueueTypeOK'
    BY <1>16 DEF GiveBack, GiveBackEnds, PoolGone, QueueTypeOK, loopVars, agentVars,
                 AttemptPcs, Finished
<1>17. ASSUME Interrupted(w) PROVE QueueTypeOK'
    <2>1. apc' \in [Works -> AttemptPcs] /\ ending' \in [Works -> Finished]
        BY <1>17, LeaveTypes DEF Interrupted, QueueTypeOK, AttemptPcs, Finished
    <2> QED
        BY <1>17, <2>1 DEF Interrupted, QueueTypeOK, loopVars, agentVars
<1>18. ASSUME AgentEndsUnheard(w) PROVE QueueTypeOK'
    BY <1>18, AgentEndsTypes DEF AgentEndsUnheard, QueueTypeOK, loopVars, attemptVars
<1> QED
    BY <1>1, <1>2, <1>3, <1>4, <1>5, <1>6, <1>7, <1>8, <1>9, <1>10, <1>11, <1>12, <1>13,
       <1>14, <1>15, <1>16, <1>17, <1>18
    DEF AttemptStep

(* What the head of the loop may do to the run. *)
LEMMA LoopHeadTypes ==
    ASSUME QueueTypeOK, NEW r \in Runs, NEW running \in SUBSET Works, NEW count,
           LoopHead(r, count, running) \/ Raise(r, running)
    PROVE  /\ qpc' \in [Runs -> LoopPcs]
           /\ raising' \in [Runs -> BOOLEAN]
           /\ stopping' \in [Runs -> BOOLEAN]
           /\ tocancel' \in [Runs -> SUBSET Works]
<1>1. \/ Raise(r, running)
      \/ /\ qpc' = [qpc EXCEPT ![r] = "finally"]
         /\ UNCHANGED <<raising, stopping, tocancel>>
      \/ UNCHANGED <<qpc, raising, stopping, tocancel>>
    BY DEF LoopHead
<1> QED
    BY <1>1 DEF Raise, QueueTypeOK, LoopPcs

LEMMA MainTypes ==
    ASSUME PoolTypeOK, QueueTypeOK, NEW r \in Runs,
           MainStep(r) \/ RequestCancel(r) \/ CancelledElsewhere(r)
    PROVE  QueueTypeOK'
<1>0. Unfinished(r) \in SUBSET Works
    BY DEF Unfinished, Active, WorksOf
<1>1. ASSUME EnqueueNext(r) PROVE QueueTypeOK'
    <2>1. PICK w : states' = [states EXCEPT ![w] = "queued"]
        BY <1>1 DEF EnqueueNext
    <2>2. states' \in [Works -> WorkStates]
        BY <2>1 DEF QueueTypeOK, WorkStates
    <2>3. enqueued' \in [Runs -> Nat]
        BY <1>1 DEF EnqueueNext, QueueTypeOK
    <2> QED
        BY <1>1, <2>2, <2>3 DEF EnqueueNext, QueueTypeOK, agentVars
<1>2. ASSUME LoopBegins(r) PROVE QueueTypeOK'
    BY <1>2 DEF LoopBegins, QueueTypeOK, attemptVars, agentVars, LoopPcs
<1>3. ASSUME AttemptRaised(r) \/ CancelledInLoop(r) PROVE QueueTypeOK'
    <2>1. /\ Raise(r, Unfinished(r))
          /\ UNCHANGED <<enqueued, succeeded, model_ended, terminal_failure, cancelled,
                         attemptVars, agentVars>>
        BY <1>3 DEF AttemptRaised, CancelledInLoop
    <2> QED
        BY <1>0, <2>1, LoopHeadTypes DEF QueueTypeOK, attemptVars, agentVars
<1>4. ASSUME ModelTaskEnded(r) PROVE QueueTypeOK'
    <2>1. CASE terminal_failure[r]
        BY <1>0, <1>4, <2>1, LoopHeadTypes
        DEF ModelTaskEnded, QueueTypeOK, attemptVars, agentVars
    <2>2. CASE ~terminal_failure[r]
        BY <1>4, <2>2 DEF ModelTaskEnded, QueueTypeOK, attemptVars, agentVars, LoopPcs
    <2> QED
        BY <2>1, <2>2
<1>5. ASSUME Reap(r) PROVE QueueTypeOK'
    <2>1. succeeded' \in [Runs -> Nat]
        BY <1>5, ReturnedAreCounted DEF Reap, QueueTypeOK
    <2>2. apc' \in [Works -> AttemptPcs]
        BY <1>5 DEF Reap, QueueTypeOK, AttemptPcs
    <2> QED
        BY <1>0, <1>5, <2>1, <2>2, LoopHeadTypes DEF Reap, QueueTypeOK, agentVars
<1>6. ASSUME Dispatch(r) PROVE QueueTypeOK'
    <2> DEFINE a == Head(assignments[r])
    <2>1. a \in Assignment
        <3>1. assignments[r] \in Seq(Assignment) /\ assignments[r] # <<>>
            BY <1>6 DEF Dispatch, PoolTypeOK
        <3> QED
            BY <3>1
    <2>2. a.work \in Works /\ a.attempt \in Nat
        BY <2>1 DEF Assignment
    <2>3. succeeded' \in [Runs -> Nat]
        BY <1>6, ReturnedAreCounted DEF Dispatch, QueueTypeOK
    <2>4. apc' \in [Works -> AttemptPcs]
        BY <1>6 DEF Dispatch, QueueTypeOK, AttemptPcs
    <2>5. /\ states' = [states EXCEPT ![a.work] = "running"]
          /\ receipt' = [receipt EXCEPT ![a.work] = a.attempt]
          /\ outcome' = [outcome EXCEPT ![a.work] = "failed"]
          /\ save_attempt' = [save_attempt EXCEPT ![a.work] = 0]
          /\ UNCHANGED <<enqueued, model_ended, terminal_failure, cancelled, ending,
                         interrupted, agentVars>>
        BY <1>6 DEF Dispatch
    <2>6. /\ states' \in [Works -> WorkStates]
          /\ receipt' \in [Works -> Nat]
          /\ outcome' \in [Works -> {"failed", "retry", "completed", "saved"}]
          /\ save_attempt' \in [Works -> {0, 1}]
        BY <2>2, <2>5 DEF QueueTypeOK, WorkStates
    <2>7. /\ qpc' \in [Runs -> LoopPcs]
          /\ raising' \in [Runs -> BOOLEAN]
          /\ stopping' \in [Runs -> BOOLEAN]
          /\ tocancel' \in [Runs -> SUBSET Works]
        <3>1. Unfinished(r) \cup {a.work} \in SUBSET Works
            BY <1>0, <2>2
        <3>2. \E count : LoopHead(r, count, Unfinished(r) \cup {a.work})
            BY <1>6 DEF Dispatch
        <3> QED
            BY <3>1, <3>2, LoopHeadTypes
    <2> QED
        BY <2>3, <2>4, <2>5, <2>6, <2>7 DEF QueueTypeOK, agentVars
<1>7. ASSUME DispatchRefused(r) PROVE QueueTypeOK'
    <2>1. apc' \in [Works -> AttemptPcs]
        BY <1>7 DEF DispatchRefused, QueueTypeOK, AttemptPcs
    <2> QED
        BY <1>0, <1>7, <2>1, LoopHeadTypes DEF DispatchRefused, QueueTypeOK, agentVars
<1>8. ASSUME NEW w \in Works, TellCancel(r, w) PROVE QueueTypeOK'
    BY <1>8 DEF TellCancel, Told, QueueTypeOK, attemptVars
<1>9. ASSUME AllTold(r) \/ AllGathered(r) \/ CancelModelTask(r) \/ ClosePool(r)
      PROVE  QueueTypeOK'
    BY <1>9 DEF AllTold, AllGathered, CancelModelTask, ClosePool, QueueTypeOK, attemptVars,
                agentVars, LoopPcs, Over
<1>10. ASSUME RequestCancel(r) PROVE QueueTypeOK'
    BY <1>10 DEF RequestCancel, QueueTypeOK, attemptVars, agentVars
<1>11. ASSUME CancelledElsewhere(r) PROVE QueueTypeOK'
    <2>1. /\ cancelled' = [cancelled EXCEPT ![r] = "cut"]
          /\ UNCHANGED <<enqueued, succeeded, stopping, model_ended, terminal_failure, states,
                         apc, receipt, outcome, ending, save_attempt, memory, stored>>
        BY <1>11 DEF CancelledElsewhere
    <2>2. /\ qpc' \in [Runs -> LoopPcs]
          /\ raising' \in [Runs -> BOOLEAN]
          /\ tocancel' \in [Runs -> SUBSET Works]
        BY <1>11 DEF CancelledElsewhere, QueueTypeOK, LoopPcs, Over
    <2>3. interrupted' \in [Works -> BOOLEAN]
        BY <1>11 DEF CancelledElsewhere, QueueTypeOK
    <2>4. agent' \in [Works -> {"idle", "running", "cancelled"}]
        BY <1>11 DEF CancelledElsewhere, Told, QueueTypeOK
    <2> QED
        BY <2>1, <2>2, <2>3, <2>4 DEF QueueTypeOK
<1> QED
    BY <1>1, <1>2, <1>3, <1>4, <1>5, <1>6, <1>7, <1>8, <1>9, <1>10, <1>11 DEF MainStep

LEMMA QueueTypeStep ==
    ASSUME PoolTypeOK, QueueTypeOK, [Next]_vars
    PROVE  QueueTypeOK'
<1>1. ASSUME UNCHANGED queueVars PROVE QueueTypeOK'
    BY <1>1 DEF queueVars, loopVars, attemptVars, agentVars, QueueTypeOK
<1>2. CASE UNCHANGED vars
    BY <1>1, <1>2 DEF vars
<1> QED
    BY <1>1, <1>2, AttemptTypes, MainTypes DEF Next

-----------------------------------------------------------------------------
(* The steps of an attempt *)

(* Where an attempt has its seat and will give it back, and where it has not yet *)
(* begun to save.                                                                *)
Unsaved == {"created", "executing", "completed", "requeue"}

(* An attempt touches its own work only. *)
OnlyOf(w) ==
    /\ UNCHANGED <<receipt, interrupted, qpc, raising, enqueued, succeeded, model_ended,
                   cancelled, tocancel>>
    /\ \A v \in Works \ {w} : /\ apc'[v] = apc[v]
                              /\ states'[v] = states[v]
                              /\ ending'[v] = ending[v]
                              /\ agent'[v] = agent[v]
                              /\ memory'[v] = memory[v]
                              /\ stored'[v] = stored[v]

(* What it asks of the pool: nothing, the end of the elections, another turn, or *)
(* the return of its seat.                                                       *)
AsksOfPool(w) ==
    \/ UNCHANGED poolVars
    \/ StopElections(RunOf[w])
    \/ apc[w] = "requeue" /\ Enqueue(w)
    \/ /\ apc[w] = "feedback"
       /\ apc'[w] \notin Holding
       /\ Feedback(w, receipt[w], outcome[w])

(* How far a step may take it. *)
AttemptMoves(w) ==
    /\ apc[w] \notin {"none"} \cup Finished
    /\ apc'[w] # "none"
    /\ apc'[w] \in Holding => apc[w] \in Holding
    /\ apc'[w] \in Unsaved => apc[w] \in Unsaved
    /\ apc'[w] = "requeue" => attempts[w] < MaxAttempts
    /\ \/ stored'[w] = stored[w]
       \/ apc[w] = "saving" /\ stored[w] \in {0, receipt[w]} /\ stored'[w] = receipt[w]
    /\ BackInQueue(w) /\ attached[RunOf[w]] => BackInQueue(w)'
    /\ BackInQueue(w)' => BackInQueue(w) \/ apc[w] = "requeue" \/ model_ended[RunOf[w]]

LEMMA LeaveFields ==
    ASSUME QueueTypeOK, NEW w \in Works, NEW how, Leave(w, how)
    PROVE  /\ \A v \in Works \ {w} : apc'[v] = apc[v] /\ ending'[v] = ending[v]
           /\ \/ model_ended[RunOf[w]] /\ apc'[w] = how /\ ending'[w] = ending[w]
              \/ ~model_ended[RunOf[w]] /\ apc'[w] = "feedback" /\ ending'[w] = how
    BY DEF Leave, QueueTypeOK

LEMMA AgentEndsFields ==
    ASSUME QueueTypeOK, NEW w \in Works, NEW o, AgentEnds(w, o)
    PROVE  /\ \A v \in Works \ {w} : agent'[v] = agent[v] /\ memory'[v] = memory[v]
           /\ agent[w] # "idle" /\ agent'[w] = "idle"
           /\ memory'[w] = IF o = "completed" THEN memory[w] ELSE "withdrawn"
           /\ stored' = stored
    BY DEF AgentEnds, QueueTypeOK

LEMMA AttemptLeads ==
    ASSUME QueueTypeOK, NEW w \in Works, AttemptStep(w)
    PROVE  OnlyOf(w) /\ AsksOfPool(w) /\ AttemptMoves(w)
<1> DEFINE Goal == OnlyOf(w) /\ AsksOfPool(w) /\ AttemptMoves(w)
<1> SUFFICES Goal
    OBVIOUS
<1>1. ASSUME AttemptStarts(w) PROVE Goal
    BY <1>1 DEF AttemptStarts, QueueTypeOK, loopVars, OnlyOf, AsksOfPool, AttemptMoves,
                Holding, SavePcs, Unsaved, BackInQueue, Finished
<1>2. ASSUME ReplyDropped(w) PROVE Goal
    BY <1>2, AgentEndsFields
    DEF ReplyDropped, QueueTypeOK, loopVars, OnlyOf, AsksOfPool, AttemptMoves, Holding,
        SavePcs, Unsaved, BackInQueue, Finished
<1>3. ASSUME ExecutionRaises(w) PROVE Goal
    BY <1>3, AgentEndsFields, LeaveFields
    DEF ExecutionRaises, QueueTypeOK, loopVars, OnlyOf, AsksOfPool, AttemptMoves, Holding,
        SavePcs, Unsaved, BackInQueue, Finished
<1>4. ASSUME ExecutionCompletes(w) PROVE Goal
    BY <1>4, AgentEndsFields
    DEF ExecutionCompletes, QueueTypeOK, loopVars, OnlyOf, AsksOfPool, AttemptMoves,
        Holding, SavePcs, Unsaved, BackInQueue, Finished
<1>5. ASSUME ExecutionRetries(w) PROVE Goal
    BY <1>5, AgentEndsFields
    DEF ExecutionRetries, QueueTypeOK, loopVars, OnlyOf, AsksOfPool, AttemptMoves, Holding,
        SavePcs, Unsaved, BackInQueue, Finished
<1>6. ASSUME ExecutionFails(w) PROVE Goal
    BY <1>6, AgentEndsFields, LeaveFields
    DEF ExecutionFails, QueueTypeOK, OnlyOf, AsksOfPool, AttemptMoves, Holding, SavePcs,
        Unsaved, BackInQueue, Finished
<1>7. ASSUME Requeue(w) PROVE Goal
    BY <1>7, LeaveFields
    DEF Requeue, QueueTypeOK, loopVars, agentVars, OnlyOf, AsksOfPool, AttemptMoves,
        Holding, SavePcs, Unsaved, BackInQueue, Finished
<1>8. ASSUME SaveBegins(w) PROVE Goal
    <2>1. CASE model_ended[RunOf[w]]
        BY <1>8, <2>1, LeaveFields
        DEF SaveBegins, QueueTypeOK, loopVars, agentVars, OnlyOf, AsksOfPool, AttemptMoves,
            Holding, SavePcs, Unsaved, BackInQueue, Finished
    <2>2. CASE ~model_ended[RunOf[w]]
        BY <1>8, <2>2
        DEF SaveBegins, QueueTypeOK, loopVars, agentVars, OnlyOf, AsksOfPool, AttemptMoves,
            Holding, SavePcs, Unsaved, BackInQueue, Finished
    <2> QED
        BY <2>1, <2>2
<1>9. ASSUME SaveCommits(w) PROVE Goal
    BY <1>9 DEF SaveCommits, QueueTypeOK, loopVars, OnlyOf, AsksOfPool, AttemptMoves,
                Holding, SavePcs, Unsaved, BackInQueue, Finished
<1>10. ASSUME NEW kind, SaveRaises(w, kind) PROVE Goal
    <2>1. /\ \A v \in Works \ {w} : stored'[v] = stored[v]
          /\ \/ stored'[w] = stored[w]
             \/ stored[w] = 0 /\ stored'[w] = receipt[w]
        BY <1>10 DEF SaveRaises, QueueTypeOK
    <2>2. /\ \A v \in Works \ {w} : apc'[v] = apc[v] /\ states'[v] = states[v]
          /\ ending' = ending
          /\ apc[w] = "saving"
          /\ apc'[w] \in {"error", "saving", "aborting"}
        BY <1>10 DEF SaveRaises, LeaveUnconfirmed, QueueTypeOK
    <2>3. UNCHANGED <<poolVars, loopVars, receipt, outcome, interrupted, agent, memory>>
        BY <1>10 DEF SaveRaises
    <2> QED
        BY <2>1, <2>2, <2>3
        DEF loopVars, OnlyOf, AsksOfPool, AttemptMoves, Holding, SavePcs, Unsaved,
            BackInQueue, Finished
<1>11. ASSUME Abort(w) PROVE Goal
    BY <1>11, LeaveFields
    DEF Abort, QueueTypeOK, loopVars, OnlyOf, AsksOfPool, AttemptMoves, Holding, SavePcs,
        Unsaved, BackInQueue, Finished
<1>12. ASSUME Confirm(w) \/ ConfirmRaises(w) \/ Recover(w) PROVE Goal
    <2>1. \A v \in Works \ {w} : memory'[v] = memory[v]
        BY <1>12 DEF Confirm, ConfirmRaises, Recover, QueueTypeOK
    <2>2. /\ \A v \in Works \ {w} : apc'[v] = apc[v]
          /\ apc[w] \in {"confirming", "recovering"}
          /\ apc'[w] \in {"saved", "recovering"}
        BY <1>12 DEF Confirm, ConfirmRaises, Recover, QueueTypeOK
    <2>3. UNCHANGED <<poolVars, loopVars, states, receipt, outcome, ending, save_attempt,
                      interrupted, agent, stored>>
        BY <1>12 DEF Confirm, ConfirmRaises, Recover
    <2> QED
        BY <2>1, <2>2, <2>3
        DEF loopVars, OnlyOf, AsksOfPool, AttemptMoves, Holding, SavePcs, Unsaved,
            BackInQueue, Finished
<1>13. ASSUME RecoverRaises(w) PROVE Goal
    BY <1>13 DEF RecoverRaises, LeaveUnconfirmed, QueueTypeOK, loopVars, agentVars, OnlyOf,
                 AsksOfPool, AttemptMoves, Holding, SavePcs, Unsaved, BackInQueue, Finished
<1>14. ASSUME AfterSave(w) PROVE Goal
    <2>1. \/ Leave(w, "error") /\ UNCHANGED <<states, outcome>>
          \/ model_ended[RunOf[w]] /\ Leave(w, "false") /\ UNCHANGED <<states, outcome>>
          \/ /\ states' = [states EXCEPT ![w] = "saved"]
             /\ apc' = [apc EXCEPT ![w] = "on_saved"]
             /\ UNCHANGED ending
        BY <1>14 DEF AfterSave
    <2>2. /\ UNCHANGED <<poolVars, loopVars, receipt, save_attempt, interrupted, agentVars>>
          /\ apc[w] = "saved"
        BY <1>14 DEF AfterSave
    <2>3. /\ \A v \in Works \ {w} : /\ apc'[v] = apc[v]
                                    /\ states'[v] = states[v]
                                    /\ ending'[v] = ending[v]
          /\ apc'[w] \in {"error", "false", "feedback", "on_saved"}
          /\ BackInQueue(w)' => model_ended[RunOf[w]]
        BY <2>1, LeaveFields DEF QueueTypeOK, BackInQueue
    <2> QED
        BY <2>2, <2>3
        DEF loopVars, agentVars, OnlyOf, AsksOfPool, AttemptMoves, Holding, SavePcs,
            Unsaved, BackInQueue, Finished
<1>15. ASSUME OnSaved(w) PROVE Goal
    BY <1>15, LeaveFields
    DEF OnSaved, QueueTypeOK, loopVars, agentVars, OnlyOf, AsksOfPool, AttemptMoves, Holding,
        SavePcs, Unsaved, BackInQueue, Finished
<1>16. ASSUME GiveBack(w) PROVE Goal
    <2>1. /\ apc[w] = "feedback"
          /\ Feedback(w, receipt[w], outcome[w])
          /\ apc' = [apc EXCEPT ![w] = IF NotifySuspends THEN "notified" ELSE ending[w]]
          /\ UNCHANGED <<loopVars, states, receipt, outcome, ending, save_attempt,
                         interrupted, agentVars>>
        BY <1>16 DEF GiveBack
    <2>2. ending[w] \in Finished
        BY DEF QueueTypeOK
    <2>3. /\ \A v \in Works \ {w} : apc'[v] = apc[v]
          /\ apc'[w] = "notified" \/ apc'[w] = ending[w]
        BY <2>1 DEF QueueTypeOK
    <2> QED
        BY <2>1, <2>2, <2>3
        DEF loopVars, agentVars, OnlyOf, AsksOfPool, AttemptMoves, Holding, SavePcs,
            Unsaved, BackInQueue, Finished
<1>17. ASSUME GiveBackEnds(w) \/ PoolGone(w) PROVE Goal
    <2>1. /\ apc[w] \in {"notified", "requeue", "feedback"}
          /\ \/ apc[w] = "notified" /\ apc' = [apc EXCEPT ![w] = ending[w]]
             \/ ~attached[RunOf[w]] /\ apc' = [apc EXCEPT ![w] = "error"]
          /\ UNCHANGED <<poolVars, loopVars, states, receipt, outcome, ending, save_attempt,
                         interrupted, agentVars>>
        BY <1>17 DEF GiveBackEnds, PoolGone
    <2>2. ending[w] \in Finished
        BY DEF QueueTypeOK
    <2>3. /\ \A v \in Works \ {w} : apc'[v] = apc[v]
          /\ \/ apc[w] = "notified" /\ apc'[w] = ending[w]
             \/ ~attached[RunOf[w]] /\ apc'[w] = "error"
        BY <2>1 DEF QueueTypeOK
    <2> QED
        BY <2>1, <2>2, <2>3
        DEF loopVars, agentVars, OnlyOf, AsksOfPool, AttemptMoves, Holding, SavePcs,
            Unsaved, BackInQueue, Finished
<1>18. ASSUME Interrupted(w) PROVE Goal
    <2>1. /\ apc[w] \in {"created", "executing", "requeue", "on_saved"}
          /\ \/ apc' = [apc EXCEPT ![w] = "error"] /\ UNCHANGED ending
             \/ Leave(w, "error")
          /\ UNCHANGED <<poolVars, loopVars, states, receipt, outcome, save_attempt,
                         interrupted, agentVars>>
        BY <1>18 DEF Interrupted
    <2>2. /\ \A v \in Works \ {w} : apc'[v] = apc[v] /\ ending'[v] = ending[v]
          /\ \/ apc'[w] = "error"
             \/ apc'[w] = "feedback" /\ ending'[w] = "error"
        BY <2>1, LeaveFields DEF QueueTypeOK
    <2> QED
        BY <2>1, <2>2
        DEF loopVars, agentVars, OnlyOf, AsksOfPool, AttemptMoves, Holding, SavePcs,
            Unsaved, BackInQueue, Finished
<1> QED
    BY <1>1, <1>2, <1>3, <1>4, <1>5, <1>6, <1>7, <1>8, <1>9, <1>10, <1>11, <1>12, <1>13,
       <1>14, <1>15, <1>16, <1>17, <1>18
    DEF AttemptStep

-----------------------------------------------------------------------------
(* How the queue calls the pool *)

(* While a run enqueues its works, its pool has not started. *)
NotStarted ==
    \A r \in Runs : qpc[r] = "enqueue" =>
        /\ mpc[r] = "off"
        /\ assignments[r] = <<>>
        /\ \A w \in WorksOf(r) : attempts[w] = 0 /\ apc[w] = "none"

(* The handlers leave the bus with the last step of a run, and the loop of the *)
(* pool stands by then.                                                        *)
OpenUntilOver == \A r \in Runs : ~attached[r] => qpc[r] \in Over
LoopStopped == \A r \in Runs : qpc[r] \in {"close"} \cup Over => ~LoopAlive(r)

Numbered ==
    \A w \in Works : /\ receipt[w] <= attempts[w]
                     /\ reservations[w] <= attempts[w]
                     /\ apc[w] # "none" => receipt[w] > 0

(* The reservation of a work is that of the attempt that will give it back. *)
SeatKept ==
    \A w \in Works : apc[w] \in Holding /\ attached[RunOf[w]] => reservations[w] = receipt[w]

RetryFits ==
    \A w \in Works : apc[w] = "requeue" /\ attached[RunOf[w]] => attempts[w] < MaxAttempts

(* An election under way is for the next attempt of its work. *)
ElectsNext ==
    \A r \in Runs : mpc[r] = "notify" =>
        electing[r].attempt = attempts[electing[r].work] + 1

(* A result not yet taken is newer than what the queue knows of its work, holds *)
(* the reservation of the work, and is the only one for it.                     *)
FreshAssignment(r, i) ==
    LET a == assignments[r][i] IN
    /\ RunOf[a.work] = r
    /\ receipt[a.work] < a.attempt
    /\ a.attempt <= attempts[a.work]
    /\ attached[r] => reservations[a.work] = a.attempt
    /\ apc[a.work] \notin Holding
    /\ \A j \in 1..Len(assignments[r]) : assignments[r][j].work = a.work => i = j
AssignmentsFresh ==
    \A r \in Runs : \A i \in 1..Len(assignments[r]) : FreshAssignment(r, i)

CallInv ==
    /\ NotStarted
    /\ OpenUntilOver
    /\ LoopStopped
    /\ Numbered
    /\ SeatKept
    /\ RetryFits
    /\ ElectsNext
    /\ AssignmentsFresh

BasicInv == TypeInv /\ LedgerInv /\ QueueTypeOK /\ CallInv

LEMMA BasicTypes == BasicInv => PoolTypeOK /\ QueueTypeOK /\ CallInv /\ LedgerInv
    BY DEF BasicInv, TypeInv

LEMMA BasicInit == Init => BasicInv
<1> SUFFICES ASSUME Init PROVE BasicInv
    OBVIOUS
<1>1. PoolInit
    BY DEF Init
<1>2. TypeInv /\ LedgerInv /\ QueueTypeOK
    BY <1>1, TypeInit, LedgerInit, QueueTypeInit
<1>3. CallInv
    BY <1>1 DEF Init, PoolInit, CallInv, NotStarted, OpenUntilOver, LoopStopped, Numbered,
                SeatKept, RetryFits, ElectsNext, AssignmentsFresh, Over, LoopAlive,
                Holding, SavePcs, WorksOf
<1> QED
    BY <1>2, <1>3 DEF BasicInv

LEMMA AliveIsOpen ==
    ASSUME CallInv, NEW r \in Runs, LoopAlive(r)
    PROVE  attached[r] /\ qpc[r] \notin {"enqueue", "close"} \cup Over
    BY DEF CallInv, NotStarted, OpenUntilOver, LoopStopped, LoopAlive

-----------------------------------------------------------------------------
(* Every step of the queue is a step its pool allows a caller *)

LEMMA AttemptCallsPool ==
    ASSUME BasicInv, NEW w \in Works, AttemptStep(w)
    PROVE  [PoolNext]_poolVars
<1>1. CASE UNCHANGED poolVars
    BY <1>1
<1>2. CASE StopElections(RunOf[w])
    BY <1>2, ModelElectionAssumption DEF PoolNext, Caller
<1>3. CASE apc[w] = "requeue" /\ Enqueue(w)
    <2>1. attempts[w] < MaxAttempts
        BY <1>3 DEF Enqueue, BasicInv, CallInv, RetryFits
    <2> QED
        BY <1>3, <2>1 DEF PoolNext, Caller
<1>4. CASE apc[w] = "feedback" /\ Feedback(w, receipt[w], outcome[w])
    <2>1. receipt[w] \in 1..attempts[w]
        <3>1. receipt[w] \in Nat /\ attempts[w] \in Nat
            BY DEF BasicInv, TypeInv, PoolTypeOK, QueueTypeOK
        <3>2. receipt[w] > 0 /\ receipt[w] <= attempts[w]
            BY <1>4 DEF BasicInv, CallInv, Numbered
        <3> QED
            BY <3>1, <3>2
    <2>2. PICK o \in {"retry", "saved"} : o = "retry" <=> outcome[w] = "retry"
        OBVIOUS
    <2>3. Feedback(w, receipt[w], o)
        BY <1>4, <2>2 DEF Feedback
    <2> QED
        BY <2>1, <2>3 DEF PoolNext, Caller
<1> QED
    BY <1>1, <1>2, <1>3, <1>4, AttemptLeads DEF AsksOfPool, BasicInv

LEMMA MainCallsPool ==
    ASSUME BasicInv, NEW r \in Runs, MainStep(r) \/ RequestCancel(r) \/ CancelledElsewhere(r)
    PROVE  [PoolNext]_poolVars
<1>1. ASSUME EnqueueNext(r) PROVE PoolNext
    <2> DEFINE w == WorkList[r][enqueued[r] + 1]
    <2>1. enqueued[r] + 1 \in 1..Len(WorkList[r])
        BY <1>1, ChapterWorkersAssumption DEF EnqueueNext, BasicInv, QueueTypeOK
    <2>2. w \in WorksOf(r)
        BY <2>1, ChapterWorkersAssumption
    <2>3. attempts[w] = 0
        BY <1>1, <2>2 DEF EnqueueNext, BasicInv, CallInv, NotStarted
    <2>4. w \in Works /\ Enqueue(w)
        BY <1>1, <2>2 DEF EnqueueNext, WorksOf
    <2>5. attempts[w] < MaxAttempts
        BY <2>3, ModelElectionAssumption
    <2> QED
        BY <2>4, <2>5 DEF PoolNext, Caller
<1>2. ASSUME LoopBegins(r) PROVE PoolNext
    BY <1>2 DEF LoopBegins, PoolNext, Caller
<1>3. ASSUME AttemptRaised(r) \/ CancelledInLoop(r) PROVE PoolNext
    BY <1>3 DEF AttemptRaised, CancelledInLoop, PoolNext, Caller
<1>4. ASSUME ModelTaskEnded(r) PROVE [PoolNext]_poolVars
    BY <1>4 DEF ModelTaskEnded, PoolNext, Caller
<1>5. ASSUME Reap(r) PROVE [PoolNext]_poolVars
    <2>1. StopElections(r) \/ UNCHANGED poolVars
        BY <1>5 DEF Reap
    <2> QED
        BY <2>1 DEF PoolNext, Caller
<1>6. ASSUME Dispatch(r) \/ DispatchRefused(r) PROVE PoolNext
    <2>1. \E stop \in BOOLEAN : TakeAssignment(r, stop)
        <3>1. CASE Dispatch(r)
            <4>1. \E stop : TakeAssignment(r, stop) /\ stop \in BOOLEAN
                BY <3>1 DEF Dispatch, StopsAtHead
            <4> QED
                BY <4>1
        <3>2. CASE DispatchRefused(r)
            BY <3>2 DEF DispatchRefused
        <3> QED
            BY <1>6, <3>1, <3>2
    <2> QED
        BY <2>1 DEF PoolNext, Caller
<1>7. ASSUME CancelModelTask(r) PROVE PoolNext
    BY <1>7 DEF CancelModelTask, PoolNext, Caller
<1>8. ASSUME ClosePool(r) PROVE PoolNext
    <2>1. ~LoopAlive(r) /\ Close(r)
        BY <1>8 DEF ClosePool, BasicInv, CallInv, LoopStopped
    <2> QED
        BY <2>1 DEF PoolNext, Caller
<1>9. ASSUME \/ \E w \in Works : TellCancel(r, w)
             \/ AllTold(r) \/ AllGathered(r) \/ RequestCancel(r) \/ CancelledElsewhere(r)
      PROVE  UNCHANGED poolVars
    BY <1>9 DEF TellCancel, AllTold, AllGathered, RequestCancel, CancelledElsewhere
<1> QED
    BY <1>1, <1>2, <1>3, <1>4, <1>5, <1>6, <1>7, <1>8, <1>9 DEF MainStep

LEMMA CallsPool ==
    ASSUME BasicInv, [Next]_vars
    PROVE  [PoolNext]_poolVars
<1>1. CASE UNCHANGED vars
    BY <1>1 DEF vars
<1>2. ASSUME NEW w \in Works, AgentEndsUnheard(w) PROVE UNCHANGED poolVars
    BY <1>2 DEF AgentEndsUnheard
<1>3. ASSUME \/ \E r \in Runs : LoopStep(r) /\ UNCHANGED queueVars
             \/ Surroundings /\ UNCHANGED queueVars
      PROVE  PoolNext
    BY <1>3 DEF PoolNext
<1> QED
    BY <1>1, <1>2, <1>3, AttemptCallsPool, MainCallsPool DEF Next

-----------------------------------------------------------------------------
(* The calls keep their invariant *)

(* A step that hands nothing out, begins no attempt, keeps the reservations of *)
(* the attempts that hold one and does not close a pool.                       *)
CallsQuiet ==
    /\ UNCHANGED <<receipt, attempts, electing, assignments, attached>>
    /\ \A r \in Runs : /\ qpc'[r] = "enqueue" => qpc[r] = "enqueue" /\ mpc'[r] = mpc[r]
                       /\ qpc[r] \in Over => qpc'[r] \in Over
                       /\ qpc'[r] \in {"close"} \cup Over => mpc'[r] \notin {"poll", "notify"}
                       /\ mpc'[r] = "notify" => mpc[r] = "notify"
    /\ \A w \in Works :
          /\ apc'[w] \in Holding => apc[w] \in Holding /\ reservations'[w] = reservations[w]
          /\ apc[w] \notin Holding => reservations'[w] = reservations[w]
          /\ reservations'[w] \in {0, reservations[w]}
          /\ apc'[w] # "none" => apc[w] # "none"
          /\ apc'[w] = "requeue" => apc[w] = "requeue" \/ attempts[w] < MaxAttempts

LEMMA AssignmentType ==
    ASSUME PoolTypeOK, NEW r \in Runs, NEW i \in 1..Len(assignments[r])
    PROVE  /\ assignments[r][i] \in Assignment
           /\ assignments[r][i].work \in Works
           /\ assignments[r][i].attempt \in Nat
<1>1. assignments[r] \in Seq(Assignment)
    BY DEF PoolTypeOK
<1>2. assignments[r][i] \in Assignment
    BY <1>1
<1> QED
    BY <1>2 DEF Assignment

LEMMA QuietKeepsCalls ==
    ASSUME BasicInv, CallsQuiet
    PROVE  CallInv'
<1>0. PoolTypeOK /\ QueueTypeOK /\ CallInv
    BY BasicTypes
<1>1. UNCHANGED <<receipt, attempts, electing, assignments, attached>>
    BY DEF CallsQuiet
<1>2. NotStarted'
    <2>1. SUFFICES ASSUME NEW r \in Runs, qpc'[r] = "enqueue"
                   PROVE  /\ mpc'[r] = "off"
                          /\ assignments'[r] = <<>>
                          /\ \A w \in WorksOf(r) : attempts'[w] = 0 /\ apc'[w] = "none"
        BY DEF NotStarted
    <2>2. qpc[r] = "enqueue" /\ mpc'[r] = mpc[r]
        BY <2>1 DEF CallsQuiet
    <2>3. \A w \in WorksOf(r) : apc[w] = "none" => apc'[w] = "none"
        BY DEF CallsQuiet, WorksOf
    <2> QED
        BY <1>0, <1>1, <2>2, <2>3 DEF CallInv, NotStarted
<1>3. OpenUntilOver' /\ LoopStopped'
    BY <1>0, <1>1 DEF CallsQuiet, CallInv, OpenUntilOver, LoopStopped, LoopAlive
<1>4. Numbered'
    <2>1. SUFFICES ASSUME NEW w \in Works
                   PROVE  /\ receipt'[w] <= attempts'[w]
                          /\ reservations'[w] <= attempts'[w]
                          /\ apc'[w] # "none" => receipt'[w] > 0
        BY DEF Numbered
    <2>2. reservations'[w] \in {0, reservations[w]} /\ (apc'[w] # "none" => apc[w] # "none")
        BY DEF CallsQuiet
    <2>3. attempts[w] \in Nat
        BY <1>0 DEF PoolTypeOK
    <2> QED
        BY <1>0, <1>1, <2>2, <2>3 DEF CallInv, Numbered
<1>5. SeatKept' /\ RetryFits'
    BY <1>0, <1>1 DEF CallsQuiet, CallInv, SeatKept, RetryFits, Holding
<1>6. ElectsNext'
    BY <1>0, <1>1 DEF CallsQuiet, CallInv, ElectsNext
<1>7. AssignmentsFresh'
    <2>1. SUFFICES ASSUME NEW r \in Runs, NEW i \in 1..Len(assignments[r])
                   PROVE  FreshAssignment(r, i)'
        BY <1>1 DEF AssignmentsFresh
    <2>2. FreshAssignment(r, i)
        BY <1>0 DEF CallInv, AssignmentsFresh
    <2> DEFINE v == assignments[r][i].work
    <2>3. v \in Works
        BY <1>0, AssignmentType
    <2>4. apc[v] \notin Holding
        BY <2>2 DEF FreshAssignment
    <2>5. apc'[v] \notin Holding /\ reservations'[v] = reservations[v]
        BY <2>3, <2>4 DEF CallsQuiet
    <2> QED
        BY <1>1, <2>2, <2>5 DEF FreshAssignment
<1> QED
    BY <1>2, <1>3, <1>4, <1>5, <1>6, <1>7 DEF CallInv

(* A step that leaves the works and the pool alone, and only moves the main loop. *)
LEMMA SteeringIsQuiet ==
    ASSUME BasicInv,
           UNCHANGED <<receipt, attempts, electing, assignments, attached, reservations, apc>>,
           NEW r \in Runs, NEW p, NEW q,
           qpc' = [qpc EXCEPT ![r] = q], q # "enqueue", qpc[r] \in Over => q \in Over,
           mpc' = [mpc EXCEPT ![r] = p], p # "notify" \/ p = mpc[r],
           q \in {"close"} \cup Over => p \notin {"poll", "notify"}
    PROVE  CallsQuiet
<1>0. PoolTypeOK /\ QueueTypeOK /\ CallInv
    BY BasicTypes
<1>1. \A o \in Runs : /\ qpc'[o] = IF o = r THEN q ELSE qpc[o]
                      /\ mpc'[o] = IF o = r THEN p ELSE mpc[o]
    BY <1>0 DEF QueueTypeOK, PoolTypeOK
<1>2. \A o \in Runs : qpc[o] \in {"close"} \cup Over => mpc[o] \notin {"poll", "notify"}
    BY <1>0 DEF CallInv, LoopStopped, LoopAlive
<1> QED
    BY <1>1, <1>2 DEF CallsQuiet

(* The same without a step of the main loop. *)
LEMMA StandingIsQuiet ==
    ASSUME BasicInv, UNCHANGED <<receipt, attempts, electing, assignments, attached, qpc, mpc>>,
           \A w \in Works :
              /\ apc'[w] \in Holding =>
                    apc[w] \in Holding /\ reservations'[w] = reservations[w]
              /\ apc[w] \notin Holding => reservations'[w] = reservations[w]
              /\ reservations'[w] \in {0, reservations[w]}
              /\ apc'[w] # "none" => apc[w] # "none"
              /\ apc'[w] = "requeue" => apc[w] = "requeue" \/ attempts[w] < MaxAttempts
    PROVE  CallsQuiet
    BY DEF CallsQuiet, BasicInv, CallInv, LoopStopped, LoopAlive

LEMMA AttemptIsQuiet ==
    ASSUME BasicInv, NEW w \in Works, AttemptStep(w)
    PROVE  CallsQuiet
<1>0. PoolTypeOK /\ QueueTypeOK /\ CallInv
    BY BasicTypes
<1>1. OnlyOf(w) /\ AsksOfPool(w) /\ AttemptMoves(w)
    BY <1>0, AttemptLeads
<1>2. UNCHANGED <<attempts, electing, assignments, attached, mpc>>
    BY <1>1 DEF AsksOfPool, poolVars, StopElections, Enqueue, Feedback
<1>3. \A v \in Works \ {w} : reservations'[v] = reservations[v]
    BY <1>0, <1>1 DEF AsksOfPool, poolVars, StopElections, Enqueue, Feedback, PoolTypeOK
<1>4. \/ reservations'[w] = reservations[w]
      \/ reservations'[w] = 0 /\ apc[w] = "feedback" /\ apc'[w] \notin Holding
    BY <1>0, <1>1 DEF AsksOfPool, poolVars, StopElections, Enqueue, Feedback, PoolTypeOK
<1>5. \A v \in Works :
         /\ apc'[v] \in Holding => apc[v] \in Holding /\ reservations'[v] = reservations[v]
         /\ apc[v] \notin Holding => reservations'[v] = reservations[v]
         /\ reservations'[v] \in {0, reservations[v]}
         /\ apc'[v] # "none" => apc[v] # "none"
         /\ apc'[v] = "requeue" => apc[v] = "requeue" \/ attempts[v] < MaxAttempts
    BY <1>1, <1>3, <1>4 DEF OnlyOf, AttemptMoves, Holding
<1> QED
    BY <1>1, <1>2, <1>5, StandingIsQuiet DEF OnlyOf

LEMMA PoolQuiet ==
    ASSUME BasicInv, NEW r \in Runs, UNCHANGED queueVars,
           \/ \E w \in Works : ElectionFails(r, w)
           \/ LoopEnds(r) \/ LoopCrashes(r) \/ Surroundings
    PROVE  CallsQuiet
<1>0. PoolTypeOK /\ QueueTypeOK /\ CallInv
    BY BasicTypes
<1>1. UNCHANGED <<receipt, qpc, apc>>
    BY DEF queueVars, loopVars, attemptVars
<1>2. ASSUME Surroundings PROVE CallsQuiet
    <2>1. UNCHANGED <<attempts, electing, assignments, attached, mpc, reservations>>
        BY <1>2 DEF Surroundings, CoolingEnds, ScoreDrops, ScoreRecovers, Reconfigure
    <2> QED
        BY <1>1, <2>1, StandingIsQuiet
<1>3. ASSUME (\E w \in Works : ElectionFails(r, w)) \/ LoopEnds(r) \/ LoopCrashes(r)
      PROVE  CallsQuiet
    <2>1. /\ LoopAlive(r)
          /\ UNCHANGED <<attempts, electing, assignments, attached, reservations>>
        BY <1>3 DEF ElectionFails, AtHead, LoopEnds, LoopCrashes, LoopAlive
    <2>2. PICK p \in {"error", "exhausted", "ended", "crashed", mpc[r]} :
             mpc' = [mpc EXCEPT ![r] = p]
        BY <1>3 DEF ElectionFails, LoopEnds, LoopCrashes
    <2>3. qpc[r] \notin {"enqueue", "close"} \cup Over
        BY <1>0, <2>1, AliveIsOpen
    <2>4. qpc' = [qpc EXCEPT ![r] = qpc[r]]
        BY <1>0, <1>1 DEF QueueTypeOK
    <2> QED
        BY <1>1, <2>1, <2>2, <2>3, <2>4, SteeringIsQuiet
<1> QED
    BY <1>2, <1>3

LEMMA MainQuiet ==
    ASSUME BasicInv, NEW r \in Runs,
           \/ EnqueueNext(r) \/ LoopBegins(r)
           \/ AttemptRaised(r) \/ ModelTaskEnded(r) \/ Reap(r)
           \/ CancelledInLoop(r)
           \/ \E w \in Works : TellCancel(r, w)
           \/ AllTold(r) \/ AllGathered(r) \/ CancelModelTask(r)
           \/ RequestCancel(r) \/ CancelledElsewhere(r)
    PROVE  CallsQuiet
<1>0. PoolTypeOK /\ QueueTypeOK /\ CallInv
    BY BasicTypes
<1>a. qpc \in [Runs -> LoopPcs] /\ mpc \in [Runs -> LoopStates]
    BY <1>0 DEF QueueTypeOK, PoolTypeOK
<1>b. mpc = [mpc EXCEPT ![r] = mpc[r]] /\ qpc = [qpc EXCEPT ![r] = qpc[r]]
    BY <1>a
<1>1. ASSUME EnqueueNext(r) PROVE CallsQuiet
    <2>1. UNCHANGED <<receipt, attempts, electing, assignments, attached, qpc, mpc,
                      reservations, apc>>
        BY <1>1 DEF EnqueueNext, Enqueue
    <2> QED
        BY <2>1, StandingIsQuiet
<1>2. ASSUME LoopBegins(r) PROVE CallsQuiet
    <2>1. /\ UNCHANGED <<receipt, attempts, electing, assignments, attached, reservations, apc>>
          /\ qpc' = [qpc EXCEPT ![r] = "loop"]
          /\ mpc' = [mpc EXCEPT ![r] = "poll"]
          /\ qpc[r] = "enqueue"
        BY <1>2 DEF LoopBegins, StartLoop, attemptVars
    <2> QED
        BY <2>1, SteeringIsQuiet DEF Over
<1>3. ASSUME AttemptRaised(r) \/ CancelledInLoop(r) PROVE CallsQuiet
    <2>1. /\ UNCHANGED <<receipt, attempts, electing, assignments, attached, reservations, apc>>
          /\ qpc' = [qpc EXCEPT ![r] = "stopping"]
          /\ mpc' = mpc
          /\ qpc[r] = "loop"
        BY <1>3 DEF AttemptRaised, CancelledInLoop, Raise, StopElections, attemptVars
    <2> QED
        BY <1>b, <2>1, SteeringIsQuiet DEF Over
<1>4. ASSUME ModelTaskEnded(r) PROVE CallsQuiet
    <2>1. PICK q \in {"stopping", "gather"} : qpc' = [qpc EXCEPT ![r] = q]
        BY <1>4 DEF ModelTaskEnded, Raise
    <2>2. /\ UNCHANGED <<receipt, attempts, electing, assignments, attached, reservations, apc>>
          /\ mpc' = mpc
          /\ qpc[r] = "loop"
        BY <1>4 DEF ModelTaskEnded, StopElections, poolVars, attemptVars
    <2> QED
        BY <1>b, <2>1, <2>2, SteeringIsQuiet DEF Over
<1>5. ASSUME Reap(r) PROVE CallsQuiet
    <2>1. PICK q \in {"loop", "finally", "stopping"} : qpc' = [qpc EXCEPT ![r] = q]
        <3>1. qpc[r] = "loop" /\ \E count : LoopHead(r, count, Unfinished(r))
            BY <1>5 DEF Reap
        <3> QED
            BY <1>b, <3>1 DEF LoopHead, Raise
    <2>2. /\ UNCHANGED <<receipt, attempts, electing, assignments, attached, reservations>>
          /\ mpc' = mpc
          /\ qpc[r] = "loop"
        BY <1>5 DEF Reap, StopElections, poolVars
    <2>3. \A w \in Works : apc'[w] \in {"none", apc[w]}
        BY <1>5 DEF Reap
    <2>4. \A o \in Runs : qpc'[o] = IF o = r THEN q ELSE qpc[o]
        BY <1>a, <2>1
    <2> QED
        BY <1>0, <2>2, <2>3, <2>4
        DEF CallsQuiet, CallInv, LoopStopped, LoopAlive, Over, Holding, SavePcs
<1>6. ASSUME (\E w \in Works : TellCancel(r, w)) \/ RequestCancel(r) PROVE CallsQuiet
    <2>1. UNCHANGED <<receipt, attempts, electing, assignments, attached, qpc, mpc,
                      reservations, apc>>
        BY <1>6 DEF TellCancel, RequestCancel, poolVars, attemptVars
    <2> QED
        BY <2>1, StandingIsQuiet
<1>7. ASSUME AllTold(r) \/ AllGathered(r) PROVE CallsQuiet
    <2>1. PICK q \in {"gather", "finally"} : qpc' = [qpc EXCEPT ![r] = q]
        BY <1>7 DEF AllTold, AllGathered
    <2>2. /\ UNCHANGED <<receipt, attempts, electing, assignments, attached, reservations, apc>>
          /\ mpc' = mpc
          /\ qpc[r] \in {"stopping", "gather"}
        BY <1>7 DEF AllTold, AllGathered, poolVars, attemptVars
    <2> QED
        BY <1>b, <2>1, <2>2, SteeringIsQuiet DEF Over
<1>8. ASSUME CancelModelTask(r) PROVE CallsQuiet
    <2> DEFINE p == IF LoopAlive(r) THEN "cancelled" ELSE mpc[r]
    <2>1. /\ UNCHANGED <<receipt, attempts, electing, assignments, attached, reservations, apc>>
          /\ qpc' = [qpc EXCEPT ![r] = "close"]
          /\ mpc' = [mpc EXCEPT ![r] = p]
          /\ qpc[r] = "finally"
        BY <1>8 DEF CancelModelTask, CancelLoop, attemptVars
    <2>2. p \notin {"poll", "notify"}
        BY DEF LoopAlive
    <2> HIDE DEF p
    <2> QED
        BY <2>1, <2>2, SteeringIsQuiet DEF Over
<1>9. ASSUME CancelledElsewhere(r) PROVE CallsQuiet
    <2>1. UNCHANGED <<receipt, attempts, electing, assignments, attached, reservations, apc, mpc>>
        BY <1>9 DEF CancelledElsewhere, poolVars
    <2>2. PICK q \in {"raised", "finally", "gather"} : 
             /\ qpc' = [qpc EXCEPT ![r] = q]
             /\ q = "raised" => qpc[r] \in {"enqueue", "close"}
             /\ qpc[r] \notin Over
        BY <1>9, <1>b DEF CancelledElsewhere, Over
    <2>3. q = "raised" => mpc[r] \notin {"poll", "notify"}
        BY <1>0, <2>2 DEF CallInv, NotStarted, LoopStopped, LoopAlive
    <2> QED
        BY <1>b, <2>1, <2>2, <2>3, SteeringIsQuiet DEF Over
<1> QED
    BY <1>1, <1>2, <1>3, <1>4, <1>5, <1>6, <1>7, <1>8, <1>9

LEMMA CloseKeepsCalls ==
    ASSUME BasicInv, NEW r \in Runs, ClosePool(r)
    PROVE  CallInv'
<1>0. PoolTypeOK /\ QueueTypeOK /\ CallInv
    BY BasicTypes
<1>1. /\ UNCHANGED <<receipt, attempts, electing, assignments, apc, mpc>>
      /\ qpc[r] = "close"
      /\ attached' = [attached EXCEPT ![r] = FALSE]
      /\ reservations' = [w \in Works |-> IF RunOf[w] = r THEN 0 ELSE reservations[w]]
    BY DEF ClosePool, Close, attemptVars
<1>2. PICK q \in Over : qpc' = [qpc EXCEPT ![r] = q]
    BY DEF ClosePool, Over
<1>3. \A o \in Runs : /\ qpc'[o] = IF o = r THEN q ELSE qpc[o]
                      /\ attached'[o] = IF o = r THEN FALSE ELSE attached[o]
    BY <1>0, <1>1, <1>2 DEF QueueTypeOK, PoolTypeOK
<1>4. NotStarted'
    BY <1>0, <1>1, <1>3 DEF CallInv, NotStarted, Over
<1>5. OpenUntilOver' /\ LoopStopped'
    BY <1>0, <1>1, <1>3 DEF CallInv, OpenUntilOver, LoopStopped, LoopAlive
<1>6. Numbered'
    BY <1>0, <1>1 DEF CallInv, Numbered, PoolTypeOK
<1>7. SeatKept' /\ RetryFits'
    <2>1. \A w \in Works : attached'[RunOf[w]] =>
             attached[RunOf[w]] /\ reservations'[w] = reservations[w]
        BY <1>1, <1>3, ModelElectionAssumption
    <2> QED
        BY <1>0, <1>1, <2>1 DEF CallInv, SeatKept, RetryFits
<1>8. ElectsNext'
    BY <1>0, <1>1 DEF CallInv, ElectsNext
<1>9. AssignmentsFresh'
    <2>1. SUFFICES ASSUME NEW o \in Runs, NEW i \in 1..Len(assignments[o])
                   PROVE  FreshAssignment(o, i)'
        BY <1>1 DEF AssignmentsFresh
    <2>2. FreshAssignment(o, i)
        BY <1>0 DEF CallInv, AssignmentsFresh
    <2>3. assignments[o][i].work \in Works
        BY <1>0, AssignmentType
    <2>4. attached'[o] => attached[o] /\ o # r
        BY <1>3
    <2>5. RunOf[assignments[o][i].work] = o
        BY <2>2 DEF FreshAssignment
    <2>6. attached'[o] => reservations'[assignments[o][i].work]
                            = reservations[assignments[o][i].work]
        BY <1>1, <2>3, <2>4, <2>5
    <2> QED
        BY <1>1, <2>2, <2>4, <2>6 DEF FreshAssignment
<1> QED
    BY <1>4, <1>5, <1>6, <1>7, <1>8, <1>9 DEF CallInv

(* Taking the oldest result. *)
LEMMA HeadAssignment ==
    ASSUME BasicInv, NEW r \in Runs, assignments[r] # <<>>
    PROVE  /\ Head(assignments[r]) = assignments[r][1]
           /\ 1 \in 1..Len(assignments[r])
           /\ FreshAssignment(r, 1)
           /\ Head(assignments[r]) \in Assignment
           /\ Head(assignments[r]).work \in WorksOf(r)
           /\ Head(assignments[r]).attempt \in Nat
<1>0. PoolTypeOK /\ CallInv
    BY BasicTypes
<1>1. assignments[r] \in Seq(Assignment)
    BY <1>0 DEF PoolTypeOK
<1>2. Head(assignments[r]) = assignments[r][1] /\ 1 \in 1..Len(assignments[r])
    BY <1>1
<1>3. FreshAssignment(r, 1)
    BY <1>0, <1>2 DEF CallInv, AssignmentsFresh
<1>4. assignments[r][1].work \in Works
    BY <1>0, <1>2, AssignmentType
<1> QED
    BY <1>0, <1>2, <1>3, <1>4, AssignmentType DEF FreshAssignment, WorksOf

(* Whatever comes of the oldest result, the others stay as they are: at most its *)
(* own work gets an attempt.                                                     *)
LEMMA TakingKeepsFresh ==
    ASSUME BasicInv, NEW r \in Runs, assignments[r] # <<>>,
           assignments' = [assignments EXCEPT ![r] = Tail(@)],
           UNCHANGED <<attempts, reservations, attached>>,
           \A v \in Works \ {Head(assignments[r]).work} :
               receipt'[v] = receipt[v] /\ (apc'[v] \in Holding => apc[v] \in Holding)
    PROVE  AssignmentsFresh'
<1>0. PoolTypeOK /\ CallInv
    BY BasicTypes
<1> DEFINE w == Head(assignments[r]).work
<1>1. FreshAssignment(r, 1) /\ w = assignments[r][1].work /\ RunOf[w] = r
    BY HeadAssignment DEF FreshAssignment
<1>2. SUFFICES ASSUME NEW o \in Runs, NEW i \in 1..Len(assignments'[o])
               PROVE  FreshAssignment(o, i)'
    BY DEF AssignmentsFresh
<1>3. CASE o # r
    <2>1. assignments'[o] = assignments[o] /\ i \in 1..Len(assignments[o])
        BY <1>0, <1>3, TailAssignments
    <2>2. FreshAssignment(o, i)
        BY <1>0, <2>1 DEF CallInv, AssignmentsFresh
    <2>3. assignments[o][i].work \in Works \ {w}
        BY <1>0, <1>1, <1>3, <2>1, <2>2, AssignmentType DEF FreshAssignment
    <2> QED
        BY <2>1, <2>2, <2>3 DEF FreshAssignment
<1>4. CASE o = r
    <2>1. /\ i + 1 \in 1..Len(assignments[r])
          /\ assignments'[r][i] = assignments[r][i + 1]
          /\ \A j \in 1..Len(assignments'[r]) :
                j + 1 \in 1..Len(assignments[r]) /\ assignments'[r][j] = assignments[r][j + 1]
        BY <1>0, <1>4, TailAssignments
    <2>2. FreshAssignment(r, i + 1)
        BY <1>0, <2>1 DEF CallInv, AssignmentsFresh
    <2>3. assignments[r][i + 1].work # w
        <3>1. 1 \in 1..Len(assignments[r])
            BY HeadAssignment
        <3>2. i + 1 # 1
            BY <1>2
        <3> QED
            BY <1>1, <2>2, <3>1, <3>2 DEF FreshAssignment
    <2>4. assignments[r][i + 1].work \in Works
        BY <1>0, <2>1, AssignmentType
    <2>5. \A j \in 1..Len(assignments'[r]) :
             assignments'[r][j].work = assignments'[r][i].work => i = j
        <3>1. SUFFICES ASSUME NEW j \in 1..Len(assignments'[r]),
                              assignments'[r][j].work = assignments'[r][i].work
                       PROVE  i = j
            OBVIOUS
        <3>2. i + 1 = j + 1
            BY <2>1, <2>2, <3>1 DEF FreshAssignment
        <3> QED
            BY <1>2, <3>1, <3>2
    <2> QED
        BY <1>4, <2>1, <2>2, <2>3, <2>4, <2>5 DEF FreshAssignment
<1> QED
    BY <1>3, <1>4

LEMMA DispatchKeepsCalls ==
    ASSUME BasicInv, NEW r \in Runs, Dispatch(r) \/ DispatchRefused(r)
    PROVE  CallInv'
<1>0. PoolTypeOK /\ QueueTypeOK /\ CallInv
    BY BasicTypes
<1> DEFINE a == Head(assignments[r])
           w == a.work
<1>1. /\ assignments[r] # <<>>
      /\ assignments' = [assignments EXCEPT ![r] = Tail(@)]
      /\ UNCHANGED <<attempts, reservations, attached, electing, mpc>>
      /\ qpc[r] = "loop"
      /\ LoopAlive(r)
    BY DEF Dispatch, DispatchRefused, TakeAssignment
<1>2. FreshAssignment(r, 1) /\ a = assignments[r][1] /\ w \in WorksOf(r) /\ a.attempt \in Nat
    BY <1>1, HeadAssignment
<1>3. \/ receipt' = [receipt EXCEPT ![w] = a.attempt]
      \/ receipt' = receipt /\ apc'[w] \in {"none", apc[w]}
    BY <1>2 DEF Dispatch, DispatchRefused, WorksOf
<1>4. \A v \in Works \ {w} : apc'[v] \in {"none", apc[v]}
    BY DEF Dispatch, DispatchRefused
<1>5. apc'[w] \in {"none", apc[w], "created"}
    BY <1>2 DEF Dispatch, DispatchRefused, WorksOf
<1>6. \A v \in Works \ {w} : receipt'[v] = receipt[v]
    BY <1>0, <1>3 DEF QueueTypeOK
<1>7. /\ \A o \in Runs \ {r} : qpc'[o] = qpc[o]
      /\ qpc'[r] \in {"loop", "finally", "stopping"}
    <2>1. \E count, running : LoopHead(r, count, running) \/ Raise(r, running)
        BY DEF Dispatch, DispatchRefused
    <2> QED
        BY <1>0, <1>1, <2>1 DEF LoopHead, Raise, QueueTypeOK
<1>8. NotStarted'
    <2>1. SUFFICES ASSUME NEW o \in Runs, qpc'[o] = "enqueue"
                   PROVE  /\ mpc'[o] = "off"
                          /\ assignments'[o] = <<>>
                          /\ \A v \in WorksOf(o) : attempts'[v] = 0 /\ apc'[v] = "none"
        BY DEF NotStarted
    <2>2. o # r /\ qpc[o] = "enqueue"
        BY <1>7, <2>1
    <2>3. assignments'[o] = assignments[o]
        BY <1>0, <1>1, <2>2 DEF PoolTypeOK
    <2>4. \A v \in WorksOf(o) : v \in Works \ {w}
        BY <1>2, <2>2 DEF WorksOf
    <2> QED
        BY <1>0, <1>1, <1>4, <2>2, <2>3, <2>4 DEF CallInv, NotStarted
<1>9. OpenUntilOver' /\ LoopStopped'
    <2>1. attached[r]
        BY <1>0, <1>1, AliveIsOpen
    <2> QED
        BY <1>0, <1>1, <1>7, <2>1 DEF CallInv, OpenUntilOver, LoopStopped, LoopAlive, Over
<1>10. ElectsNext'
    BY <1>0, <1>1 DEF CallInv, ElectsNext
<1>11. w \in Works /\ RunOf[w] = r /\ receipt[w] < a.attempt /\ a.attempt <= attempts[w]
       /\ (attached[r] => reservations[w] = a.attempt) /\ apc[w] \notin Holding
    BY <1>2 DEF FreshAssignment, WorksOf
<1>12. Numbered'
    <2>1. SUFFICES ASSUME NEW v \in Works
                   PROVE  /\ receipt'[v] <= attempts'[v]
                          /\ reservations'[v] <= attempts'[v]
                          /\ apc'[v] # "none" => receipt'[v] > 0
        BY DEF Numbered
    <2>2. /\ receipt[v] <= attempts[v]
          /\ reservations[v] <= attempts[v]
          /\ apc[v] # "none" => receipt[v] > 0
        BY <1>0 DEF CallInv, Numbered
    <2>3. CASE v # w
        BY <1>1, <1>4, <1>6, <2>2, <2>3
    <2>4. CASE v = w /\ receipt' = [receipt EXCEPT ![w] = a.attempt]
        <3>1. receipt'[w] = a.attempt
            BY <1>0, <1>11, <2>4 DEF QueueTypeOK
        <3>2. receipt[w] \in Nat
            BY <1>0, <1>11 DEF QueueTypeOK
        <3>3. a.attempt > 0
            BY <1>2, <1>11, <3>2
        <3> QED
            BY <1>1, <1>11, <2>2, <2>4, <3>1, <3>3
    <2>5. CASE v = w /\ receipt' = receipt /\ apc'[w] \in {"none", apc[w]}
        BY <1>1, <2>2, <2>5
    <2> QED
        BY <1>3, <2>3, <2>4, <2>5
<1>13. SeatKept' /\ RetryFits'
    <2>1. SUFFICES ASSUME NEW v \in Works
                   PROVE  /\ apc'[v] \in Holding /\ attached'[RunOf[v]] =>
                                reservations'[v] = receipt'[v]
                          /\ apc'[v] = "requeue" /\ attached'[RunOf[v]] =>
                                attempts'[v] < MaxAttempts
        BY DEF SeatKept, RetryFits
    <2>2. CASE v # w
        BY <1>0, <1>1, <1>4, <1>6, <2>2 DEF CallInv, SeatKept, RetryFits, Holding, SavePcs
    <2>3. CASE v = w /\ receipt' = [receipt EXCEPT ![w] = a.attempt]
        <3>1. receipt'[w] = a.attempt
            BY <1>0, <1>11, <2>3 DEF QueueTypeOK
        <3> QED
            BY <1>1, <1>5, <1>11, <2>3, <3>1 DEF Holding
    <2>4. CASE v = w /\ receipt' = receipt /\ apc'[w] \in {"none", apc[w]}
        BY <1>11, <2>4 DEF Holding, SavePcs
    <2> QED
        BY <1>3, <2>2, <2>3, <2>4
<1>14. AssignmentsFresh'
    <2>1. \A v \in Works \ {w} :
             receipt'[v] = receipt[v] /\ (apc'[v] \in Holding => apc[v] \in Holding)
        BY <1>4, <1>6 DEF Holding, SavePcs
    <2> QED
        BY <1>1, <2>1, TakingKeepsFresh
<1> QED
    BY <1>8, <1>9, <1>10, <1>12, <1>13, <1>14 DEF CallInv

(* The publication of a result: the work has no reservation, so none of its *)
(* attempts holds a seat and no older result of it waits.                   *)
LEMMA HandOutKeepsCalls ==
    ASSUME BasicInv, NEW r \in Runs, NEW a \in Assignment, LoopAlive(r),
           RunOf[a.work] = r, reservations[a.work] = 0,
           a.attempt = attempts[a.work] + 1, HandOut(r, a),
           UNCHANGED <<receipt, apc, attached>>
    PROVE  Numbered' /\ SeatKept' /\ RetryFits' /\ AssignmentsFresh'
<1>0. PoolTypeOK /\ QueueTypeOK /\ CallInv
    BY BasicTypes
<1> DEFINE w == a.work
<1>1. w \in Works /\ a.attempt \in Nat /\ attempts[w] \in Nat
    BY <1>0 DEF Assignment, PoolTypeOK
<1>2. attached[r]
    BY <1>0, AliveIsOpen
<1>3. apc[w] \notin Holding
    <2>1. apc[w] \in Holding => reservations[w] = receipt[w] /\ receipt[w] > 0
        BY <1>0, <1>1, <1>2 DEF CallInv, SeatKept, Numbered, Holding, SavePcs
    <2> QED
        BY <2>1
<1>4. /\ \A v \in Works : reservations'[v] = IF v = w THEN a.attempt ELSE reservations[v]
      /\ \A v \in Works : attempts'[v] = IF v = w THEN a.attempt ELSE attempts[v]
    BY <1>0 DEF HandOut, PoolTypeOK
<1>5. receipt[w] < a.attempt /\ receipt[w] \in Nat
    <2>1. receipt[w] <= attempts[w] /\ receipt[w] \in Nat
        BY <1>0, <1>1 DEF CallInv, Numbered, QueueTypeOK
    <2> QED
        BY <1>1, <2>1
<1>6. Numbered'
    <2>1. SUFFICES ASSUME NEW v \in Works
                   PROVE  /\ receipt'[v] <= attempts'[v]
                          /\ reservations'[v] <= attempts'[v]
                          /\ apc'[v] # "none" => receipt'[v] > 0
        BY DEF Numbered
    <2>2. /\ receipt[v] <= attempts[v]
          /\ reservations[v] <= attempts[v]
          /\ apc[v] # "none" => receipt[v] > 0
        BY <1>0 DEF CallInv, Numbered
    <2>3. CASE v # w
        BY <1>4, <2>2, <2>3
    <2>4. CASE v = w
        BY <1>1, <1>4, <1>5, <2>2, <2>4
    <2> QED
        BY <2>3, <2>4
<1>7. SeatKept' /\ RetryFits'
    <2>1. SUFFICES ASSUME NEW v \in Works
                   PROVE  /\ apc'[v] \in Holding /\ attached'[RunOf[v]] =>
                                reservations'[v] = receipt'[v]
                          /\ apc'[v] = "requeue" /\ attached'[RunOf[v]] =>
                                attempts'[v] < MaxAttempts
        BY DEF SeatKept, RetryFits
    <2>2. CASE v # w
        BY <1>0, <1>4, <2>2 DEF CallInv, SeatKept, RetryFits
    <2>3. CASE v = w
        BY <1>3, <2>3 DEF Holding
    <2> QED
        BY <2>2, <2>3
<1>8. AssignmentsFresh'
    <2>1. SUFFICES ASSUME NEW o \in Runs, NEW i \in 1..Len(assignments'[o])
                   PROVE  FreshAssignment(o, i)'
        BY DEF AssignmentsFresh
    <2> DEFINE n == Len(assignments[r])
    <2>2. /\ \A p \in Runs \ {r} : assignments'[p] = assignments[p]
          /\ assignments'[r] = Append(assignments[r], a)
          /\ assignments[r] \in Seq(Assignment)
        BY <1>0 DEF HandOut, PoolTypeOK
    <2>3. /\ n \in Nat
          /\ Len(assignments'[r]) = n + 1
          /\ \A j \in 1..n : assignments'[r][j] = assignments[r][j]
          /\ assignments'[r][n + 1] = a
        BY <2>2
    <2>4. \A p \in Runs : \A j \in 1..Len(assignments[p]) :
             assignments[p][j].work \in Works \ {w}
        <3>1. SUFFICES ASSUME NEW p \in Runs, NEW j \in 1..Len(assignments[p]),
                              assignments[p][j].work = w
                       PROVE  FALSE
            BY <1>0, AssignmentType
        <3>2. FreshAssignment(p, j)
            BY <1>0 DEF CallInv, AssignmentsFresh
        <3>3. assignments[p][j].attempt = 0 /\ receipt[w] < assignments[p][j].attempt
            BY <1>2, <3>1, <3>2 DEF FreshAssignment
        <3> QED
            BY <1>5, <3>3
    <2>5. CASE o # r
        <3>1. assignments'[o] = assignments[o] /\ i \in 1..Len(assignments[o])
            BY <2>1, <2>2, <2>5
        <3>2. FreshAssignment(o, i)
            BY <1>0, <3>1 DEF CallInv, AssignmentsFresh
        <3>3. assignments[o][i].work \in Works \ {w}
            BY <2>4, <3>1
        <3>4. /\ attempts'[assignments[o][i].work] = attempts[assignments[o][i].work]
              /\ reservations'[assignments[o][i].work] = reservations[assignments[o][i].work]
            BY <1>4, <3>3
        <3> QED
            BY <3>1, <3>2, <3>4 DEF FreshAssignment
    <2>6. CASE o = r /\ i \in 1..n
        <3>1. FreshAssignment(r, i)
            BY <1>0, <2>6 DEF CallInv, AssignmentsFresh
        <3>2. assignments[r][i].work \in Works \ {w} /\ assignments'[r][i] = assignments[r][i]
            BY <2>3, <2>4, <2>6
        <3>3. /\ attempts'[assignments[r][i].work] = attempts[assignments[r][i].work]
              /\ reservations'[assignments[r][i].work] = reservations[assignments[r][i].work]
            BY <1>4, <3>2
        <3>4. \A j \in 1..Len(assignments'[r]) :
                 assignments'[r][j].work = assignments'[r][i].work => i = j
            <4>1. SUFFICES ASSUME NEW j \in 1..Len(assignments'[r]),
                                  assignments'[r][j].work = assignments'[r][i].work
                           PROVE  i = j
                OBVIOUS
            <4>2. j \in 1..n
                BY <2>3, <3>2, <4>1
            <4> QED
                BY <2>3, <3>1, <3>2, <4>1, <4>2 DEF FreshAssignment
        <3> QED
            BY <2>6, <3>1, <3>2, <3>3, <3>4 DEF FreshAssignment
    <2>7. CASE o = r /\ i = n + 1
        <3>1. assignments'[r][i] = a
            BY <2>3, <2>7
        <3>2. \A j \in 1..Len(assignments'[r]) : assignments'[r][j].work = w => i = j
            <4>1. SUFFICES ASSUME NEW j \in 1..Len(assignments'[r]), j # n + 1
                           PROVE  assignments'[r][j].work # w
                BY <2>7
            <4>2. j \in 1..n
                BY <2>3, <4>1
            <4> QED
                BY <2>3, <2>4, <4>2
        <3>3. reservations'[w] = a.attempt /\ attempts'[w] = a.attempt
            BY <1>1, <1>4
        <3> QED
            BY <1>1, <1>3, <1>5, <2>7, <3>1, <3>2, <3>3 DEF FreshAssignment
    <2>8. o # r \/ (o = r /\ i \in 1..n) \/ (o = r /\ i = n + 1)
        BY <2>1, <2>3
    <2> QED
        BY <2>5, <2>6, <2>7, <2>8
<1> QED
    BY <1>6, <1>7, <1>8

(* The head of a queue is a work of its run. *)
LEMMA HeadIsOwned ==
    ASSUME PoolTypeOK, LedgerInv, NEW r \in Runs, NEW w, AtHead(r, w)
    PROVE  /\ w \in WorksOf(r) /\ RunOf[w] = r
           /\ 1 \in 1..Len(pending[r]) /\ w = pending[r][1]
<1>1. pending[r] \in Seq(Works) /\ pending[r] # <<>> /\ w = Head(pending[r])
    BY DEF AtHead, PoolTypeOK
<1>2. 1 \in 1..Len(pending[r]) /\ w = pending[r][1] /\ w \in Works
    BY <1>1
<1> QED
    BY <1>2 DEF LedgerInv, QueueOwned, WorksOf

LEMMA PoolKeepsCalls ==
    ASSUME BasicInv, NEW r \in Runs, UNCHANGED queueVars,
           Publish(r) \/ \E w \in Works, m \in Models : Elect(r, w, m)
    PROVE  CallInv'
<1>0. PoolTypeOK /\ QueueTypeOK /\ CallInv /\ LedgerInv /\ TypeInv
    BY BasicTypes DEF BasicInv
<1>1. UNCHANGED <<receipt, apc, qpc>>
    BY DEF queueVars, loopVars, attemptVars
<1>2. UNCHANGED attached /\ LoopAlive(r)
    BY DEF Publish, Elect, AtHead, LoopAlive
<1>3. attached[r] /\ qpc[r] \notin {"enqueue", "close"} \cup Over
    BY <1>0, <1>2, AliveIsOpen
<1>4. /\ \A o \in Runs \ {r} : /\ mpc'[o] = mpc[o]
                               /\ assignments'[o] = assignments[o]
                               /\ electing'[o] = electing[o]
      /\ \A w \in Works : RunOf[w] # r => attempts'[w] = attempts[w]
    <2>1. CASE Publish(r)
        <3>1. RunOf[electing[r].work] = r
            BY <1>0, <2>1 DEF Publish, LedgerInv, NotifyHoldsSeat, HeldSeat
        <3> QED
            BY <1>0, <2>1, <3>1 DEF Publish, HandOut, PoolTypeOK
    <2>2. ASSUME NEW w \in Works, NEW m \in Models, Elect(r, w, m)
          PROVE  /\ \A o \in Runs \ {r} : /\ mpc'[o] = mpc[o]
                                          /\ assignments'[o] = assignments[o]
                                          /\ electing'[o] = electing[o]
                 /\ \A v \in Works : RunOf[v] # r => attempts'[v] = attempts[v]
        <3>1. RunOf[w] = r
            BY <1>0, <2>2, HeadIsOwned DEF Elect
        <3>2. CASE NotifySuspends
            BY <1>0, <2>2, <3>2 DEF Elect, PoolTypeOK
        <3>3. CASE ~NotifySuspends
            BY <1>0, <2>2, <3>1, <3>3 DEF Elect, HandOut, PoolTypeOK
        <3> QED
            BY <3>2, <3>3
    <2> QED
        BY <2>1, <2>2
<1>5. NotStarted' /\ OpenUntilOver' /\ LoopStopped'
    <2>1. NotStarted'
        <3>1. SUFFICES ASSUME NEW o \in Runs, qpc'[o] = "enqueue"
                       PROVE  /\ mpc'[o] = "off"
                              /\ assignments'[o] = <<>>
                              /\ \A w \in WorksOf(o) : attempts'[w] = 0 /\ apc'[w] = "none"
            BY DEF NotStarted
        <3>2. o # r /\ qpc[o] = "enqueue"
            BY <1>1, <1>3, <3>1
        <3>3. \A w \in WorksOf(o) : attempts'[w] = attempts[w]
            BY <1>4, <3>2 DEF WorksOf
        <3> QED
            BY <1>0, <1>1, <1>4, <3>2, <3>3 DEF CallInv, NotStarted
    <2> QED
        BY <1>0, <1>1, <1>2, <1>3, <1>4, <2>1
        DEF CallInv, OpenUntilOver, LoopStopped, LoopAlive
<1>6. CASE Publish(r)
    <2>1. electing[r] \in Assignment /\ mpc[r] = "notify"
        BY <1>0, <1>6 DEF Publish, TypeInv, ResultHeld
    <2>2. /\ RunOf[electing[r].work] = r
          /\ reservations[electing[r].work] = 0
          /\ electing[r].attempt = attempts[electing[r].work] + 1
        BY <1>0, <2>1 DEF LedgerInv, NotifyHoldsSeat, HeldSeat, CallInv, ElectsNext
    <2>3. HandOut(r, electing[r]) /\ mpc' = [mpc EXCEPT ![r] = "poll"]
        BY <1>6 DEF Publish
    <2>4. Numbered' /\ SeatKept' /\ RetryFits' /\ AssignmentsFresh'
        BY <1>1, <1>2, <2>1, <2>2, <2>3, HandOutKeepsCalls
    <2>5. ElectsNext'
        <3>1. SUFFICES ASSUME NEW o \in Runs, mpc'[o] = "notify"
                       PROVE  electing'[o].attempt = attempts'[electing'[o].work] + 1
            BY DEF ElectsNext
        <3>2. o # r
            BY <1>0, <2>3, <3>1 DEF PoolTypeOK
        <3>3. mpc[o] = "notify" /\ electing'[o] = electing[o]
            BY <1>4, <3>1, <3>2
        <3>4. RunOf[electing[o].work] = o /\ electing[o].work \in Works
            BY <1>0, <3>3
            DEF LedgerInv, NotifyHoldsSeat, HeldSeat, TypeInv, ResultHeld, Assignment
        <3> QED
            BY <1>0, <1>4, <3>2, <3>3, <3>4 DEF CallInv, ElectsNext
    <2> QED
        BY <1>5, <2>4, <2>5 DEF CallInv
<1>7. ASSUME NEW w \in Works, NEW m \in Models, Elect(r, w, m)
      PROVE  CallInv'
    <2> DEFINE a == [work |-> w, attempt |-> attempts[w] + 1, model |-> m]
    <2>1. RunOf[w] = r
        BY <1>0, <1>7, HeadIsOwned DEF Elect
    <2>2. reservations[w] = 0
        BY <1>7 DEF Elect, MayElect
    <2>3. CASE NotifySuspends
        <3>1. /\ mpc' = [mpc EXCEPT ![r] = "notify"]
              /\ electing' = [electing EXCEPT ![r] = a]
              /\ UNCHANGED <<reservations, attempts, pending, assignments>>
            BY <1>7, <2>3 DEF Elect
        <3>2. ElectsNext'
            BY <1>0, <3>1 DEF CallInv, ElectsNext, PoolTypeOK
        <3>3. Numbered' /\ SeatKept' /\ RetryFits' /\ AssignmentsFresh'
            BY <1>0, <1>1, <1>2, <3>1
            DEF CallInv, Numbered, SeatKept, RetryFits, AssignmentsFresh, FreshAssignment
        <3> QED
            BY <1>5, <3>2, <3>3 DEF CallInv
    <2>4. CASE ~NotifySuspends
        <3>1. HandOut(r, a) /\ UNCHANGED <<mpc, electing>>
            BY <1>7, <2>4 DEF Elect
        <3>2. a \in Assignment
            BY <1>0 DEF Assignment, PoolTypeOK
        <3>3. a.work = w /\ a.attempt = attempts[w] + 1
            OBVIOUS
        <3>4. Numbered' /\ SeatKept' /\ RetryFits' /\ AssignmentsFresh'
            BY <1>1, <1>2, <2>1, <2>2, <3>1, <3>2, <3>3, HandOutKeepsCalls
        <3>5. ElectsNext'
            <4>1. SUFFICES ASSUME NEW o \in Runs, mpc[o] = "notify"
                           PROVE  electing[o].attempt = attempts'[electing[o].work] + 1
                BY <3>1 DEF ElectsNext
            <4>2. RunOf[electing[o].work] = o /\ electing[o].work \in Works
                BY <1>0, <4>1
                DEF LedgerInv, NotifyHoldsSeat, HeldSeat, TypeInv, ResultHeld, Assignment
            <4>3. o # r
                BY <1>7, <4>1 DEF Elect, AtHead
            <4> QED
                BY <1>0, <1>4, <4>1, <4>2, <4>3 DEF CallInv, ElectsNext
        <3> QED
            BY <1>5, <3>4, <3>5 DEF CallInv
    <2> QED
        BY <2>3, <2>4
<1> QED
    BY <1>6, <1>7

LEMMA CallStep ==
    ASSUME BasicInv, [Next]_vars
    PROVE  CallInv'
<1>1. ASSUME NEW w \in Works, AttemptStep(w) PROVE CallInv'
    BY <1>1, AttemptIsQuiet, QuietKeepsCalls
<1>2. ASSUME NEW w \in Works, AgentEndsUnheard(w) PROVE CallInv'
    <2>1. UNCHANGED <<receipt, attempts, electing, assignments, attached, qpc, mpc,
                      reservations, apc>>
        BY <1>2 DEF AgentEndsUnheard, poolVars, loopVars, attemptVars
    <2> QED
        BY <2>1, StandingIsQuiet, QuietKeepsCalls
<1>3. ASSUME NEW r \in Runs, MainStep(r) \/ RequestCancel(r) \/ CancelledElsewhere(r)
      PROVE  CallInv'
    BY <1>3, MainQuiet, QuietKeepsCalls, CloseKeepsCalls, DispatchKeepsCalls DEF MainStep
<1>4. ASSUME NEW r \in Runs, LoopStep(r), UNCHANGED queueVars PROVE CallInv'
    BY <1>4, PoolQuiet, QuietKeepsCalls, PoolKeepsCalls DEF LoopStep
<1>5. ASSUME Surroundings, UNCHANGED queueVars PROVE CallInv'
    <2>1. UNCHANGED <<attempts, electing, assignments, attached, mpc, reservations>>
        BY <1>5 DEF Surroundings, CoolingEnds, ScoreDrops, ScoreRecovers, Reconfigure
    <2>2. UNCHANGED <<receipt, qpc, apc>>
        BY <1>5 DEF queueVars, loopVars, attemptVars
    <2> QED
        BY <2>1, <2>2, StandingIsQuiet, QuietKeepsCalls
<1>6. CASE UNCHANGED vars
    <2>1. UNCHANGED <<receipt, attempts, electing, assignments, attached, qpc, mpc,
                      reservations, apc>>
        BY <1>6 DEF vars, queueVars, poolVars, loopVars, attemptVars
    <2> QED
        BY <2>1, StandingIsQuiet, QuietKeepsCalls
<1> QED
    BY <1>1, <1>2, <1>3, <1>4, <1>5, <1>6 DEF Next

LEMMA BasicStep == BasicInv /\ [Next]_vars => BasicInv'
<1> SUFFICES ASSUME BasicInv, [Next]_vars PROVE BasicInv'
    OBVIOUS
<1>1. [PoolNext]_poolVars
    BY CallsPool
<1>2. TypeInv' /\ LedgerInv'
    BY <1>1, TypeStep, LedgerStep DEF BasicInv
<1>3. QueueTypeOK'
    BY BasicTypes, QueueTypeStep
<1>4. CallInv'
    BY CallStep
<1> QED
    BY <1>2, <1>3, <1>4 DEF BasicInv

LEMMA BasicInvariant == Spec => []BasicInv
    BY BasicInit, BasicStep, PTL DEF Spec

(* The queue is type correct, whatever executions, saves, confirmations and    *)
(* cancellations bring.                                                        *)
THEOREM QueueTypes == Spec => []TypeOK
<1>1. BasicInv => TypeOK
    BY BasicTypes DEF TypeOK
<1> QED
    BY <1>1, BasicInvariant, PTL

(* Every step of the queue is, for its pool, a step of a caller of PoolSpec:   *)
(* what is proved of the pool with an arbitrary caller holds of this one.  The *)
(* feedback of an attempt names an attempt handed out, a retry has an attempt  *)
(* left, the loop starts once, and the pool is closed after its loop ended.    *)
THEOREM QueueUsesPool == Spec => UsesPool
<1>1. Init => PoolInit
    BY DEF Init
<1>2. BasicInv /\ [Next]_vars => [PoolNext]_poolVars
    BY CallsPool
<1> QED
    BY <1>1, <1>2, BasicInvariant, PTL DEF Spec, UsesPool, PoolSpec

-----------------------------------------------------------------------------
(* The ways out of a run *)

(* An exception is on its way out from the moment the run stops, and with it the *)
(* elections have stopped, or the loop of the pool ended by itself.              *)
LeavesInOrder(r) ==
    /\ qpc[r] \in {"enqueue", "loop", "returned"} => ~raising[r]
    /\ qpc[r] \in {"stopping", "gather", "raised"} => raising[r]
    /\ model_ended[r] => raising[r]
    /\ raising[r] /\ LoopAlive(r) => closed[r]

(* Attempts are only cancelled in a run that fails. *)
Interruptions == \A w \in Works : interrupted[w] => raising[RunOf[w]]

WayOut == (\A r \in Runs : LeavesInOrder(r)) /\ Interruptions

LEMMA WayOutInit == Init => WayOut
    BY DEF Init, PoolInit, WayOut, LeavesInOrder, Interruptions, LoopAlive

LEMMA SameWayOut ==
    ASSUME NEW r \in Runs, LeavesInOrder(r),
           qpc'[r] = qpc[r], raising'[r] = raising[r], model_ended'[r] = model_ended[r],
           LoopAlive(r)' => LoopAlive(r), closed[r] => closed'[r]
    PROVE  LeavesInOrder(r)'
    BY DEF LeavesInOrder

LEMMA StandingWayOut ==
    ASSUME WayOut, UNCHANGED <<qpc, raising, model_ended, interrupted>>,
           \A r \in Runs : (LoopAlive(r)' => LoopAlive(r)) /\ (closed[r] => closed'[r])
    PROVE  WayOut'
    BY SameWayOut DEF WayOut, Interruptions

(* What a pool does by itself. *)
LEMMA LoopOnlyEnds ==
    ASSUME PoolTypeOK, (\E r \in Runs : LoopStep(r)) \/ Surroundings
    PROVE  /\ \A r \in Runs : LoopAlive(r)' => LoopAlive(r)
           /\ UNCHANGED <<closed, attached>>
<1>1. ASSUME NEW r \in Runs, NEW w \in Works, NEW m \in Models, Elect(r, w, m)
      PROVE  /\ \A o \in Runs : LoopAlive(o)' => LoopAlive(o)
             /\ UNCHANGED <<closed, attached>>
    <2>1. mpc[r] = "poll" /\ UNCHANGED <<closed, attached>>
        BY <1>1 DEF Elect, AtHead
    <2>2. \A o \in Runs \ {r} : mpc'[o] = mpc[o]
        BY <1>1 DEF Elect, HandOut, PoolTypeOK
    <2> QED
        BY <2>1, <2>2 DEF LoopAlive
<1>2. ASSUME NEW r \in Runs,
             Publish(r) \/ LoopEnds(r) \/ LoopCrashes(r) \/ \E w \in Works : ElectionFails(r, w)
      PROVE  /\ \A o \in Runs : LoopAlive(o)' => LoopAlive(o)
             /\ UNCHANGED <<closed, attached>>
    <2>1. LoopAlive(r) /\ UNCHANGED <<closed, attached>>
        BY <1>2 DEF Publish, LoopEnds, LoopCrashes, ElectionFails, AtHead, LoopAlive
    <2>2. \A o \in Runs \ {r} : mpc'[o] = mpc[o]
        BY <1>2 DEF Publish, LoopEnds, LoopCrashes, ElectionFails, PoolTypeOK
    <2> QED
        BY <2>1, <2>2 DEF LoopAlive
<1>3. ASSUME Surroundings PROVE UNCHANGED <<mpc, closed, attached>>
    BY <1>3 DEF Surroundings, CoolingEnds, ScoreDrops, ScoreRecovers, Reconfigure
<1> QED
    BY <1>1, <1>2, <1>3 DEF LoopStep, LoopAlive

LEMMA AttemptKeepsPool ==
    ASSUME PoolTypeOK, NEW w \in Works, AsksOfPool(w)
    PROVE  /\ UNCHANGED <<attempts, electing, assignments, attached, mpc>>
           /\ \A r \in Runs : closed[r] => closed'[r]
           /\ \A v \in Works \ {w} : reservations'[v] = reservations[v]
           /\ \/ reservations'[w] = reservations[w]
              \/ reservations'[w] = 0 /\ apc[w] = "feedback" /\ apc'[w] \notin Holding
<1>1. UNCHANGED <<attempts, electing, assignments, attached, mpc>>
    BY DEF AsksOfPool, poolVars, StopElections, Enqueue, Feedback
<1>2. \A r \in Runs : closed[r] => closed'[r]
    BY DEF AsksOfPool, poolVars, StopElections, Enqueue, Feedback, PoolTypeOK
<1>3. /\ \A v \in Works \ {w} : reservations'[v] = reservations[v]
      /\ \/ reservations'[w] = reservations[w]
         \/ reservations'[w] = 0 /\ apc[w] = "feedback" /\ apc'[w] \notin Holding
    BY DEF AsksOfPool, poolVars, StopElections, Enqueue, Feedback, PoolTypeOK
<1> QED
    BY <1>1, <1>2, <1>3

(* What the head of the loop and the except clause do to the run. *)
LEMMA LoopHeadFields ==
    ASSUME QueueTypeOK, NEW r \in Runs, NEW count, NEW running, LoopHead(r, count, running)
    PROVE  /\ \A o \in Runs \ {r} : qpc'[o] = qpc[o] /\ raising'[o] = raising[o]
           /\ \/ /\ count >= Len(WorkList[r])
                 /\ qpc'[r] = "finally" /\ raising'[r] = raising[r]
              \/ /\ StopsAtHead(r, count)
                 /\ qpc'[r] = "stopping" /\ raising'[r] = TRUE
              \/ qpc'[r] = qpc[r] /\ raising'[r] = raising[r]
<1>1. \/ /\ count >= Len(WorkList[r])
         /\ qpc' = [qpc EXCEPT ![r] = "finally"]
         /\ UNCHANGED raising
      \/ /\ StopsAtHead(r, count)
         /\ qpc' = [qpc EXCEPT ![r] = "stopping"]
         /\ raising' = [raising EXCEPT ![r] = TRUE]
      \/ UNCHANGED <<qpc, raising>>
    BY DEF LoopHead, Raise, StopsAtHead
<1> QED
    BY <1>1 DEF QueueTypeOK

LEMMA RaiseFields ==
    ASSUME QueueTypeOK, NEW r \in Runs, NEW running, Raise(r, running)
    PROVE  /\ \A o \in Runs \ {r} : qpc'[o] = qpc[o] /\ raising'[o] = raising[o]
           /\ qpc'[r] = "stopping" /\ raising'[r] = TRUE
    BY DEF Raise, QueueTypeOK

LEMMA StopFields ==
    ASSUME PoolTypeOK, NEW r \in Runs, StopElections(r)
    PROVE  /\ \A o \in Runs : closed'[o] = (o = r \/ closed[o])
           /\ UNCHANGED <<config, unhealthy, seats, pending, attempts, cooling, reservations,
                          selection_error, electing, assignments, mpc, attached>>
    BY DEF StopElections, PoolTypeOK

LEMMA TakeFields ==
    ASSUME PoolTypeOK, NEW r \in Runs, NEW stop \in BOOLEAN, TakeAssignment(r, stop)
    PROVE  /\ \A o \in Runs : closed'[o] = ((o = r /\ stop) \/ closed[o])
           /\ assignments' = [assignments EXCEPT ![r] = Tail(@)]
           /\ UNCHANGED <<config, unhealthy, seats, pending, attempts, cooling, reservations,
                          selection_error, electing, mpc, attached>>
    BY DEF TakeAssignment, PoolTypeOK

(* A step of the main loop of r: the other runs go on as they are. *)
LEMMA OneRunLeaves ==
    ASSUME WayOut, NEW r \in Runs, LeavesInOrder(r)', Interruptions',
           \A o \in Runs \ {r} :
               /\ qpc'[o] = qpc[o] /\ raising'[o] = raising[o]
               /\ model_ended'[o] = model_ended[o]
               /\ LoopAlive(o)' => LoopAlive(o)
               /\ closed[o] => closed'[o]
    PROVE  WayOut'
    BY SameWayOut DEF WayOut

LEMMA WayOutStep ==
    ASSUME BasicInv, WayOut, [Next]_vars
    PROVE  WayOut'
<1>0. PoolTypeOK /\ QueueTypeOK /\ CallInv
    BY BasicTypes
<1>1. ASSUME NEW w \in Works, AttemptStep(w) PROVE WayOut'
    <2>1. OnlyOf(w) /\ AsksOfPool(w)
        BY <1>0, <1>1, AttemptLeads
    <2>2. UNCHANGED mpc /\ \A r \in Runs : closed[r] => closed'[r]
        BY <1>0, <2>1, AttemptKeepsPool
    <2> QED
        BY <2>1, <2>2, StandingWayOut DEF OnlyOf, LoopAlive
<1>2. ASSUME NEW w \in Works, AgentEndsUnheard(w) PROVE WayOut'
    BY <1>2, StandingWayOut DEF AgentEndsUnheard, poolVars, loopVars, attemptVars, LoopAlive
<1>3. ASSUME (\E r \in Runs : LoopStep(r)) \/ Surroundings, UNCHANGED queueVars PROVE WayOut'
    BY <1>0, <1>3, LoopOnlyEnds, StandingWayOut DEF queueVars, loopVars, attemptVars
<1>4. CASE UNCHANGED vars
    BY <1>4, StandingWayOut DEF vars, queueVars, poolVars, loopVars, attemptVars, LoopAlive
<1>5. ASSUME NEW r \in Runs, MainStep(r) \/ RequestCancel(r) \/ CancelledElsewhere(r)
      PROVE  WayOut'
    <2>0. LeavesInOrder(r) /\ Interruptions
        BY DEF WayOut
    <2>1. ASSUME EnqueueNext(r) PROVE WayOut'
        BY <2>1, StandingWayOut DEF EnqueueNext, Enqueue, LoopAlive
    <2>2. ASSUME LoopBegins(r) PROVE WayOut'
        <3>1. /\ UNCHANGED <<raising, model_ended, interrupted, closed>>
              /\ qpc[r] = "enqueue"
              /\ qpc' = [qpc EXCEPT ![r] = "loop"]
              /\ mpc' = [mpc EXCEPT ![r] = "poll"]
            BY <2>2 DEF LoopBegins, StartLoop, attemptVars
        <3>2. /\ \A o \in Runs \ {r} : qpc'[o] = qpc[o] /\ mpc'[o] = mpc[o]
              /\ qpc'[r] = "loop"
            BY <1>0, <3>1 DEF QueueTypeOK, PoolTypeOK
        <3>3. LeavesInOrder(r)' /\ Interruptions'
            BY <2>0, <3>1, <3>2 DEF LeavesInOrder, Interruptions
        <3> QED
            BY <3>1, <3>2, <3>3, OneRunLeaves DEF LoopAlive
    <2>3. ASSUME AttemptRaised(r) \/ CancelledInLoop(r) PROVE WayOut'
        <3>1. /\ Raise(r, Unfinished(r)) /\ StopElections(r)
              /\ UNCHANGED <<model_ended, interrupted>>
            BY <2>3 DEF AttemptRaised, CancelledInLoop, attemptVars
        <3>2. /\ \A o \in Runs \ {r} : qpc'[o] = qpc[o] /\ raising'[o] = raising[o]
              /\ qpc'[r] = "stopping" /\ raising'[r] = TRUE
              /\ \A o \in Runs : closed'[o] = (o = r \/ closed[o])
              /\ mpc' = mpc
            BY <1>0, <3>1, RaiseFields, StopFields
        <3>3. LeavesInOrder(r)' /\ Interruptions'
            BY <2>0, <3>1, <3>2, ModelElectionAssumption DEF LeavesInOrder, Interruptions
        <3> QED
            BY <3>1, <3>2, <3>3, OneRunLeaves DEF LoopAlive
    <2>4. ASSUME ModelTaskEnded(r) PROVE WayOut'
        <3>1. CASE terminal_failure[r]
            <4>1. /\ Raise(r, Unfinished(r)) /\ StopElections(r)
                  /\ UNCHANGED <<model_ended, interrupted>>
                BY <2>4, <3>1 DEF ModelTaskEnded, attemptVars
            <4>2. /\ \A o \in Runs \ {r} : qpc'[o] = qpc[o] /\ raising'[o] = raising[o]
                  /\ qpc'[r] = "stopping" /\ raising'[r] = TRUE
                  /\ \A o \in Runs : closed'[o] = (o = r \/ closed[o])
                  /\ mpc' = mpc
                BY <1>0, <4>1, RaiseFields, StopFields
            <4>3. LeavesInOrder(r)' /\ Interruptions'
                BY <2>0, <4>1, <4>2, ModelElectionAssumption DEF LeavesInOrder, Interruptions
            <4> QED
                BY <4>1, <4>2, <4>3, OneRunLeaves DEF LoopAlive
        <3>2. CASE ~terminal_failure[r]
            <4>1. /\ model_ended' = [model_ended EXCEPT ![r] = TRUE]
                  /\ raising' = [raising EXCEPT ![r] = TRUE]
                  /\ qpc' = [qpc EXCEPT ![r] = "gather"]
                  /\ ~LoopAlive(r)
                  /\ UNCHANGED <<interrupted, mpc, closed>>
                BY <2>4, <3>2 DEF ModelTaskEnded, attemptVars, poolVars
            <4>2. /\ \A o \in Runs \ {r} : /\ qpc'[o] = qpc[o] /\ raising'[o] = raising[o]
                                           /\ model_ended'[o] = model_ended[o]
                  /\ qpc'[r] = "gather" /\ raising'[r] = TRUE
                BY <1>0, <4>1 DEF QueueTypeOK
            <4>3. LeavesInOrder(r)' /\ Interruptions'
                BY <2>0, <4>1, <4>2, ModelElectionAssumption
                DEF LeavesInOrder, Interruptions, LoopAlive
            <4> QED
                BY <4>1, <4>2, <4>3, OneRunLeaves DEF LoopAlive
        <3> QED
            BY <3>1, <3>2
    <2>5. ASSUME Reap(r) \/ Dispatch(r) PROVE WayOut'
        <3> DEFINE count == succeeded[r] + Cardinality(Returned(r))
        <3>1. /\ \E running : LoopHead(r, count, running)
              /\ qpc[r] = "loop"
              /\ UNCHANGED <<model_ended, interrupted>>
            BY <2>5 DEF Reap, Dispatch
        <3>2. /\ mpc' = mpc
              /\ \A o \in Runs : closed[o] => closed'[o]
              /\ StopsAtHead(r, count) => closed'[r]
            <4>1. CASE Reap(r)
                <5>1. \/ StopsAtHead(r, count) /\ StopElections(r)
                      \/ ~StopsAtHead(r, count) /\ UNCHANGED poolVars
                    BY <4>1 DEF Reap
                <5> QED
                    BY <1>0, <5>1, StopFields DEF poolVars
            <4>2. CASE Dispatch(r)
                <5>1. TakeAssignment(r, StopsAtHead(r, count))
                    BY <4>2 DEF Dispatch
                <5>2. StopsAtHead(r, count) \in BOOLEAN
                    BY DEF StopsAtHead
                <5> QED
                    BY <1>0, <5>1, <5>2, TakeFields
            <4> QED
                BY <2>5, <4>1, <4>2
        <3>3. /\ \A o \in Runs \ {r} : qpc'[o] = qpc[o] /\ raising'[o] = raising[o]
              /\ \/ qpc'[r] = "finally" /\ raising'[r] = raising[r]
                 \/ StopsAtHead(r, count) /\ qpc'[r] = "stopping" /\ raising'[r] = TRUE
                 \/ qpc'[r] = "loop" /\ raising'[r] = raising[r]
            BY <1>0, <3>1, LoopHeadFields
        <3> HIDE DEF count
        <3>4. LeavesInOrder(r)' /\ Interruptions'
            BY <2>0, <3>1, <3>2, <3>3, ModelElectionAssumption
            DEF LeavesInOrder, Interruptions, LoopAlive
        <3> QED
            BY <3>1, <3>2, <3>3, <3>4, OneRunLeaves DEF LoopAlive
    <2>6. ASSUME DispatchRefused(r) PROVE WayOut'
        <3>1. /\ Raise(r, Unfinished(r)) /\ TakeAssignment(r, TRUE)
              /\ UNCHANGED <<model_ended, interrupted>>
            BY <2>6 DEF DispatchRefused
        <3>2. /\ \A o \in Runs \ {r} : qpc'[o] = qpc[o] /\ raising'[o] = raising[o]
              /\ qpc'[r] = "stopping" /\ raising'[r] = TRUE
              /\ closed'[r] = TRUE
              /\ \A o \in Runs : closed[o] => closed'[o]
              /\ mpc' = mpc
            BY <1>0, <3>1, RaiseFields DEF TakeAssignment, PoolTypeOK
        <3>3. LeavesInOrder(r)' /\ Interruptions'
            BY <2>0, <3>1, <3>2, ModelElectionAssumption DEF LeavesInOrder, Interruptions
        <3> QED
            BY <3>1, <3>2, <3>3, OneRunLeaves DEF LoopAlive
    <2>7. ASSUME (\E w \in Works : TellCancel(r, w)) \/ RequestCancel(r) PROVE WayOut'
        BY <2>7, StandingWayOut DEF TellCancel, RequestCancel, poolVars, attemptVars, LoopAlive
    <2>8. ASSUME AllTold(r) \/ AllGathered(r) \/ CancelModelTask(r) \/ ClosePool(r)
          PROVE  WayOut'
        <3>1. /\ UNCHANGED <<raising, model_ended, interrupted>>
              /\ qpc[r] \in {"stopping", "gather", "finally", "close"}
            BY <2>8 DEF AllTold, AllGathered, CancelModelTask, ClosePool, attemptVars
        <3>2. /\ \A o \in Runs \ {r} : qpc'[o] = qpc[o]
              /\ \/ qpc[r] = "stopping" /\ qpc'[r] = "gather"
                 \/ qpc'[r] \in {"finally", "close"}
                 \/ qpc'[r] = IF raising[r] THEN "raised" ELSE "returned"
            BY <1>0, <2>8 DEF AllTold, AllGathered, CancelModelTask, ClosePool, QueueTypeOK
        <3>3. \A o \in Runs : (LoopAlive(o)' => LoopAlive(o)) /\ (closed[o] => closed'[o])
            <4>1. CASE AllTold(r) \/ AllGathered(r)
                BY <4>1 DEF AllTold, AllGathered, poolVars, LoopAlive
            <4>2. CASE CancelModelTask(r)
                BY <1>0, <4>2 DEF CancelModelTask, CancelLoop, PoolTypeOK, LoopAlive
            <4>3. CASE ClosePool(r)
                BY <1>0, <4>3 DEF ClosePool, Close, PoolTypeOK, LoopAlive
            <4> QED
                BY <2>8, <4>1, <4>2, <4>3
        <3>4. LeavesInOrder(r)' /\ Interruptions'
            BY <2>0, <3>1, <3>2, <3>3 DEF LeavesInOrder, Interruptions
        <3> QED
            BY <3>1, <3>2, <3>3, <3>4, OneRunLeaves
    <2>9. ASSUME CancelledElsewhere(r) PROVE WayOut'
        <3>1. UNCHANGED <<poolVars, model_ended>>
            BY <2>9 DEF CancelledElsewhere
        <3>2. /\ \A o \in Runs \ {r} : qpc'[o] = qpc[o] /\ raising'[o] = raising[o]
              /\ \/ qpc[r] \in {"enqueue", "close"} /\ qpc'[r] = "raised" /\ raising'[r] = TRUE
                 \/ qpc[r] = "stopping" /\ qpc'[r] = "finally" /\ raising'[r] = raising[r]
                 \/ qpc[r] = "gather" /\ qpc'[r] = "gather" /\ raising'[r] = raising[r]
            BY <1>0, <2>9 DEF CancelledElsewhere, QueueTypeOK
        <3>3. qpc'[r] = "raised" => ~LoopAlive(r)
            BY <1>0, <3>2 DEF CallInv, NotStarted, LoopStopped, LoopAlive
        <3>4. LeavesInOrder(r)'
            BY <2>0, <3>1, <3>2, <3>3 DEF LeavesInOrder, LoopAlive, poolVars
        <3>5. \A w \in Works :
                 interrupted'[w] => interrupted[w] \/ (w \in WorksOf(r) /\ qpc[r] = "gather")
            BY <1>0, <2>9 DEF CancelledElsewhere, Unfinished, Active, QueueTypeOK
        <3>6. Interruptions'
            <4>1. \A w \in WorksOf(r) : RunOf[w] = r
                BY DEF WorksOf
            <4> QED
                BY <2>0, <3>2, <3>5, <4>1, ModelElectionAssumption
                DEF Interruptions, LeavesInOrder
        <3> QED
            BY <3>1, <3>2, <3>4, <3>6, OneRunLeaves DEF LoopAlive, poolVars
    <2> QED
        BY <1>5, <2>1, <2>2, <2>3, <2>4, <2>5, <2>6, <2>7, <2>8, <2>9 DEF MainStep
<1> QED
    BY <1>1, <1>2, <1>3, <1>4, <1>5 DEF Next

-----------------------------------------------------------------------------
(* Attempts, agents, memory and store *)

(* An execution nobody awaits is one whose attempt was cancelled. *)
AgentIsHeard(w) ==
    /\ agent[w] # "idle" => apc[w] \in {"executing", "feedback", "notified", "error"}
    /\ agent[w] # "idle" /\ apc[w] # "executing" =>
          /\ interrupted[w]
          /\ states[w] = "running"
          /\ memory[w] = "pending"
          /\ apc[w] # "error" => ending[w] = "error"
    /\ apc[w] = "executing" => agent[w] # "idle" /\ memory[w] = "pending"
    /\ apc[w] \in {"created", "executing"} => states[w] = "running"

(* What the steps of a save have established, and what a saved work is. *)
SaveStands(w) ==
    /\ stored[w] <= receipt[w]
    /\ apc[w] \in {"confirming", "recovering", "saved"} => stored[w] = receipt[w]
    /\ apc[w] = "saved" => memory[w] = "confirmed"
    /\ apc[w] \in SavePcs => states[w] = "completed"
    /\ apc[w] = "on_saved" => states[w] = "saved"
    /\ apc[w] = "requeue" => states[w] = "queued"
    /\ apc[w] = "true" => states[w] = "saved"
    /\ apc[w] \in {"feedback", "notified"} /\ ending[w] = "true" => states[w] = "saved"

SavedIsStored(w) ==
    states[w] = "saved" =>
        /\ stored[w] = receipt[w] /\ receipt[w] > 0
        /\ memory[w] = "confirmed"
        /\ apc[w] \in {"on_saved", "feedback", "notified", "true", "error", "none"}
        /\ apc[w] \in {"feedback", "notified"} => ending[w] # "false"

UnconfirmedKept(w) ==
    states[w] = "save_unconfirmed" =>
        apc[w] = "error" /\ (attached[RunOf[w]] => reservations[w] = receipt[w])

WorkStands(w) ==
    AgentIsHeard(w) /\ SaveStands(w) /\ SavedIsStored(w) /\ UnconfirmedKept(w)

SaveInv == WayOut /\ \A w \in Works : WorkStands(w)

LEMMA SaveInit == Init => SaveInv
<1> SUFFICES ASSUME Init PROVE \A w \in Works : WorkStands(w)
    BY WayOutInit DEF SaveInv
<1> QED
    BY DEF Init, WorkStands, AgentIsHeard, SaveStands, SavedIsStored, UnconfirmedKept, SavePcs

(* A work no step touches. *)
SameWork(v) ==
    /\ apc'[v] = apc[v]
    /\ states'[v] = states[v]
    /\ ending'[v] = ending[v]
    /\ agent'[v] = agent[v]
    /\ memory'[v] = memory[v]
    /\ stored'[v] = stored[v]
    /\ receipt'[v] = receipt[v]
    /\ interrupted'[v] = interrupted[v]

(* A seat of an unconfirmed save stays. *)
SameSeat(v) ==
    states'[v] = "save_unconfirmed" /\ attached'[RunOf[v]] =>
        attached[RunOf[v]] /\ reservations'[v] = reservations[v]

LEMMA SameWorkStands ==
    ASSUME NEW v \in Works, WorkStands(v), SameWork(v), SameSeat(v)
    PROVE  WorkStands(v)'
<1>1. AgentIsHeard(v)' /\ SaveStands(v)' /\ SavedIsStored(v)'
    BY DEF WorkStands, SameWork, AgentIsHeard, SaveStands, SavedIsStored
<1>2. UnconfirmedKept(v)'
    BY DEF WorkStands, SameWork, SameSeat, UnconfirmedKept
<1> QED
    BY <1>1, <1>2 DEF WorkStands

LEMMA SameWorks ==
    ASSUME UNCHANGED <<attemptVars, agentVars>>, NEW v
    PROVE  SameWork(v)
    BY DEF SameWork, attemptVars, agentVars

-----------------------------------------------------------------------------
(* The steps of an attempt keep what is known of its work *)

LEMMA ExecutionStands ==
    ASSUME PoolTypeOK, QueueTypeOK, NEW w \in Works, WorkStands(w), Numbered,
           \/ AttemptStarts(w) \/ ReplyDropped(w) \/ ExecutionRaises(w)
           \/ ExecutionCompletes(w) \/ ExecutionRetries(w) \/ ExecutionFails(w)
    PROVE  WorkStands(w)'
<1>0. stored[w] <= receipt[w]
    BY DEF WorkStands, SaveStands
<1>1. ASSUME AttemptStarts(w) PROVE WorkStands(w)'
    <2>1. /\ apc[w] = "created" /\ apc'[w] = "executing"
          /\ agent'[w] = "running" /\ memory'[w] = "pending"
          /\ states'[w] = states[w] /\ stored'[w] = stored[w] /\ receipt'[w] = receipt[w]
        BY <1>1 DEF AttemptStarts, QueueTypeOK
    <2>2. states[w] = "running"
        BY <2>1 DEF WorkStands, AgentIsHeard
    <2> QED
        BY <1>0, <2>1, <2>2
        DEF WorkStands, AgentIsHeard, SaveStands, SavedIsStored, UnconfirmedKept, SavePcs
<1>2. ASSUME ReplyDropped(w) PROVE WorkStands(w)'
    <2>1. /\ apc[w] = "executing" /\ apc'[w] = "false"
          /\ agent'[w] = "idle"
          /\ states'[w] = states[w] /\ stored'[w] = stored[w] /\ receipt'[w] = receipt[w]
        BY <1>2, AgentEndsFields DEF ReplyDropped, QueueTypeOK
    <2>2. states[w] = "running"
        BY <2>1 DEF WorkStands, AgentIsHeard
    <2> QED
        BY <1>0, <2>1, <2>2
        DEF WorkStands, AgentIsHeard, SaveStands, SavedIsStored, UnconfirmedKept, SavePcs
<1>3. ASSUME ExecutionRaises(w) PROVE WorkStands(w)'
    <2>1. /\ apc[w] = "executing"
          /\ apc'[w] = "error" \/ (apc'[w] = "feedback" /\ ending'[w] = "error")
          /\ agent'[w] = "idle"
          /\ states'[w] = states[w] /\ stored'[w] = stored[w] /\ receipt'[w] = receipt[w]
        BY <1>3, AgentEndsFields, LeaveFields DEF ExecutionRaises
    <2>2. states[w] = "running"
        BY <2>1 DEF WorkStands, AgentIsHeard
    <2> QED
        BY <1>0, <2>1, <2>2
        DEF WorkStands, AgentIsHeard, SaveStands, SavedIsStored, UnconfirmedKept, SavePcs
<1>4. ASSUME ExecutionCompletes(w) PROVE WorkStands(w)'
    <2>1. /\ apc'[w] = "completed" /\ states'[w] = "completed" /\ agent'[w] = "idle"
          /\ stored'[w] = stored[w] /\ receipt'[w] = receipt[w]
        BY <1>4, AgentEndsFields DEF ExecutionCompletes, QueueTypeOK
    <2> QED
        BY <1>0, <2>1
        DEF WorkStands, AgentIsHeard, SaveStands, SavedIsStored, UnconfirmedKept, SavePcs
<1>5. ASSUME ExecutionRetries(w) PROVE WorkStands(w)'
    <2>1. /\ apc'[w] = "requeue" /\ states'[w] = "queued" /\ agent'[w] = "idle"
          /\ stored'[w] = stored[w] /\ receipt'[w] = receipt[w]
        BY <1>5, AgentEndsFields DEF ExecutionRetries, QueueTypeOK
    <2> QED
        BY <1>0, <2>1
        DEF WorkStands, AgentIsHeard, SaveStands, SavedIsStored, UnconfirmedKept, SavePcs
<1>6. ASSUME ExecutionFails(w) PROVE WorkStands(w)'
    <2>1. /\ apc'[w] = "error" \/ (apc'[w] = "feedback" /\ ending'[w] = "error")
          /\ states'[w] = "failed" /\ agent'[w] = "idle"
          /\ stored'[w] = stored[w] /\ receipt'[w] = receipt[w]
        BY <1>6, AgentEndsFields, LeaveFields DEF ExecutionFails, QueueTypeOK
    <2> QED
        BY <1>0, <2>1
        DEF WorkStands, AgentIsHeard, SaveStands, SavedIsStored, UnconfirmedKept, SavePcs
<1> QED
    BY <1>1, <1>2, <1>3, <1>4, <1>5, <1>6

(* While a save is under way the agent rests and the seat is held. *)
LEMMA SavingFacts ==
    ASSUME QueueTypeOK, NEW w \in Works, WorkStands(w), SeatKept, apc[w] \in SavePcs
    PROVE  /\ agent[w] = "idle"
           /\ states[w] = "completed"
           /\ stored[w] <= receipt[w]
           /\ attached[RunOf[w]] => reservations[w] = receipt[w]
    BY DEF WorkStands, AgentIsHeard, SaveStands, SeatKept, Holding, SavePcs, QueueTypeOK

LEMMA SavingStands ==
    ASSUME PoolTypeOK, QueueTypeOK, NEW w \in Works, WorkStands(w), Numbered, SeatKept,
           \/ SaveBegins(w) \/ SaveCommits(w)
           \/ \E kind \in {"other", "transport", "rollback_failed"} : SaveRaises(w, kind)
           \/ Abort(w) \/ Confirm(w) \/ ConfirmRaises(w) \/ Recover(w) \/ RecoverRaises(w)
           \/ AfterSave(w)
    PROVE  WorkStands(w)'
<1>0. apc[w] \in SavePcs /\ receipt' = receipt /\ agent' = agent
    BY DEF SaveBegins, SaveCommits, SaveRaises, Abort, Confirm, ConfirmRaises, Recover,
           RecoverRaises, AfterSave, SavePcs, agentVars
<1>a. /\ agent[w] = "idle"
      /\ states[w] = "completed"
      /\ stored[w] <= receipt[w]
      /\ attached[RunOf[w]] => reservations[w] = receipt[w]
    BY <1>0, SavingFacts
<1>b. receipt[w] > 0 /\ receipt[w] \in Nat
    BY <1>0 DEF Numbered, SavePcs, QueueTypeOK
<1>1. ASSUME SaveBegins(w) \/ Abort(w) PROVE WorkStands(w)'
    <2>1. \/ apc'[w] \in {"error", "aborting", "saving"}
          \/ apc'[w] = "feedback" /\ ending'[w] = "error"
        <3>1. ASSUME Leave(w, "error")
              PROVE  apc'[w] = "error" \/ (apc'[w] = "feedback" /\ ending'[w] = "error")
            BY <3>1, LeaveFields
        <3>2. CASE SaveBegins(w)
            BY <3>1, <3>2 DEF SaveBegins, QueueTypeOK
        <3>3. CASE Abort(w)
            BY <3>1, <3>3 DEF Abort
        <3> QED
            BY <1>1, <3>2, <3>3
    <2>2. states' = states /\ stored' = stored
        BY <1>1 DEF SaveBegins, Abort, agentVars
    <2> QED
        BY <1>0, <1>a, <2>1, <2>2
        DEF WorkStands, AgentIsHeard, SaveStands, SavedIsStored, UnconfirmedKept, SavePcs
<1>2. ASSUME SaveCommits(w) PROVE WorkStands(w)'
    <2>1. apc'[w] = "confirming" /\ stored'[w] = receipt[w] /\ states' = states
        BY <1>2 DEF SaveCommits, QueueTypeOK
    <2> QED
        BY <1>0, <1>a, <1>b, <2>1
        DEF WorkStands, AgentIsHeard, SaveStands, SavedIsStored, UnconfirmedKept, SavePcs
<1>3. ASSUME NEW kind, SaveRaises(w, kind) PROVE WorkStands(w)'
    <2>1. stored'[w] = stored[w] \/ stored'[w] = receipt[w]
        BY <1>3 DEF SaveRaises, QueueTypeOK
    <2>2. \/ apc'[w] = "error" /\ states'[w] = "save_unconfirmed"
          \/ apc'[w] \in {"saving", "aborting"} /\ states'[w] = states[w]
        BY <1>3 DEF SaveRaises, LeaveUnconfirmed, QueueTypeOK
    <2>3. UNCHANGED poolVars
        BY <1>3 DEF SaveRaises
    <2>4. stored'[w] <= receipt[w]
        BY <1>a, <1>b, <2>1
    <2> QED
        BY <1>0, <1>a, <2>2, <2>3, <2>4
        DEF WorkStands, AgentIsHeard, SaveStands, SavedIsStored, UnconfirmedKept, SavePcs,
            poolVars
<1>4. ASSUME Confirm(w) \/ ConfirmRaises(w) \/ Recover(w) PROVE WorkStands(w)'
    <2>1. /\ apc[w] \in {"confirming", "recovering"}
          /\ \/ apc'[w] = "saved" /\ memory'[w] = "confirmed"
             \/ apc'[w] = "recovering"
          /\ states' = states /\ stored' = stored
        BY <1>4 DEF Confirm, ConfirmRaises, Recover, QueueTypeOK
    <2>2. stored[w] = receipt[w]
        BY <2>1 DEF WorkStands, SaveStands
    <2> QED
        BY <1>0, <1>a, <2>1, <2>2
        DEF WorkStands, AgentIsHeard, SaveStands, SavedIsStored, UnconfirmedKept, SavePcs
<1>5. ASSUME RecoverRaises(w) PROVE WorkStands(w)'
    <2>1. /\ apc'[w] = "error" /\ states'[w] = "save_unconfirmed"
          /\ stored' = stored
          /\ UNCHANGED <<attached, reservations>>
        BY <1>5 DEF RecoverRaises, LeaveUnconfirmed, QueueTypeOK, agentVars, poolVars
    <2> QED
        BY <1>0, <1>a, <2>1
        DEF WorkStands, AgentIsHeard, SaveStands, SavedIsStored, UnconfirmedKept, SavePcs
<1>6. ASSUME AfterSave(w) PROVE WorkStands(w)'
    <2>1. /\ apc[w] = "saved" /\ stored' = stored /\ memory' = memory
          /\ \/ Leave(w, "error") /\ UNCHANGED states
             \/ Leave(w, "false") /\ UNCHANGED states
             \/ /\ states' = [states EXCEPT ![w] = "saved"]
                /\ apc' = [apc EXCEPT ![w] = "on_saved"]
        BY <1>6 DEF AfterSave, agentVars
    <2>2. stored[w] = receipt[w] /\ memory[w] = "confirmed"
        BY <2>1 DEF WorkStands, SaveStands
    <2>3. \/ /\ \/ apc'[w] \in {"error", "false"}
                \/ apc'[w] = "feedback" /\ ending'[w] \in {"error", "false"}
             /\ states'[w] = states[w]
          \/ states'[w] = "saved" /\ apc'[w] = "on_saved"
        BY <2>1, LeaveFields DEF QueueTypeOK
    <2> QED
        BY <1>0, <1>a, <1>b, <2>1, <2>2, <2>3
        DEF WorkStands, AgentIsHeard, SaveStands, SavedIsStored, UnconfirmedKept, SavePcs
<1> QED
    BY <1>1, <1>2, <1>3, <1>4, <1>5, <1>6

LEMMA EndingStands ==
    ASSUME PoolTypeOK, QueueTypeOK, NEW w \in Works, WorkStands(w),
           \/ Requeue(w) \/ OnSaved(w) \/ GiveBack(w) \/ GiveBackEnds(w)
           \/ PoolGone(w) \/ Interrupted(w)
    PROVE  WorkStands(w)'
<1>0. UNCHANGED <<receipt, states, agent, memory, stored, interrupted>>
    BY DEF Requeue, OnSaved, GiveBack, GiveBackEnds, PoolGone, Interrupted, agentVars
<1>1. ASSUME Requeue(w) PROVE WorkStands(w)'
    <2>1. apc[w] = "requeue" /\ (apc'[w] = "false" \/ (apc'[w] = "feedback" /\ ending'[w] = "false"))
        BY <1>1, LeaveFields DEF Requeue
    <2> QED
        BY <1>0, <2>1
        DEF WorkStands, AgentIsHeard, SaveStands, SavedIsStored, UnconfirmedKept, SavePcs
<1>2. ASSUME OnSaved(w) PROVE WorkStands(w)'
    <2>1. PICK how \in {"true", "error"} : Leave(w, how)
        BY <1>2 DEF OnSaved
    <2>2. apc[w] = "on_saved" /\ (apc'[w] = how \/ (apc'[w] = "feedback" /\ ending'[w] = how))
        BY <1>2, <2>1, LeaveFields DEF OnSaved
    <2> QED
        BY <1>0, <2>1, <2>2
        DEF WorkStands, AgentIsHeard, SaveStands, SavedIsStored, UnconfirmedKept, SavePcs
<1>3. ASSUME GiveBack(w) \/ GiveBackEnds(w) \/ PoolGone(w) PROVE WorkStands(w)'
    <2>1. /\ apc[w] \in {"requeue", "feedback", "notified"}
          /\ ending' = ending
          /\ \/ apc[w] \in {"feedback", "notified"} /\ apc'[w] \in {"notified", ending[w]}
             \/ apc'[w] = "error"
        BY <1>3 DEF GiveBack, GiveBackEnds, PoolGone, QueueTypeOK
    <2>2. ending[w] \in Finished
        BY DEF QueueTypeOK
    <2> QED
        BY <1>0, <2>1, <2>2
        DEF WorkStands, AgentIsHeard, SaveStands, SavedIsStored, UnconfirmedKept, SavePcs,
            Finished
<1>4. ASSUME Interrupted(w) PROVE WorkStands(w)'
    <2>1. /\ interrupted[w]
          /\ apc[w] \in {"created", "executing", "requeue", "on_saved"}
          /\ apc'[w] = "error" \/ (apc'[w] = "feedback" /\ ending'[w] = "error")
        BY <1>4, LeaveFields DEF Interrupted, QueueTypeOK
    <2> QED
        BY <1>0, <2>1
        DEF WorkStands, AgentIsHeard, SaveStands, SavedIsStored, UnconfirmedKept, SavePcs
<1> QED
    BY <1>1, <1>2, <1>3, <1>4

LEMMA AttemptStands ==
    ASSUME BasicInv, SaveInv, NEW w \in Works, AttemptStep(w) \/ AgentEndsUnheard(w)
    PROVE  \A v \in Works : WorkStands(v)'
<1>0. PoolTypeOK /\ QueueTypeOK /\ Numbered /\ SeatKept
    BY BasicTypes DEF CallInv
<1>1. CASE AttemptStep(w)
    <2>1. WorkStands(w)'
        BY <1>0, <1>1, ExecutionStands, SavingStands, EndingStands DEF AttemptStep, SaveInv
    <2>2. OnlyOf(w) /\ AsksOfPool(w)
        BY <1>0, <1>1, AttemptLeads
    <2>3. /\ attached' = attached
          /\ \A v \in Works \ {w} : reservations'[v] = reservations[v]
        BY <1>0, <2>2, AttemptKeepsPool
    <2>4. \A v \in Works \ {w} : SameWork(v) /\ SameSeat(v)
        BY <2>2, <2>3 DEF OnlyOf, SameWork, SameSeat
    <2> QED
        BY <2>1, <2>4, SameWorkStands DEF SaveInv
<1>2. CASE AgentEndsUnheard(w)
    <2>1. PICK o : AgentEnds(w, o)
        BY <1>2 DEF AgentEndsUnheard
    <2>2. /\ UNCHANGED <<states, apc, receipt, ending, interrupted, stored, attached, reservations>>
          /\ \A v \in Works \ {w} : agent'[v] = agent[v] /\ memory'[v] = memory[v]
          /\ agent[w] # "idle" /\ agent'[w] = "idle" /\ apc[w] # "executing"
        BY <1>0, <1>2, <2>1, AgentEndsFields DEF AgentEndsUnheard, attemptVars, poolVars
    <2>3. \A v \in Works \ {w} : SameWork(v) /\ SameSeat(v)
        BY <2>2 DEF SameWork, SameSeat
    <2>4. WorkStands(w)'
        <3>1. WorkStands(w)
            BY DEF SaveInv
        <3>2. states[w] = "running" /\ apc[w] \in {"feedback", "notified", "error"}
            BY <2>2, <3>1 DEF WorkStands, AgentIsHeard
        <3> QED
            BY <2>2, <3>1, <3>2
            DEF WorkStands, AgentIsHeard, SaveStands, SavedIsStored, UnconfirmedKept, SavePcs
    <2> QED
        BY <2>3, <2>4, SameWorkStands DEF SaveInv
<1> QED
    BY <1>1, <1>2


-----------------------------------------------------------------------------
(* The steps of the main loop and of the pool keep what is known of the works *)

LEMMA ToldStands ==
    ASSUME NEW v \in Works, WorkStands(v),
           UNCHANGED <<apc, states, ending, memory, stored, receipt, attached, reservations>>,
           agent'[v] = "idle" <=> agent[v] = "idle",
           interrupted[v] => interrupted'[v]
    PROVE  WorkStands(v)'
    BY DEF WorkStands, AgentIsHeard, SaveStands, SavedIsStored, UnconfirmedKept

(* The attempts an iteration may reap: none of them failed. *)
LEMMA ReapedStands ==
    ASSUME NEW v \in Works, WorkStands(v), apc[v] # "error",
           UNCHANGED <<ending, agent, memory, stored, interrupted, attached, reservations>>,
           states'[v] = states[v], receipt'[v] = receipt[v],
           apc'[v] = apc[v] \/ (apc[v] \in Finished /\ apc'[v] = "none")
    PROVE  WorkStands(v)'
<1>1. CASE apc'[v] = apc[v]
    BY <1>1, SameWorkStands DEF SameWork, SameSeat
<1>2. CASE apc[v] \in {"true", "false"} /\ apc'[v] = "none"
    BY <1>2
    DEF WorkStands, AgentIsHeard, SaveStands, SavedIsStored, UnconfirmedKept, SavePcs
<1> QED
    BY <1>1, <1>2 DEF Finished

(* The work that gets an attempt: its last one was reaped, in this iteration or *)
(* in an earlier one, so that no execution of it is alive.                      *)
LEMMA BegunStands ==
    ASSUME NEW v \in Works, WorkStands(v), QueueTypeOK,
           apc[v] \in {"none", "true", "false"}, NEW n \in Nat, receipt[v] < n,
           UNCHANGED <<agent, memory, stored>>,
           states'[v] = "running", receipt'[v] = n, apc'[v] = "created"
    PROVE  WorkStands(v)'
<1>1. agent[v] = "idle"
    BY DEF WorkStands, AgentIsHeard
<1>2. stored[v] <= n
    <2>1. stored[v] <= receipt[v] /\ stored[v] \in Nat /\ receipt[v] \in Nat
        BY DEF WorkStands, SaveStands, QueueTypeOK
    <2> QED
        BY <2>1
<1> QED
    BY <1>1, <1>2
    DEF WorkStands, AgentIsHeard, SaveStands, SavedIsStored, UnconfirmedKept, SavePcs

LEMMA MainStands ==
    ASSUME BasicInv, SaveInv, NEW r \in Runs,
           MainStep(r) \/ RequestCancel(r) \/ CancelledElsewhere(r)
    PROVE  \A v \in Works : WorkStands(v)'
<1>0. PoolTypeOK /\ QueueTypeOK /\ CallInv /\ Numbered /\ SeatKept
    BY BasicTypes DEF CallInv
<1> SUFFICES ASSUME NEW v \in Works PROVE WorkStands(v)'
    OBVIOUS
<1>v. WorkStands(v)
    BY DEF SaveInv
<1>1. ASSUME EnqueueNext(r) PROVE WorkStands(v)'
    <2>1. UNCHANGED <<apc, agent, memory, stored, receipt, ending, interrupted, attached,
                      reservations>>
        BY <1>1 DEF EnqueueNext, Enqueue, agentVars
    <2>2. \/ states'[v] = states[v]
          \/ states'[v] = "queued" /\ v \in WorksOf(r)
        <3> DEFINE w == WorkList[r][enqueued[r] + 1]
        <3>1. enqueued[r] + 1 \in 1..Len(WorkList[r])
            BY <1>0, <1>1, ChapterWorkersAssumption DEF EnqueueNext, QueueTypeOK
        <3>2. w \in WorksOf(r)
            BY <3>1, ChapterWorkersAssumption
        <3>3. states' = [states EXCEPT ![w] = "queued"]
            BY <1>1 DEF EnqueueNext
        <3> QED
            BY <1>0, <3>2, <3>3 DEF QueueTypeOK
    <2>3. CASE states'[v] = states[v]
        BY <1>v, <2>1, <2>3, SameWorkStands DEF SameWork, SameSeat
    <2>4. CASE states'[v] = "queued" /\ v \in WorksOf(r)
        <3>1. apc[v] = "none"
            BY <1>0, <1>1, <2>4 DEF EnqueueNext, CallInv, NotStarted
        <3> QED
            BY <1>v, <2>1, <2>4, <3>1
            DEF WorkStands, AgentIsHeard, SaveStands, SavedIsStored, UnconfirmedKept, SavePcs
    <2> QED
        BY <2>2, <2>3, <2>4
<1>2. ASSUME \/ LoopBegins(r) \/ AttemptRaised(r) \/ CancelledInLoop(r) \/ ModelTaskEnded(r)
             \/ RequestCancel(r) \/ AllTold(r) \/ AllGathered(r) \/ CancelModelTask(r)
             \/ ClosePool(r)
      PROVE  WorkStands(v)'
    <2>1. UNCHANGED <<attemptVars, agentVars>>
        BY <1>2 DEF LoopBegins, AttemptRaised, CancelledInLoop, ModelTaskEnded, RequestCancel,
                    AllTold, AllGathered, CancelModelTask, ClosePool
    <2>2. SameSeat(v)
        <3>1. CASE ClosePool(r)
            BY <1>0, <3>1, ModelElectionAssumption DEF ClosePool, Close, SameSeat, PoolTypeOK
        <3>2. CASE ~ClosePool(r)
            <4>1. UNCHANGED <<attached, reservations>>
                BY <1>2, <3>2
                DEF LoopBegins, StartLoop, AttemptRaised, CancelledInLoop, ModelTaskEnded,
                    StopElections, RequestCancel, AllTold, AllGathered, CancelModelTask,
                    CancelLoop, poolVars
            <4> QED
                BY <4>1 DEF SameSeat
        <3> QED
            BY <3>1, <3>2
    <2> QED
        BY <1>v, <2>1, <2>2, SameWorks, SameWorkStands
<1>3. ASSUME Reap(r) \/ DispatchRefused(r) PROVE WorkStands(v)'
    <2>1. /\ UNCHANGED <<states, receipt, ending, interrupted, agentVars, attached, reservations>>
          /\ \A w \in WorksOf(r) : apc[w] # "error"
          /\ apc' = [w \in Works |-> IF w \in Done(r) THEN "none" ELSE apc[w]]
        BY <1>3 DEF Reap, DispatchRefused, StopElections, poolVars, TakeAssignment
    <2>2. CASE v \in Done(r)
        <3>1. apc[v] \in Finished /\ apc'[v] = "none" /\ apc[v] # "error"
            BY <2>1, <2>2 DEF Done
        <3> QED
            BY <1>v, <2>1, <3>1, ReapedStands DEF agentVars
    <2>3. CASE v \notin Done(r)
        <3>1. apc'[v] = apc[v]
            BY <2>1, <2>3
        <3> QED
            BY <1>v, <2>1, <3>1, SameWorkStands DEF SameWork, SameSeat, agentVars
    <2> QED
        BY <2>2, <2>3
<1>4. ASSUME Dispatch(r) PROVE WorkStands(v)'
    <2> DEFINE a == Head(assignments[r])
               w == a.work
    <2>1. /\ UNCHANGED <<ending, interrupted, agent, memory, stored, attached, reservations>>
          /\ \A u \in WorksOf(r) : apc[u] # "error"
          /\ assignments[r] # <<>>
          /\ w \notin Unfinished(r)
          /\ apc' = [u \in Works |-> IF u = w THEN "created"
                                     ELSE IF u \in Done(r) THEN "none" ELSE apc[u]]
          /\ states' = [states EXCEPT ![w] = "running"]
          /\ receipt' = [receipt EXCEPT ![w] = a.attempt]
        BY <1>4 DEF Dispatch, TakeAssignment, agentVars
    <2>2. FreshAssignment(r, 1) /\ a = assignments[r][1] /\ w \in WorksOf(r) /\ a.attempt \in Nat
        BY <1>0, <2>1, HeadAssignment
    <2>3. receipt[w] < a.attempt /\ w \in Works
        BY <2>2 DEF FreshAssignment, WorksOf
    <2>4. CASE v = w
        <3>1. apc[v] \in {"none", "true", "false"}
            BY <2>1, <2>2, <2>4 DEF Unfinished, Active, Done, Finished
        <3>2. states'[v] = "running" /\ receipt'[v] = a.attempt /\ apc'[v] = "created"
            BY <1>0, <2>1, <2>4 DEF QueueTypeOK
        <3>3. receipt[v] < a.attempt
            BY <2>3, <2>4
        <3> QED
            BY <1>0, <1>v, <2>1, <2>2, <3>1, <3>2, <3>3, BegunStands
    <2>5. CASE v # w
        <3>1. states'[v] = states[v] /\ receipt'[v] = receipt[v]
            BY <1>0, <2>1, <2>5 DEF QueueTypeOK
        <3>2. CASE v \in Done(r)
            <4>1. apc[v] \in Finished /\ apc'[v] = "none" /\ apc[v] # "error"
                BY <2>1, <2>5, <3>2 DEF Done
            <4> QED
                BY <1>v, <2>1, <3>1, <4>1, ReapedStands
        <3>3. CASE v \notin Done(r)
            <4>1. apc'[v] = apc[v]
                BY <2>1, <2>5, <3>3
            <4> QED
                BY <1>v, <2>1, <3>1, <4>1, SameWorkStands DEF SameWork, SameSeat
        <3> QED
            BY <3>2, <3>3
    <2> QED
        BY <2>4, <2>5
<1>5. ASSUME (\E w \in Works : TellCancel(r, w)) \/ CancelledElsewhere(r) PROVE WorkStands(v)'
    <2>1. /\ UNCHANGED <<apc, states, ending, memory, stored, receipt, attached, reservations>>
          /\ interrupted[v] => interrupted'[v]
        BY <1>0, <1>5
        DEF TellCancel, CancelledElsewhere, poolVars, attemptVars, QueueTypeOK
    <2>2. agent'[v] = "idle" <=> agent[v] = "idle"
        BY <1>0, <1>5 DEF TellCancel, CancelledElsewhere, Told, QueueTypeOK
    <2> QED
        BY <1>v, <2>1, <2>2, ToldStands
<1> QED
    BY <1>1, <1>2, <1>3, <1>4, <1>5 DEF MainStep

LEMMA PoolGivesFreely ==
    ASSUME BasicInv, NEW r \in Runs, LoopStep(r), NEW v \in Works
    PROVE  reservations'[v] = reservations[v] \/ reservations[v] = 0
<1>0. PoolTypeOK /\ CallInv /\ LedgerInv /\ TypeInv
    BY BasicTypes DEF BasicInv
<1>1. CASE Publish(r)
    <2>1. electing[r] \in Assignment /\ HandOut(r, electing[r])
        BY <1>0, <1>1 DEF Publish, TypeInv, ResultHeld
    <2>2. reservations[electing[r].work] = 0
        BY <1>0, <1>1 DEF Publish, LedgerInv, NotifyHoldsSeat, HeldSeat
    <2> QED
        BY <1>0, <2>1, <2>2, HandOutFields
<1>2. ASSUME NEW w \in Works, NEW m \in Models, Elect(r, w, m)
      PROVE  reservations'[v] = reservations[v] \/ reservations[v] = 0
    <2>1. reservations[w] = 0
        BY <1>2 DEF Elect, MayElect
    <2>2. \A u \in Works \ {w} : reservations'[u] = reservations[u]
        BY <1>0, <1>2 DEF Elect, HandOut, PoolTypeOK
    <2> QED
        BY <2>1, <2>2
<1>3. CASE (\E w \in Works : ElectionFails(r, w)) \/ LoopEnds(r) \/ LoopCrashes(r)
    BY <1>3 DEF ElectionFails, LoopEnds, LoopCrashes
<1> QED
    BY <1>1, <1>2, <1>3 DEF LoopStep

LEMMA PoolStands ==
    ASSUME BasicInv, SaveInv, UNCHANGED queueVars, (\E r \in Runs : LoopStep(r)) \/ Surroundings
    PROVE  \A v \in Works : WorkStands(v)'
<1>0. PoolTypeOK /\ QueueTypeOK /\ CallInv /\ Numbered
    BY BasicTypes DEF CallInv
<1> SUFFICES ASSUME NEW v \in Works PROVE WorkStands(v)'
    OBVIOUS
<1>v. WorkStands(v)
    BY DEF SaveInv
<1>1. SameWork(v)
    BY SameWorks DEF queueVars
<1>2. attached' = attached
    BY <1>0, LoopOnlyEnds
<1>3. states'[v] = "save_unconfirmed" /\ attached[RunOf[v]] => reservations'[v] = reservations[v]
    <2>1. CASE Surroundings
        BY <2>1 DEF Surroundings, CoolingEnds, ScoreDrops, ScoreRecovers, Reconfigure
    <2>2. CASE \E r \in Runs : LoopStep(r)
        <3>1. SUFFICES ASSUME states[v] = "save_unconfirmed", attached[RunOf[v]]
                       PROVE  reservations[v] # 0
            BY <1>1, <2>2, PoolGivesFreely DEF SameWork
        <3>2. apc[v] = "error" /\ reservations[v] = receipt[v]
            BY <1>v, <3>1 DEF WorkStands, UnconfirmedKept
        <3>3. receipt[v] > 0
            BY <1>0, <3>2 DEF Numbered
        <3> QED
            BY <3>2, <3>3
    <2> QED
        BY <2>1, <2>2
<1> QED
    BY <1>v, <1>1, <1>2, <1>3, SameWorkStands DEF SameSeat

LEMMA SaveStep == BasicInv /\ SaveInv /\ [Next]_vars => SaveInv'
<1> SUFFICES ASSUME BasicInv, SaveInv, [Next]_vars PROVE SaveInv'
    OBVIOUS
<1>1. WayOut'
    BY WayOutStep DEF SaveInv
<1>2. ASSUME UNCHANGED vars PROVE \A v \in Works : WorkStands(v)'
    BY <1>2, SameWorks, SameWorkStands
    DEF SaveInv, vars, queueVars, poolVars, SameSeat
<1>3. \A v \in Works : WorkStands(v)'
    BY <1>2, AttemptStands, MainStands, PoolStands DEF Next
<1> QED
    BY <1>1, <1>3 DEF SaveInv

LEMMA SaveInvariant == Spec => []SaveInv
    BY SaveInit, SaveStep, BasicInvariant, PTL DEF Spec

-----------------------------------------------------------------------------
(* What the steps of the main loop do to the works *)

Reaped(r, v) ==
    v \in WorksOf(r) /\ apc[v] \in {"true", "false"} /\ apc'[v] = "none" /\ qpc[r] = "loop"

LEMMA MainFields ==
    ASSUME BasicInv, NEW r \in Runs,
           MainStep(r) \/ RequestCancel(r) \/ CancelledElsewhere(r), ~Dispatch(r)
    PROVE  /\ UNCHANGED <<receipt, ending, memory, stored>>
           /\ \A v \in Works : apc'[v] = apc[v] \/ Reaped(r, v)
<1>1. CASE Reap(r) \/ DispatchRefused(r)
    <2>1. /\ UNCHANGED <<receipt, ending, memory, stored>>
          /\ qpc[r] = "loop"
          /\ \A v \in WorksOf(r) : apc[v] # "error"
          /\ apc' = [v \in Works |-> IF v \in Done(r) THEN "none" ELSE apc[v]]
        BY <1>1 DEF Reap, DispatchRefused, agentVars
    <2>2. \A v \in Works : apc'[v] = apc[v] \/ Reaped(r, v)
        BY <2>1 DEF Reaped, Done, Finished
    <2> QED
        BY <2>1, <2>2
<1>2. CASE ~(Reap(r) \/ DispatchRefused(r))
    <2>1. UNCHANGED <<receipt, ending, memory, stored, apc>>
        BY <1>2 DEF MainStep, EnqueueNext, LoopBegins, AttemptRaised, CancelledInLoop,
                    ModelTaskEnded, RequestCancel, AllTold, AllGathered, CancelModelTask,
                    ClosePool, TellCancel, CancelledElsewhere, agentVars, attemptVars
    <2> QED
        BY <2>1
<1> QED
    BY <1>1, <1>2

LEMMA DispatchFields ==
    ASSUME BasicInv, NEW r \in Runs, Dispatch(r), NEW w, w = Head(assignments[r]).work
    PROVE  /\ w \in WorksOf(r) /\ w \in Works
           /\ AssignedTo(r, w)
           /\ qpc[r] = "loop" /\ LoopAlive(r)
           /\ apc[w] \in {"none", "true", "false"}
           /\ apc'[w] = "created" /\ states'[w] = "running"
           /\ receipt'[w] = Head(assignments[r]).attempt
           /\ receipt'[w] \in Nat /\ receipt[w] < receipt'[w]
           /\ attached[r] => reservations[w] = receipt'[w]
           /\ \A v \in Works \ {w} : /\ receipt'[v] = receipt[v]
                                     /\ states'[v] = states[v]
                                     /\ apc'[v] = apc[v] \/ Reaped(r, v)
           /\ assignments' = [assignments EXCEPT ![r] = Tail(@)]
           /\ UNCHANGED <<stored, memory, agent, ending, interrupted, pending, electing, mpc,
                          reservations, attempts, attached, seats>>
<1>0. PoolTypeOK /\ QueueTypeOK
    BY BasicTypes
<1> DEFINE a == Head(assignments[r])
<1>1. /\ UNCHANGED <<stored, memory, agent, ending, interrupted, pending, electing, mpc,
                     reservations, attempts, attached, seats>>
      /\ \A u \in WorksOf(r) : apc[u] # "error"
      /\ assignments[r] # <<>>
      /\ assignments' = [assignments EXCEPT ![r] = Tail(@)]
      /\ w \notin Unfinished(r)
      /\ qpc[r] = "loop" /\ LoopAlive(r)
      /\ apc' = [u \in Works |-> IF u = w THEN "created"
                                 ELSE IF u \in Done(r) THEN "none" ELSE apc[u]]
      /\ states' = [states EXCEPT ![w] = "running"]
      /\ receipt' = [receipt EXCEPT ![w] = a.attempt]
    BY DEF Dispatch, TakeAssignment, agentVars
<1>2. /\ FreshAssignment(r, 1) /\ a = assignments[r][1] /\ 1 \in 1..Len(assignments[r])
      /\ w \in WorksOf(r) /\ a.attempt \in Nat
    BY <1>1, HeadAssignment
<1>3. /\ w \in Works /\ receipt[w] < a.attempt
      /\ attached[r] => reservations[w] = a.attempt
    BY <1>2 DEF FreshAssignment, WorksOf
<1>4. AssignedTo(r, w)
    BY <1>2 DEF AssignedTo
<1>5. apc[w] \in {"none", "true", "false"}
    BY <1>1, <1>2 DEF Unfinished, Active, Done, Finished
<1>6. apc'[w] = "created" /\ states'[w] = "running" /\ receipt'[w] = a.attempt
    BY <1>0, <1>1, <1>3 DEF QueueTypeOK
<1>7. \A v \in Works \ {w} : /\ receipt'[v] = receipt[v]
                             /\ states'[v] = states[v]
                             /\ apc'[v] = apc[v] \/ Reaped(r, v)
    BY <1>0, <1>1 DEF QueueTypeOK, Reaped, Done, Finished
<1> QED
    BY <1>1, <1>2, <1>3, <1>4, <1>5, <1>6, <1>7

-----------------------------------------------------------------------------
(* What the main loop counts *)

(* A work whose success was counted: it was saved, by an attempt that was reaped. *)
Credit(w) == stored[w] # 0 /\ (apc[w] = "none" \/ stored[w] # receipt[w])
Credited(r) == {w \in WorksOf(r) : Credit(w)}

CountBound == \A r \in Runs : succeeded[r] <= Cardinality(Credited(r))

LEMMA CreditedAreCounted ==
    ASSUME NEW r \in Runs
    PROVE  IsFiniteSet(Credited(r)) /\ Cardinality(Credited(r)) \in Nat
    BY WorksAreFinite, FS_Subset, FS_CardinalityType DEF Credited

LEMMA CreditStays ==
    ASSUME BasicInv, SaveInv, [Next]_vars, NEW v \in Works, Credit(v)
    PROVE  Credit(v)'
<1>0. PoolTypeOK /\ QueueTypeOK
    BY BasicTypes
<1>1. ASSUME NEW w \in Works, AttemptStep(w) PROVE Credit(v)'
    <2>1. OnlyOf(w) /\ AttemptMoves(w)
        BY <1>0, <1>1, AttemptLeads
    <2>2. CASE v # w
        BY <2>1, <2>2 DEF OnlyOf, Credit
    <2>3. CASE v = w
        BY <2>1, <2>3 DEF OnlyOf, AttemptMoves, Credit
    <2> QED
        BY <2>2, <2>3
<1>2. ASSUME UNCHANGED <<apc, stored, receipt>> PROVE Credit(v)'
    BY <1>2 DEF Credit
<1>3. ASSUME NEW w \in Works, AgentEndsUnheard(w) PROVE Credit(v)'
    BY <1>2, <1>3 DEF AgentEndsUnheard, AgentEnds, attemptVars
<1>4. ASSUME UNCHANGED queueVars PROVE Credit(v)'
    BY <1>2, <1>4 DEF queueVars, attemptVars, agentVars
<1>5. ASSUME NEW r \in Runs, MainStep(r) \/ RequestCancel(r) \/ CancelledElsewhere(r)
      PROVE  Credit(v)'
    <2>1. CASE ~Dispatch(r)
        BY <1>5, <2>1, MainFields DEF Credit, Reaped
    <2>2. CASE Dispatch(r)
        <3> DEFINE w == Head(assignments[r]).work
        <3>1. /\ stored' = stored
              /\ receipt[w] < receipt'[w] /\ receipt'[w] \in Nat
              /\ \A u \in Works \ {w} : /\ receipt'[u] = receipt[u]
                                        /\ apc'[u] = apc[u] \/ Reaped(r, u)
            BY <2>2, DispatchFields
        <3>2. CASE v # w
            BY <3>1, <3>2 DEF Credit, Reaped
        <3>3. CASE v = w
            <4>1. stored[v] <= receipt[v] /\ stored[v] \in Nat /\ receipt[v] \in Nat
                BY <1>0 DEF SaveInv, WorkStands, SaveStands, QueueTypeOK
            <4>2. stored'[v] # receipt'[v]
                BY <3>1, <3>3, <4>1
            <4> QED
                BY <3>1, <4>2 DEF Credit
        <3> QED
            BY <3>2, <3>3
    <2> QED
        BY <2>1, <2>2
<1>6. CASE UNCHANGED vars
    BY <1>4, <1>6 DEF vars
<1> QED
    BY <1>1, <1>3, <1>4, <1>5, <1>6 DEF Next

(* A success about to be counted is of a work not counted yet. *)
LEMMA ReturnedAreNew ==
    ASSUME QueueTypeOK, SaveInv, NEW r \in Runs
    PROVE  \A w \in Returned(r) : ~Credit(w) /\ states[w] = "saved" /\ stored[w] # 0
<1> SUFFICES ASSUME NEW w \in Returned(r)
             PROVE  ~Credit(w) /\ states[w] = "saved" /\ stored[w] # 0
    OBVIOUS
<1>1. apc[w] = "true" /\ w \in Works
    BY DEF Returned, WorksOf
<1>2. WorkStands(w)
    BY <1>1 DEF SaveInv
<1>3. states[w] = "saved"
    BY <1>1, <1>2 DEF WorkStands, SaveStands
<1>4. stored[w] = receipt[w] /\ receipt[w] > 0
    BY <1>2, <1>3 DEF WorkStands, SavedIsStored
<1>5. stored[w] # 0
    BY <1>4
<1> QED
    BY <1>1, <1>3, <1>4, <1>5 DEF Credit

LEMMA CountWithReturned ==
    ASSUME QueueTypeOK, SaveInv, CountBound, NEW r \in Runs
    PROVE  /\ succeeded[r] + Cardinality(Returned(r))
                  <= Cardinality(Credited(r) \cup Returned(r))
           /\ IsFiniteSet(Credited(r) \cup Returned(r))
           /\ Cardinality(Credited(r) \cup Returned(r)) \in Nat
           /\ succeeded[r] + Cardinality(Returned(r)) \in Nat
<1> DEFINE C == Credited(r)
           R == Returned(r)
<1>1. /\ IsFiniteSet(C) /\ IsFiniteSet(R)
      /\ Cardinality(C) \in Nat /\ Cardinality(R) \in Nat
    BY CreditedAreCounted, ReturnedAreCounted
<1>2. C \cap R = {}
    BY ReturnedAreNew DEF Credited
<1>3. Cardinality({}) = 0
    BY FS_EmptySet
<1>4. /\ IsFiniteSet(C \cup R)
      /\ Cardinality(C \cup R) = Cardinality(C) + Cardinality(R) - Cardinality(C \cap R)
    BY <1>1, FS_Union
<1>5. Cardinality(C \cap R) = 0
    BY <1>2, <1>3
<1>6. \A x, y, z, u \in Nat : z = 0 /\ u = x + y - z => u = x + y
    OBVIOUS
<1>7. Cardinality(C \cup R) = Cardinality(C) + Cardinality(R)
    BY <1>1, <1>4, <1>5, <1>6, FS_CardinalityType
<1>8. succeeded[r] <= Cardinality(C) /\ succeeded[r] \in Nat
    BY DEF CountBound, QueueTypeOK
<1>9. Cardinality(C \cup R) \in Nat
    BY <1>4, FS_CardinalityType
<1>10. \A s, x, y \in Nat : s <= x => s + y <= x + y /\ s + y \in Nat
    OBVIOUS
<1>11. /\ succeeded[r] + Cardinality(R) <= Cardinality(C) + Cardinality(R)
       /\ succeeded[r] + Cardinality(R) \in Nat
    BY <1>1, <1>8, <1>10
<1> QED
    BY <1>4, <1>7, <1>9, <1>11

-----------------------------------------------------------------------------
(* Where the works of a run are while its loop runs *)
(* Otherwise what is queued or elected is not saved and not at work, and a saved *)
(* work is not done again.                                                       *)
AccountOf(r, w) ==
    /\ w \in Queued(r) => stored[w] = 0 /\ BackInQueue(w) /\ ~AssignedTo(r, w)
    /\ AssignedTo(r, w) => stored[w] = 0
    /\ apc[w] \in Unsaved => stored[w] = 0
    /\ apc[w] # "none" => stored[w] \in {0, receipt[w]}
    /\ apc[w] # "none" /\ BackInQueue(w) => stored[w] = 0
    /\ apc[w] = "none" /\ stored[w] # 0 => states[w] = "saved"

ElectsQueued(r) == mpc[r] = "notify" => electing[r].work \in Queued(r)

Accounted(r) == ElectsQueued(r) /\ \A w \in WorksOf(r) : AccountOf(r, w)

InAccount(r) == Lost(r) \/ Accounted(r)

QueueAccounted == \A r \in Runs : qpc[r] = "loop" => InAccount(r)

(* A step of an attempt that does not return its work to the queue, and a step *)
(* that reaps attempts.                                                        *)
GoesOn(w) ==
    /\ \/ stored'[w] = stored[w]
       \/ apc[w] = "saving" /\ stored[w] \in {0, receipt[w]} /\ stored'[w] = receipt[w]
    /\ receipt'[w] = receipt[w]
    /\ BackInQueue(w) => BackInQueue(w)'
    /\ BackInQueue(w)' => BackInQueue(w) \/ apc'[w] = "none"
    /\ apc'[w] \in Unsaved => apc[w] \in Unsaved
    /\ apc'[w] # "none" => apc[w] # "none"
    /\ apc'[w] = "none" => \/ apc[w] = "none" /\ states'[w] = states[w]
                           \/ apc[w] = "false"
                           \/ apc[w] = "true" /\ states'[w] = "saved"

SamePool(r) ==
    /\ pending'[r] = pending[r]
    /\ assignments'[r] = assignments[r]
    /\ electing'[r] = electing[r]
    /\ mpc'[r] = "notify" => mpc[r] = "notify"

LEMMA SamePoolHolds ==
    ASSUME NEW r, SamePool(r)
    PROVE  /\ Queued(r)' = Queued(r)
           /\ \A w : AssignedTo(r, w)' <=> AssignedTo(r, w)
           /\ \A w : Parked(r, w) => Parked(r, w)'
           /\ ElectsQueued(r) => ElectsQueued(r)'
<1>1. Queued(r)' = Queued(r) /\ \A w : AssignedTo(r, w)' <=> AssignedTo(r, w)
    BY DEF SamePool, Queued, AssignedTo
<1> QED
    BY <1>1 DEF SamePool, Parked, ElectsQueued

LEMMA AssignedRests ==
    ASSUME BasicInv, NEW r \in Runs, NEW w, AssignedTo(r, w)
    PROVE  apc[w] \notin Holding /\ w \in WorksOf(r)
<1>0. PoolTypeOK /\ CallInv
    BY BasicTypes
<1>1. PICK i \in 1..Len(assignments[r]) : assignments[r][i].work = w
    BY DEF AssignedTo
<1>2. FreshAssignment(r, i)
    BY <1>0, <1>1 DEF CallInv, AssignmentsFresh
<1>3. w \in Works
    BY <1>0, <1>1, AssignmentType
<1> QED
    BY <1>1, <1>2, <1>3 DEF FreshAssignment, WorksOf

LEMMA LostGoesOn ==
    ASSUME NEW w, GoesOn(w), stored[w] = 0, BackInQueue(w)
    PROVE  stored'[w] = 0 /\ BackInQueue(w)'
    BY DEF GoesOn, BackInQueue

LEMMA AccountGoesOn ==
    ASSUME BasicInv, NEW r \in Runs, NEW w, GoesOn(w), AccountOf(r, w),
           Queued(r)' = Queued(r), AssignedTo(r, w)' => AssignedTo(r, w)
    PROVE  AccountOf(r, w)'
<1>1. AssignedTo(r, w) => apc[w] # "saving"
    BY AssignedRests DEF Holding, SavePcs
<1>2. /\ w \in Queued(r)' => stored'[w] = 0 /\ BackInQueue(w)' /\ ~AssignedTo(r, w)'
      /\ AssignedTo(r, w)' => stored'[w] = 0
      /\ apc'[w] \in Unsaved => stored'[w] = 0
    BY <1>1 DEF GoesOn, AccountOf, BackInQueue, Unsaved
<1>3. apc'[w] # "none" => stored'[w] \in {0, receipt'[w]}
    BY DEF GoesOn, AccountOf
<1>4. apc'[w] # "none" /\ BackInQueue(w)' => stored'[w] = 0
    BY DEF GoesOn, AccountOf, BackInQueue
<1>5. apc'[w] = "none" /\ stored'[w] # 0 => states'[w] = "saved"
    BY DEF GoesOn, AccountOf, BackInQueue
<1> QED
    BY <1>2, <1>3, <1>4, <1>5 DEF AccountOf

(* The account of a run whose pool does nothing. *)
LEMMA GoingOn ==
    ASSUME BasicInv, NEW r \in Runs, InAccount(r), SamePool(r),
           \A w \in WorksOf(r) : GoesOn(w)
    PROVE  InAccount(r)'
<1>0. /\ Queued(r)' = Queued(r)
      /\ \A w : AssignedTo(r, w)' <=> AssignedTo(r, w)
      /\ \A w : Parked(r, w) => Parked(r, w)'
      /\ ElectsQueued(r) => ElectsQueued(r)'
    BY SamePoolHolds
<1>1. CASE Lost(r)
    <2>1. PICK w \in WorksOf(r) : LostWork(r, w)
        BY <1>1 DEF Lost
    <2>2. LostWork(r, w)'
        BY <1>0, <2>1, LostGoesOn DEF LostWork
    <2>3. w \in WorksOf(r)'
        BY DEF WorksOf
    <2> QED
        BY <2>2, <2>3 DEF InAccount, Lost
<1>2. CASE Accounted(r)
    <2>1. \A w \in WorksOf(r) : AccountOf(r, w)'
        BY <1>0, <1>2, AccountGoesOn DEF Accounted
    <2>2. Accounted(r)'
        BY <1>0, <1>2, <2>1 DEF Accounted, WorksOf
    <2> QED
        BY <2>2 DEF InAccount
<1> QED
    BY <1>1, <1>2 DEF InAccount

LEMMA StandsStill ==
    ASSUME NEW w, apc'[w] = apc[w], ending'[w] = ending[w], stored'[w] = stored[w],
           receipt'[w] = receipt[w], states'[w] = states[w]
    PROVE  GoesOn(w)
    BY DEF GoesOn, BackInQueue

(* Of an attempt that is to be retried: it returns its work to the queue, or it *)
(* fails.                                                                       *)
LEMMA AttemptKeepsQueue ==
    ASSUME PoolTypeOK, QueueTypeOK, NEW w \in Works, AttemptStep(w), ~Requeue(w)
    PROVE  /\ UNCHANGED <<pending, electing, assignments, mpc>>
           /\ apc[w] = "requeue" => ~BackInQueue(w)'
<1>1. CASE apc[w] = "requeue"
    <2>1. PoolGone(w) \/ Interrupted(w)
        BY <1>1 DEF AttemptStep, AttemptStarts, ReplyDropped, ExecutionRaises,
                    ExecutionCompletes, ExecutionRetries, ExecutionFails, SaveBegins,
                    SaveCommits, SaveRaises, Abort, Confirm, ConfirmRaises, Recover,
                    RecoverRaises, AfterSave, OnSaved, GiveBack, GiveBackEnds
    <2>2. CASE PoolGone(w)
        BY <2>2 DEF PoolGone, poolVars, QueueTypeOK, BackInQueue
    <2>3. CASE Interrupted(w)
        <3>1. Leave(w, "error") /\ UNCHANGED poolVars
            BY <1>1, <2>3 DEF Interrupted
        <3>2. apc'[w] = "error" \/ (apc'[w] = "feedback" /\ ending'[w] = "error")
            BY <3>1, LeaveFields
        <3> QED
            BY <3>1, <3>2 DEF poolVars, BackInQueue
    <2> QED
        BY <2>1, <2>2, <2>3
<1>2. CASE apc[w] # "requeue"
    <2>1. AsksOfPool(w)
        BY AttemptLeads
    <2> QED
        BY <1>2, <2>1 DEF AsksOfPool, poolVars, StopElections, Feedback
<1> QED
    BY <1>1, <1>2

LEMMA RequeueFields ==
    ASSUME PoolTypeOK, QueueTypeOK, QueueDistinct, NEW w \in Works, Requeue(w)
    PROVE  /\ apc[w] = "requeue" /\ attached[RunOf[w]]
           /\ apc'[w] \in {"false", "feedback"} /\ BackInQueue(w)'
           /\ UNCHANGED <<stored, receipt, states, electing, assignments, mpc>>
           /\ \A o \in Runs \ {RunOf[w]} : pending'[o] = pending[o]
           /\ Queued(RunOf[w])' = Queued(RunOf[w]) \cup {w}
<1>1. apc[w] = "requeue" /\ Enqueue(w) /\ Leave(w, "false")
    BY DEF Requeue
<1>2. UNCHANGED <<stored, receipt, states>>
    BY DEF Requeue, agentVars
<1>3. /\ \A o \in Runs \ {RunOf[w]} : pending'[o] = pending[o]
      /\ Elements(pending'[RunOf[w]]) = Queued(RunOf[w]) \cup {w}
      /\ UNCHANGED <<electing, assignments, mpc>>
      /\ attached[RunOf[w]]
    BY <1>1, EnqueueFields DEF Enqueue
<1>4. Queued(RunOf[w])' = Elements(pending'[RunOf[w]])
    BY DEF Queued, Elements
<1>5. apc'[w] = "false" \/ (apc'[w] = "feedback" /\ ending'[w] = "false")
    BY <1>1, LeaveFields
<1> QED
    BY <1>1, <1>2, <1>3, <1>4, <1>5 DEF BackInQueue

LEMMA AttemptAccounts ==
    ASSUME BasicInv, SaveInv, QueueDistinct, NEW w \in Works, AttemptStep(w),
           NEW r \in Runs, qpc[r] = "loop", InAccount(r)
    PROVE  InAccount(r)'
<1>0. PoolTypeOK /\ QueueTypeOK /\ CallInv
    BY BasicTypes
<1>1. OnlyOf(w) /\ AsksOfPool(w) /\ AttemptMoves(w)
    BY <1>0, AttemptLeads
<1>2. attached[r] /\ ~model_ended[r]
    <2>1. LeavesInOrder(r)
        BY DEF SaveInv, WayOut
    <2> QED
        BY <1>0, <2>1 DEF CallInv, OpenUntilOver, LeavesInOrder, Over
<1>3. \A v \in Works \ {w} : GoesOn(v)
    BY <1>1, StandsStill DEF OnlyOf
<1>4. CASE ~Requeue(w)
    <2>1. SamePool(r) /\ (apc[w] = "requeue" => ~BackInQueue(w)')
        BY <1>0, <1>4, AttemptKeepsQueue DEF SamePool
    <2>2. w \in WorksOf(r) => GoesOn(w)
        BY <1>1, <1>2, <2>1 DEF WorksOf, OnlyOf, AttemptMoves, GoesOn
    <2>3. \A v \in WorksOf(r) : GoesOn(v)
        BY <1>3, <2>2 DEF WorksOf
    <2> QED
        BY <2>1, <2>3, GoingOn
<1>5. CASE Requeue(w)
    <2>1. /\ apc[w] = "requeue" /\ attached[RunOf[w]]
          /\ apc'[w] \in {"false", "feedback"} /\ BackInQueue(w)'
          /\ UNCHANGED <<stored, receipt, states, electing, assignments, mpc>>
          /\ \A o \in Runs \ {RunOf[w]} : pending'[o] = pending[o]
          /\ Queued(RunOf[w])' = Queued(RunOf[w]) \cup {w}
        BY <1>0, <1>5, RequeueFields
    <2>2. CASE RunOf[w] # r
        <3>1. SamePool(r)
            BY <2>1, <2>2 DEF SamePool
        <3>2. \A v \in WorksOf(r) : GoesOn(v)
            BY <1>3, <2>2 DEF WorksOf
        <3> QED
            BY <3>1, <3>2, GoingOn
    <2>3. CASE RunOf[w] = r
        <3>1. /\ Queued(r)' = Queued(r) \cup {w}
              /\ \A v : AssignedTo(r, v)' <=> AssignedTo(r, v)
            BY <2>1, <2>3 DEF AssignedTo
        <3>2. CASE Lost(r)
            <4>1. PICK u \in WorksOf(r) : LostWork(r, u)
                BY <3>2 DEF Lost
            <4>2. u # w
                BY <2>1, <4>1 DEF LostWork, BackInQueue
            <4>3. GoesOn(u) /\ stored[u] = 0 /\ BackInQueue(u)
                BY <1>3, <4>1, <4>2 DEF WorksOf, LostWork
            <4>4. stored'[u] = 0 /\ BackInQueue(u)'
                BY <4>3, LostGoesOn
            <4>5. Parked(r, u)'
                BY <2>1, <3>1, <4>1, <4>2 DEF LostWork, Parked
            <4> QED
                BY <4>4, <4>5 DEF InAccount, Lost, LostWork, WorksOf
        <3>3. CASE Accounted(r)
            <4>1. ElectsQueued(r)'
                BY <2>1, <3>1, <3>3 DEF Accounted, ElectsQueued
            <4>2. AccountOf(r, w)'
                <5>1. stored[w] = 0
                    BY <2>1, <2>3, <3>3 DEF Accounted, AccountOf, Unsaved, WorksOf
                <5>2. ~AssignedTo(r, w)
                    BY <2>1, AssignedRests DEF Holding
                <5> QED
                    BY <2>1, <3>1, <5>1, <5>2 DEF AccountOf, Unsaved
            <4>3. ASSUME NEW v \in WorksOf(r), v # w PROVE AccountOf(r, v)'
                <5>1. /\ apc'[v] = apc[v] /\ ending'[v] = ending[v] /\ stored'[v] = stored[v]
                      /\ receipt'[v] = receipt[v] /\ states'[v] = states[v]
                    BY <1>1, <4>3 DEF OnlyOf, WorksOf
                <5>2. v \in Queued(r)' <=> v \in Queued(r)
                    BY <3>1, <4>3
                <5>3. AccountOf(r, v)
                    BY <3>3, <4>3 DEF Accounted
                <5> QED
                    BY <3>1, <5>1, <5>2, <5>3 DEF AccountOf, BackInQueue
            <4> QED
                BY <4>1, <4>2, <4>3 DEF InAccount, Accounted, WorksOf
        <3> QED
            BY <3>2, <3>3 DEF InAccount
    <2> QED
        BY <2>2, <2>3
<1> QED
    BY <1>4, <1>5

(* The pools of the other runs. *)
LEMMA PoolsApart ==
    ASSUME PoolTypeOK, NEW p \in Runs, LoopStep(p), NEW r \in Runs \ {p}
    PROVE  SamePool(r)
<1>1. ASSUME NEW a, HandOut(p, a) PROVE pending'[r] = pending[r] /\ assignments'[r] = assignments[r]
    BY <1>1 DEF HandOut, PoolTypeOK
<1>2. CASE Publish(p)
    <2>1. HandOut(p, electing[p]) /\ electing'[r] = electing[r] /\ mpc'[r] = mpc[r]
        BY <1>2 DEF Publish, PoolTypeOK
    <2> QED
        BY <1>1, <2>1 DEF SamePool
<1>3. ASSUME NEW w \in Works, NEW m \in Models, Elect(p, w, m) PROVE SamePool(r)
    <2>1. /\ (\E a : HandOut(p, a)) \/ UNCHANGED <<pending, assignments>>
          /\ electing'[r] = electing[r] /\ mpc'[r] = mpc[r]
        BY <1>3 DEF Elect, PoolTypeOK
    <2> QED
        BY <1>1, <2>1 DEF SamePool
<1>4. CASE (\E w \in Works : ElectionFails(p, w)) \/ LoopEnds(p) \/ LoopCrashes(p)
    BY <1>4 DEF ElectionFails, LoopEnds, LoopCrashes, SamePool, PoolTypeOK
<1> QED
    BY <1>2, <1>3, <1>4 DEF LoopStep

(* The publication: the work handed out was at the head of the queue, or the one *)
(* dropped in its place is lost.                                                 *)
LEMMA HandOutAccounts ==
    ASSUME BasicInv, QueueDistinct, NEW r \in Runs, NEW a \in Assignment,
           pending[r] # <<>>, HandOut(r, a), UNCHANGED queueVars, mpc'[r] # "notify",
           \A w : Parked(r, w) => w # a.work,
           Accounted(r) => a.work \in Queued(r), InAccount(r)
    PROVE  InAccount(r)'
<1>0. PoolTypeOK /\ QueueTypeOK /\ LedgerInv
    BY BasicTypes
<1>h. PICK h : h = Head(pending[r])
    OBVIOUS
<1>1. /\ Queued(r)' = Queued(r) \ {h}
      /\ h \in Queued(r)
      /\ \A v : AssignedTo(r, v)' <=> AssignedTo(r, v) \/ v = a.work
    <2>1. /\ Elements(pending'[r]) = Queued(r) \ {h}
          /\ h \in Queued(r)
          /\ \A v : AssignedTo(r, v)' <=> AssignedTo(r, v) \/ v = a.work
        BY <1>0, <1>h, HandOutQueue
    <2>2. Queued(r)' = Elements(pending'[r])
        BY DEF Queued, Elements
    <2> QED
        BY <2>1, <2>2
<1>2. h \in WorksOf(r)
    <2>1. PICK i \in 1..Len(pending[r]) : h = pending[r][i]
        BY <1>1 DEF Queued
    <2>2. pending[r] \in Seq(Works)
        BY <1>0 DEF PoolTypeOK
    <2>3. h \in Works
        BY <2>1, <2>2
    <2> QED
        BY <1>0, <2>1, <2>3 DEF LedgerInv, QueueOwned, WorksOf
<1>3. UNCHANGED <<apc, ending, stored, receipt, states>>
    BY DEF queueVars, attemptVars, agentVars
<1>4. CASE Lost(r)
    <2>1. PICK u \in WorksOf(r) : LostWork(r, u)
        BY <1>4 DEF Lost
    <2>2. Parked(r, u)'
        BY <1>1, <2>1 DEF LostWork, Parked
    <2>3. LostWork(r, u)'
        BY <1>3, <2>1, <2>2 DEF LostWork, BackInQueue
    <2> QED
        BY <2>3 DEF InAccount, Lost, WorksOf
<1>5. CASE Accounted(r) /\ h # a.work
    <2>1. stored[h] = 0 /\ BackInQueue(h) /\ ~AssignedTo(r, h)
        BY <1>1, <1>2, <1>5 DEF Accounted, AccountOf
    <2>2. Parked(r, h)'
        BY <1>1, <1>5, <2>1 DEF Parked
    <2>3. LostWork(r, h)'
        BY <1>3, <2>1, <2>2 DEF LostWork, BackInQueue
    <2> QED
        BY <1>2, <2>3 DEF InAccount, Lost, WorksOf
<1>6. CASE Accounted(r) /\ h = a.work
    <2>1. ASSUME NEW v \in WorksOf(r) PROVE AccountOf(r, v)'
        <3>1. AccountOf(r, v)
            BY <1>6, <2>1 DEF Accounted
        <3>2. v = h => v \in Queued(r)
            BY <1>1
        <3> QED
            BY <1>1, <1>3, <1>6, <3>1, <3>2 DEF AccountOf, BackInQueue
    <2>2. ElectsQueued(r)'
        BY DEF ElectsQueued
    <2> QED
        BY <2>1, <2>2 DEF InAccount, Accounted, WorksOf
<1> QED
    BY <1>4, <1>5, <1>6 DEF InAccount

LEMMA PoolAccounts ==
    ASSUME BasicInv, QueueDistinct, NEW r \in Runs, LoopStep(r), UNCHANGED queueVars,
           InAccount(r)
    PROVE  InAccount(r)'
<1>0. PoolTypeOK /\ QueueTypeOK /\ LedgerInv /\ TypeInv
    BY BasicTypes DEF BasicInv
<1>a. UNCHANGED <<apc, ending, stored, receipt, states>>
    BY DEF queueVars, attemptVars, agentVars
<1>b. \A w \in WorksOf(r) : GoesOn(w)
    BY <1>a, StandsStill
<1>1. CASE Publish(r)
    <2>1. /\ mpc[r] = "notify" /\ mpc'[r] # "notify"
          /\ electing[r] \in Assignment /\ pending[r] # <<>>
          /\ HandOut(r, electing[r])
        BY <1>0, <1>1 DEF Publish, TypeInv, ResultHeld, PoolTypeOK
    <2>2. \A w : Parked(r, w) => w # electing[r].work
        BY <2>1 DEF Parked
    <2>3. Accounted(r) => electing[r].work \in Queued(r)
        BY <2>1 DEF Accounted, ElectsQueued
    <2> QED
        BY <2>1, <2>2, <2>3, HandOutAccounts
<1>2. ASSUME NEW w \in Works, NEW m \in Models, Elect(r, w, m) PROVE InAccount(r)'
    <2> DEFINE a == [work |-> w, attempt |-> attempts[w] + 1, model |-> m]
    <2>1. mpc[r] = "poll" /\ pending[r] # <<>> /\ w = pending[r][1] /\ 1 \in 1..Len(pending[r])
        BY <1>0, <1>2, HeadIsOwned DEF Elect, AtHead
    <2>2. w \in Queued(r)
        BY <2>1 DEF Queued
    <2>3. CASE ~NotifySuspends
        <3>1. HandOut(r, a) /\ mpc'[r] # "notify"
            BY <1>2, <2>1, <2>3 DEF Elect
        <3>2. a \in Assignment /\ a.work = w
            BY <1>0 DEF Assignment, PoolTypeOK
        <3>3. \A u : Parked(r, u) => u # w
            BY <2>2 DEF Parked
        <3> QED
            BY <2>1, <2>2, <3>1, <3>2, <3>3, HandOutAccounts
    <2>4. CASE NotifySuspends
        <3>1. /\ UNCHANGED <<pending, assignments>>
              /\ electing'[r] = a /\ a.work = w
            BY <1>0, <1>2, <2>4 DEF Elect, PoolTypeOK
        <3>2. /\ Queued(r)' = Queued(r)
              /\ \A v : AssignedTo(r, v)' <=> AssignedTo(r, v)
            BY <3>1 DEF Queued, AssignedTo
        <3>3. CASE Lost(r)
            <4>1. PICK u \in WorksOf(r) : LostWork(r, u)
                BY <3>3 DEF Lost
            <4>2. Parked(r, u)'
                BY <2>2, <3>1, <3>2, <4>1 DEF LostWork, Parked
            <4>3. LostWork(r, u)'
                BY <1>a, <4>1, <4>2 DEF LostWork, BackInQueue
            <4> QED
                BY <4>3 DEF InAccount, Lost, WorksOf
        <3>4. CASE Accounted(r)
            <4>1. ElectsQueued(r)'
                BY <2>2, <3>1, <3>2 DEF ElectsQueued
            <4>2. \A v \in WorksOf(r) : AccountOf(r, v)'
                BY <1>b, <3>2, <3>4, AccountGoesOn DEF Accounted
            <4> QED
                BY <4>1, <4>2 DEF InAccount, Accounted, WorksOf
        <3> QED
            BY <3>3, <3>4 DEF InAccount
    <2> QED
        BY <2>3, <2>4
<1>3. CASE (\E w \in Works : ElectionFails(r, w)) \/ LoopEnds(r) \/ LoopCrashes(r)
    <2>1. SamePool(r)
        BY <1>0, <1>3 DEF ElectionFails, AtHead, LoopEnds, LoopCrashes, SamePool, PoolTypeOK
    <2> QED
        BY <1>b, <2>1, GoingOn
<1> QED
    BY <1>1, <1>2, <1>3 DEF LoopStep

(* The main loops of the other runs. *)
LEMMA RunsApart ==
    ASSUME BasicInv, NEW p \in Runs,
           MainStep(p) \/ RequestCancel(p) \/ CancelledElsewhere(p)
    PROVE  /\ \A o \in Runs \ {p} : /\ SamePool(o)
                                    /\ qpc'[o] = qpc[o] /\ raising'[o] = raising[o]
                                    /\ succeeded'[o] = succeeded[o]
           /\ \A v \in Works : RunOf[v] # p => /\ apc'[v] = apc[v]
                                               /\ ending'[v] = ending[v]
                                               /\ stored'[v] = stored[v]
                                               /\ receipt'[v] = receipt[v]
                                               /\ states'[v] = states[v]
<1>0. PoolTypeOK /\ QueueTypeOK
    BY BasicTypes
<1>1. CASE EnqueueNext(p)
    <2> DEFINE w == WorkList[p][enqueued[p] + 1]
    <2>1. enqueued[p] + 1 \in 1..Len(WorkList[p])
        BY <1>0, <1>1, ChapterWorkersAssumption DEF EnqueueNext, QueueTypeOK
    <2>2. w \in WorksOf(p)
        BY <2>1, ChapterWorkersAssumption
    <2>3. /\ Enqueue(w) /\ states' = [states EXCEPT ![w] = "queued"]
          /\ UNCHANGED <<qpc, raising, succeeded, apc, ending, stored, receipt>>
        BY <1>1 DEF EnqueueNext, agentVars
    <2>4. RunOf[w] = p
        BY <2>2 DEF WorksOf
    <2>5. \A o \in Runs \ {p} : SamePool(o)
        BY <1>0, <2>3, <2>4 DEF Enqueue, SamePool, PoolTypeOK
    <2>6. \A v \in Works : RunOf[v] # p => states'[v] = states[v]
        BY <1>0, <2>3, <2>4 DEF QueueTypeOK
    <2> QED
        BY <2>3, <2>5, <2>6
<1>2. CASE Dispatch(p)
    <2> DEFINE w == Head(assignments[p]).work
    <2>1. /\ w \in WorksOf(p)
          /\ \A v \in Works \ {w} : /\ receipt'[v] = receipt[v]
                                    /\ states'[v] = states[v]
                                    /\ apc'[v] = apc[v] \/ Reaped(p, v)
          /\ assignments' = [assignments EXCEPT ![p] = Tail(@)]
          /\ UNCHANGED <<stored, ending, pending, electing, mpc>>
        BY <1>2, DispatchFields
    <2>2. \A o \in Runs \ {p} : SamePool(o)
        BY <1>0, <2>1 DEF SamePool, PoolTypeOK
    <2>3. /\ \E count, running : LoopHead(p, count, running)
          /\ \E count : succeeded' = [succeeded EXCEPT ![p] = count]
        BY <1>2 DEF Dispatch
    <2>4. \A o \in Runs \ {p} : qpc'[o] = qpc[o] /\ raising'[o] = raising[o]
        BY <1>0, <2>3, LoopHeadFields
    <2>5. \A o \in Runs \ {p} : succeeded'[o] = succeeded[o]
        BY <1>0, <2>3 DEF QueueTypeOK
    <2> QED
        BY <2>1, <2>2, <2>4, <2>5 DEF Reaped, WorksOf
<1>3. CASE ~EnqueueNext(p) /\ ~Dispatch(p)
    <2>1. /\ UNCHANGED <<receipt, ending, stored>>
          /\ \A v \in Works : apc'[v] = apc[v] \/ Reaped(p, v)
        BY <1>3, MainFields
    <2>2. UNCHANGED states
        BY <1>3 DEF MainStep, LoopBegins, AttemptRaised, CancelledInLoop, ModelTaskEnded, Reap,
                    DispatchRefused, RequestCancel, AllTold, AllGathered, CancelModelTask,
                    ClosePool, TellCancel, CancelledElsewhere, attemptVars
    <2>3. /\ UNCHANGED <<pending, electing>>
          /\ \A o \in Runs \ {p} : assignments'[o] = assignments[o] /\ mpc'[o] = mpc[o]
        BY <1>0, <1>3
        DEF MainStep, LoopBegins, StartLoop, AttemptRaised, CancelledInLoop, ModelTaskEnded,
            Reap, DispatchRefused, RequestCancel, AllTold, AllGathered, CancelModelTask,
            CancelLoop, ClosePool, Close, TellCancel, CancelledElsewhere, StopElections,
            TakeAssignment, poolVars, PoolTypeOK
    <2>4. \A o \in Runs \ {p} : qpc'[o] = qpc[o] /\ raising'[o] = raising[o]
        <3>1. CASE Reap(p)
            <4>1. \E count, running : LoopHead(p, count, running)
                BY <3>1 DEF Reap
            <4> QED
                BY <1>0, <4>1, LoopHeadFields
        <3>2. CASE \E running : Raise(p, running)
            BY <1>0, <3>2, RaiseFields
        <3>3. CASE ~Reap(p) /\ ~(\E running : Raise(p, running))
            BY <1>0, <1>3, <3>3
            DEF MainStep, LoopBegins, AttemptRaised, CancelledInLoop, ModelTaskEnded,
                DispatchRefused, RequestCancel, AllTold, AllGathered, CancelModelTask,
                ClosePool, TellCancel, CancelledElsewhere, QueueTypeOK
        <3> QED
            BY <3>1, <3>2, <3>3
    <2>5. \A o \in Runs \ {p} : succeeded'[o] = succeeded[o]
        BY <1>0, <1>3
        DEF MainStep, LoopBegins, AttemptRaised, CancelledInLoop, ModelTaskEnded, Reap,
            DispatchRefused, RequestCancel, AllTold, AllGathered, CancelModelTask,
            ClosePool, TellCancel, CancelledElsewhere, QueueTypeOK
    <2> QED
        BY <2>1, <2>2, <2>3, <2>4, <2>5 DEF Reaped, WorksOf, SamePool
<1> QED
    BY <1>1, <1>2, <1>3

(* Reaping a success or a retry. *)
LEMMA ReapedGoesOn ==
    ASSUME SaveInv, NEW r \in Runs, NEW v \in Works, Reaped(r, v),
           receipt'[v] = receipt[v], stored'[v] = stored[v], states'[v] = states[v]
    PROVE  GoesOn(v)
<1>1. apc[v] = "true" => states[v] = "saved"
    BY DEF SaveInv, WorkStands, SaveStands
<1> QED
    BY <1>1 DEF Reaped, GoesOn, BackInQueue, Unsaved

LEMMA DispatchAccounts ==
    ASSUME BasicInv, SaveInv, NEW r \in Runs, Dispatch(r), InAccount(r)
    PROVE  InAccount(r)'
<1>0. PoolTypeOK /\ QueueTypeOK
    BY BasicTypes
<1>h. PICK w : w = Head(assignments[r]).work
    OBVIOUS
<1>1. /\ w \in WorksOf(r) /\ w \in Works
      /\ AssignedTo(r, w)
      /\ apc'[w] = "created" /\ receipt'[w] # 0
      /\ \A v \in Works \ {w} : /\ receipt'[v] = receipt[v]
                                /\ states'[v] = states[v]
                                /\ apc'[v] = apc[v] \/ Reaped(r, v)
      /\ assignments' = [assignments EXCEPT ![r] = Tail(@)]
      /\ UNCHANGED <<stored, ending, pending, electing, mpc>>
    <2>1. receipt'[w] \in Nat /\ receipt[w] < receipt'[w] /\ w \in Works
        BY <1>h, DispatchFields
    <2>2. receipt[w] \in Nat
        BY <1>0, <2>1 DEF QueueTypeOK
    <2>3. receipt'[w] # 0
        BY <2>1, <2>2
    <2> QED
        BY <1>h, <2>3, DispatchFields
<1>2. assignments[r] # <<>>
    BY DEF Dispatch
<1>3. /\ \A v \in WorksOf(r) : AssignedTo(r, v)' => AssignedTo(r, v)
      /\ Queued(r)' = Queued(r)
    BY <1>0, <1>1, <1>2, TakenQueue DEF WorksOf, Queued
<1>4. \A v \in WorksOf(r) \ {w} : GoesOn(v)
    BY <1>1, StandsStill, ReapedGoesOn DEF WorksOf
<1>5. CASE Lost(r)
    <2>1. PICK u \in WorksOf(r) : LostWork(r, u)
        BY <1>5 DEF Lost
    <2>2. u # w
        BY <1>1, <2>1 DEF LostWork, Parked
    <2>3. stored'[u] = 0 /\ BackInQueue(u)'
        BY <1>4, <2>1, <2>2, LostGoesOn DEF LostWork
    <2>4. Parked(r, u)'
        BY <1>1, <1>3, <2>1 DEF LostWork, Parked
    <2> QED
        BY <2>3, <2>4 DEF InAccount, Lost, LostWork, WorksOf
<1>6. CASE Accounted(r)
    <2>1. ElectsQueued(r)'
        BY <1>1, <1>3, <1>6 DEF Accounted, ElectsQueued
    <2>2. AccountOf(r, w)'
        <3>1. w \notin Queued(r) /\ stored[w] = 0
            BY <1>1, <1>6 DEF Accounted, AccountOf
        <3> QED
            BY <1>1, <1>3, <3>1 DEF AccountOf
    <2>3. \A v \in WorksOf(r) \ {w} : AccountOf(r, v)'
        BY <1>3, <1>4, <1>6, AccountGoesOn DEF Accounted
    <2> QED
        BY <2>1, <2>2, <2>3 DEF InAccount, Accounted, WorksOf
<1> QED
    BY <1>5, <1>6 DEF InAccount

(* While a run enqueues, nothing of it was tried or saved. *)
LEMMA BeginningAccounts ==
    ASSUME BasicInv, SaveInv, NEW r \in Runs, LoopBegins(r)
    PROVE  InAccount(r)'
<1>0. PoolTypeOK /\ QueueTypeOK /\ CallInv
    BY BasicTypes
<1>1. /\ qpc[r] = "enqueue" /\ mpc' = [mpc EXCEPT ![r] = "poll"]
      /\ UNCHANGED <<assignments, apc, stored, receipt>>
    BY DEF LoopBegins, StartLoop, attemptVars, agentVars
<1>2. /\ assignments[r] = <<>>
      /\ \A w \in WorksOf(r) : attempts[w] = 0 /\ apc[w] = "none"
    BY <1>0, <1>1 DEF CallInv, NotStarted
<1>3. ASSUME NEW w \in WorksOf(r) PROVE stored[w] = 0
    <2>1. /\ stored[w] <= receipt[w] /\ receipt[w] <= attempts[w] /\ attempts[w] = 0
          /\ stored[w] \in Nat /\ receipt[w] \in Nat
        BY <1>0, <1>2
        DEF WorksOf, SaveInv, WorkStands, SaveStands, CallInv, Numbered, QueueTypeOK
    <2> QED
        BY <2>1
<1>4. ElectsQueued(r)'
    BY <1>0, <1>1 DEF ElectsQueued, PoolTypeOK
<1>5. ASSUME NEW w \in WorksOf(r) PROVE AccountOf(r, w)'
    <2>1. ~AssignedTo(r, w)'
        BY <1>1, <1>2 DEF AssignedTo
    <2>2. apc'[w] = "none" /\ stored'[w] = 0
        BY <1>1, <1>2, <1>3
    <2> QED
        BY <2>1, <2>2 DEF AccountOf, BackInQueue
<1> QED
    BY <1>4, <1>5 DEF InAccount, Accounted, WorksOf

LEMMA AccountStep ==
    ASSUME BasicInv, SaveInv, QueueDistinct, QueueAccounted, [Next]_vars
    PROVE  QueueAccounted'
<1>0. PoolTypeOK /\ QueueTypeOK /\ CallInv
    BY BasicTypes
<1> SUFFICES ASSUME NEW r \in Runs, qpc'[r] = "loop" PROVE InAccount(r)'
    BY DEF QueueAccounted
<1>1. ASSUME UNCHANGED vars PROVE InAccount(r)'
    <2>1. InAccount(r)
        BY <1>1 DEF QueueAccounted, vars, queueVars, loopVars
    <2>2. SamePool(r) /\ \A w \in WorksOf(r) : GoesOn(w)
        BY <1>1, StandsStill
        DEF vars, queueVars, poolVars, attemptVars, agentVars, SamePool
    <2> QED
        BY <2>1, <2>2, GoingOn
<1>2. ASSUME NEW w \in Works, AttemptStep(w) PROVE InAccount(r)'
    <2>1. qpc[r] = "loop"
        BY <1>0, <1>2, AttemptLeads DEF OnlyOf
    <2> QED
        BY <1>2, <2>1, AttemptAccounts DEF QueueAccounted
<1>3. ASSUME NEW w \in Works, AgentEndsUnheard(w) PROVE InAccount(r)'
    <2>1. UNCHANGED <<poolVars, loopVars, attemptVars, stored>>
        BY <1>3 DEF AgentEndsUnheard, AgentEnds
    <2>2. InAccount(r)
        BY <2>1 DEF QueueAccounted, loopVars
    <2>3. SamePool(r) /\ \A v \in WorksOf(r) : GoesOn(v)
        BY <2>1, StandsStill DEF poolVars, attemptVars, SamePool
    <2> QED
        BY <2>2, <2>3, GoingOn
<1>4. ASSUME UNCHANGED queueVars, Surroundings PROVE InAccount(r)'
    <2>1. InAccount(r)
        BY <1>4 DEF QueueAccounted, queueVars, loopVars
    <2>2. \A v \in WorksOf(r) : GoesOn(v)
        BY <1>4, StandsStill DEF queueVars, attemptVars, agentVars
    <2>3. SamePool(r)
        BY <1>4 DEF Surroundings, CoolingEnds, ScoreDrops, ScoreRecovers, Reconfigure, SamePool
    <2> QED
        BY <2>1, <2>2, <2>3, GoingOn
<1>5. ASSUME UNCHANGED queueVars, NEW p \in Runs, LoopStep(p) PROVE InAccount(r)'
    <2>1. InAccount(r)
        BY <1>5 DEF QueueAccounted, queueVars, loopVars
    <2>2. CASE p = r
        BY <1>5, <2>1, <2>2, PoolAccounts
    <2>3. CASE p # r
        <3>1. \A v \in WorksOf(r) : GoesOn(v)
            BY <1>5, StandsStill DEF queueVars, attemptVars, agentVars
        <3>2. SamePool(r)
            BY <1>0, <1>5, <2>3, PoolsApart
        <3> QED
            BY <2>1, <3>1, <3>2, GoingOn
    <2> QED
        BY <2>2, <2>3
<1>6. ASSUME NEW p \in Runs, MainStep(p) \/ RequestCancel(p) \/ CancelledElsewhere(p)
      PROVE  InAccount(r)'
    <2>1. CASE p # r
        <3>1. /\ SamePool(r) /\ qpc'[r] = qpc[r]
              /\ \A v \in Works : RunOf[v] # p => /\ apc'[v] = apc[v]
                                                  /\ ending'[v] = ending[v]
                                                  /\ stored'[v] = stored[v]
                                                  /\ receipt'[v] = receipt[v]
                                                  /\ states'[v] = states[v]
            BY <1>6, <2>1, RunsApart
        <3>2. \A v \in WorksOf(r) : GoesOn(v)
            BY <2>1, <3>1, StandsStill DEF WorksOf
        <3> QED
            BY <3>1, <3>2, GoingOn DEF QueueAccounted
    <2>2. CASE p = r /\ LoopBegins(r)
        BY <2>2, BeginningAccounts
    <2>3. CASE p = r /\ ~LoopBegins(r)
        <3>1. Reap(r) \/ Dispatch(r) \/ RequestCancel(r)
            BY <1>0, <1>6, <2>3
            DEF MainStep, EnqueueNext, AttemptRaised, CancelledInLoop, ModelTaskEnded, Raise,
                DispatchRefused, AllTold, AllGathered, CancelModelTask, ClosePool, TellCancel,
                CancelledElsewhere, QueueTypeOK
        <3>2. InAccount(r)
            BY <3>1 DEF Reap, Dispatch, RequestCancel, QueueAccounted
        <3>3. CASE Dispatch(r)
            BY <3>2, <3>3, DispatchAccounts
        <3>4. CASE ~Dispatch(r)
            <4>1. UNCHANGED <<states, pending, electing, assignments, mpc>>
                BY <3>1, <3>4 DEF Reap, RequestCancel, StopElections, poolVars, attemptVars
            <4>2. SamePool(r)
                BY <4>1 DEF SamePool
            <4>3. /\ UNCHANGED <<receipt, ending, stored>>
                  /\ \A v \in Works : apc'[v] = apc[v] \/ Reaped(r, v)
                BY <3>1, <3>4, MainFields DEF MainStep
            <4>4. \A v \in WorksOf(r) : GoesOn(v)
                BY <4>1, <4>3, StandsStill, ReapedGoesOn DEF WorksOf
            <4> QED
                BY <3>2, <4>2, <4>4, GoingOn
        <3> QED
            BY <3>1, <3>3, <3>4
    <2> QED
        BY <2>1, <2>2, <2>3
<1> QED
    BY <1>1, <1>2, <1>3, <1>4, <1>5, <1>6 DEF Next

-----------------------------------------------------------------------------
(* A run that returns has saved its works *)

AllSaved(r) == \A w \in WorksOf(r) : apc[w] = "none" /\ states[w] = "saved"

ReturnsSaved ==
    \A r \in Runs : qpc[r] \in {"finally", "close", "returned"} /\ ~raising[r] => AllSaved(r)

ReturnInv == CountBound /\ QueueDistinct /\ QueueAccounted /\ ReturnsSaved

LEMMA ReturnInit == Init => ReturnInv
<1> SUFFICES ASSUME Init PROVE ReturnInv
    OBVIOUS
<1>1. CountBound
    <2>1. SUFFICES ASSUME NEW r \in Runs PROVE succeeded[r] <= Cardinality(Credited(r))
        BY DEF CountBound
    <2>2. succeeded[r] = 0
        BY DEF Init
    <2>3. Cardinality(Credited(r)) \in Nat
        BY CreditedAreCounted
    <2> QED
        BY <2>2, <2>3
<1>2. QueueAccounted /\ ReturnsSaved
    BY DEF Init, QueueAccounted, ReturnsSaved
<1>3. QueueDistinct
    BY DistinctInit DEF Init
<1> QED
    BY <1>1, <1>2, <1>3 DEF ReturnInv

(* When the count is complete, all works were saved, and the attempts of those not *)
(* counted before have returned: the count is of different works, so it reaches    *)
(* the number of works only with each of them.                                     *)
LEMMA EnoughSaved ==
    ASSUME QueueTypeOK, SaveInv, CountBound, NEW r \in Runs, InAccount(r),
           succeeded[r] + Cardinality(Returned(r)) >= Len(WorkList[r])
    PROVE  \A w \in WorksOf(r) : /\ apc[w] \in {"none", "true"}
                                 /\ states[w] = "saved"
                                 /\ ~AssignedTo(r, w)
<1> DEFINE C == Credited(r) \cup Returned(r)
<1>1. C \in SUBSET WorksOf(r)
    BY DEF Credited, Returned
<1>2. /\ IsFiniteSet(WorksOf(r)) /\ Cardinality(WorksOf(r)) = Len(WorkList[r])
      /\ Len(WorkList[r]) \in Nat
    BY WorksAreFinite, ChapterWorkersAssumption
<1>3. /\ succeeded[r] + Cardinality(Returned(r)) <= Cardinality(C)
      /\ Cardinality(C) \in Nat
      /\ succeeded[r] + Cardinality(Returned(r)) \in Nat
    BY CountWithReturned
<1>4. Cardinality(C) <= Cardinality(WorksOf(r))
    BY <1>1, <1>2, FS_Subset
<1>5. \A x, y, z \in Nat : x >= z /\ x <= y /\ y <= z => z = y
    OBVIOUS
<1>6. Cardinality(WorksOf(r)) = Cardinality(C)
    BY <1>2, <1>3, <1>4, <1>5
<1>7. WorksOf(r) = C
    BY <1>1, <1>2, <1>6, FS_Subset
<1>8. \A w \in WorksOf(r) : stored[w] # 0
    BY <1>7, ReturnedAreNew DEF Credited, Credit
<1>9. Accounted(r)
    BY <1>8 DEF InAccount, Lost, LostWork
<1>10. ASSUME NEW w \in WorksOf(r)
       PROVE  /\ apc[w] \in {"none", "true"}
              /\ states[w] = "saved"
              /\ ~AssignedTo(r, w)
    <2>1. AccountOf(r, w) /\ stored[w] # 0
        BY <1>8, <1>9 DEF Accounted
    <2>2. ~AssignedTo(r, w)
        BY <2>1 DEF AccountOf
    <2>3. CASE w \in Returned(r)
        BY <2>2, <2>3, ReturnedAreNew DEF Returned
    <2>4. CASE Credit(w)
        <3>1. apc[w] = "none"
            BY <2>1, <2>4 DEF AccountOf, Credit
        <3> QED
            BY <2>1, <2>2, <3>1 DEF AccountOf
    <2> QED
        BY <1>7, <2>3, <2>4 DEF Credited
<1> QED
    BY <1>10

(* The count never exceeds the works saved: what an iteration adds to it was not *)
(* counted before.                                                               *)
LEMMA CountFits ==
    ASSUME NEW r \in Runs, NEW n \in Nat, NEW S, n <= Cardinality(S),
           S \subseteq Credited(r)', succeeded'[r] = n
    PROVE  (succeeded[r] <= Cardinality(Credited(r)))'
<1>1. IsFiniteSet(Credited(r)')
    BY WorksAreFinite, FS_Subset DEF Credited
<1>2. Cardinality(S) <= Cardinality(Credited(r)') /\ IsFiniteSet(S)
    BY <1>1, FS_Subset
<1>3. Cardinality(S) \in Nat /\ Cardinality(Credited(r)') \in Nat
    BY <1>1, <1>2, FS_CardinalityType
<1> QED
    BY <1>2, <1>3

LEMMA ReapedCount ==
    ASSUME BasicInv, SaveInv, NEW r \in Runs, Reap(r) \/ Dispatch(r), NEW w \in Returned(r)
    PROVE  Credit(w)'
<1>0. QueueTypeOK
    BY BasicTypes
<1>1. w \in WorksOf(r) /\ w \in Works /\ w \in Done(r)
    BY DEF Returned, Done, Finished, WorksOf
<1>2. stored[w] # 0
    BY <1>0, ReturnedAreNew
<1>3. CASE Reap(r)
    <2>1. apc'[w] = "none" /\ stored' = stored
        BY <1>1, <1>3 DEF Reap, agentVars
    <2> QED
        BY <1>2, <2>1 DEF Credit
<1>4. CASE Dispatch(r)
    <2>1. PICK d : d = Head(assignments[r]).work
        OBVIOUS
    <2>2. /\ apc' = [u \in Works |-> IF u = d THEN "created"
                                     ELSE IF u \in Done(r) THEN "none" ELSE apc[u]]
          /\ stored' = stored
        BY <1>4, <2>1 DEF Dispatch, agentVars
    <2>3. CASE w # d
        <3>1. apc'[w] = "none"
            BY <1>1, <2>2, <2>3
        <3> QED
            BY <1>2, <2>2, <3>1 DEF Credit
    <2>4. CASE w = d
        <3>1. receipt'[w] \in Nat /\ receipt[w] < receipt'[w]
            BY <1>4, <2>1, <2>4, DispatchFields
        <3>2. stored[w] <= receipt[w] /\ stored[w] \in Nat /\ receipt[w] \in Nat
            BY <1>0, <1>1 DEF SaveInv, WorkStands, SaveStands, QueueTypeOK
        <3>3. stored'[w] # receipt'[w]
            BY <2>2, <3>1, <3>2
        <3> QED
            BY <1>2, <2>2, <3>3 DEF Credit
    <2> QED
        BY <2>3, <2>4
<1> QED
    BY <1>3, <1>4

LEMMA CountStep ==
    ASSUME BasicInv, SaveInv, CountBound, [Next]_vars
    PROVE  CountBound'
<1>0. QueueTypeOK
    BY BasicTypes
<1> SUFFICES ASSUME NEW r \in Runs PROVE (succeeded[r] <= Cardinality(Credited(r)))'
    BY DEF CountBound
<1>1. succeeded[r] \in Nat /\ succeeded[r] <= Cardinality(Credited(r))
    BY <1>0 DEF QueueTypeOK, CountBound
<1>2. Credited(r) \subseteq Credited(r)'
    <2> SUFFICES ASSUME NEW v \in Works, RunOf[v] = r, Credit(v) PROVE Credit(v)'
        BY DEF Credited, WorksOf
    <2> QED
        BY CreditStays
<1>3. CASE succeeded'[r] = succeeded[r]
    BY <1>1, <1>2, <1>3, CountFits
<1>4. CASE Reap(r) \/ Dispatch(r)
    <2>1. succeeded'[r] = succeeded[r] + Cardinality(Returned(r))
        BY <1>0, <1>4 DEF Reap, Dispatch, QueueTypeOK
    <2>2. Credited(r) \cup Returned(r) \subseteq Credited(r)'
        <3>1. \A w \in Returned(r) : Credit(w)'
            BY <1>4, ReapedCount
        <3>2. Returned(r) \subseteq Credited(r)'
            BY <3>1 DEF Credited, Returned
        <3> QED
            BY <1>2, <3>2
    <2>3. /\ succeeded[r] + Cardinality(Returned(r)) \in Nat
          /\ succeeded[r] + Cardinality(Returned(r)) <= Cardinality(Credited(r) \cup Returned(r))
        BY <1>0, CountWithReturned
    <2> QED
        BY <2>1, <2>2, <2>3, CountFits
<1>5. succeeded'[r] = succeeded[r] \/ Reap(r) \/ Dispatch(r)
    <2>1. ASSUME NEW w \in Works, AttemptStep(w) PROVE succeeded' = succeeded
        BY <1>0, <2>1, AttemptLeads DEF OnlyOf
    <2>2. ASSUME NEW w \in Works, AgentEndsUnheard(w) PROVE succeeded' = succeeded
        BY <2>2 DEF AgentEndsUnheard, loopVars
    <2>3. ASSUME NEW p \in Runs, MainStep(p) \/ RequestCancel(p) \/ CancelledElsewhere(p)
          PROVE  succeeded'[r] = succeeded[r] \/ Reap(r) \/ Dispatch(r)
        <3>1. CASE p # r
            BY <2>3, <3>1, RunsApart
        <3>2. CASE p = r /\ ~Reap(r) /\ ~Dispatch(r)
            BY <2>3, <3>2
            DEF MainStep, EnqueueNext, LoopBegins, AttemptRaised, ModelTaskEnded,
                DispatchRefused, CancelledInLoop, TellCancel, AllTold, AllGathered,
                CancelModelTask, ClosePool, RequestCancel, CancelledElsewhere
        <3> QED
            BY <3>1, <3>2
    <2>4. CASE UNCHANGED queueVars
        BY <2>4 DEF queueVars, loopVars
    <2> QED
        BY <2>1, <2>2, <2>3, <2>4 DEF Next, vars
<1> QED
    BY <1>3, <1>4, <1>5

ReturnSaved(r) ==
    qpc[r] \in {"finally", "close", "returned"} /\ ~raising[r] => AllSaved(r)

(* The loop is left without an exception only by its head, with all works counted. *)
LEMMA LeavingSaved ==
    ASSUME BasicInv, SaveInv, ReturnInv, NEW r \in Runs, Reap(r) \/ Dispatch(r),
           qpc'[r] = "finally"
    PROVE  AllSaved(r)'
<1>0. PoolTypeOK /\ QueueTypeOK
    BY BasicTypes
<1>1. PICK count : count = succeeded[r] + Cardinality(Returned(r))
    OBVIOUS
<1>2. qpc[r] = "loop" /\ \E running : LoopHead(r, count, running)
    BY <1>1 DEF Reap, Dispatch
<1>3. count >= Len(WorkList[r])
    BY <1>0, <1>2, LoopHeadFields
<1>4. CountBound /\ InAccount(r)
    BY <1>2 DEF ReturnInv, QueueAccounted
<1>5. \A w \in WorksOf(r) : /\ apc[w] \in {"none", "true"}
                            /\ states[w] = "saved"
                            /\ ~AssignedTo(r, w)
    BY <1>0, <1>1, <1>3, <1>4, EnoughSaved
<1>6. ~Dispatch(r)
    <2> SUFFICES ASSUME Dispatch(r) PROVE FALSE
        OBVIOUS
    <2>1. PICK d : d = Head(assignments[r]).work
        OBVIOUS
    <2>2. d \in WorksOf(r) /\ AssignedTo(r, d)
        BY <2>1, DispatchFields
    <2> QED
        BY <1>5, <2>2
<1>7. Reap(r)
    BY <1>6
<1>8. /\ apc' = [w \in Works |-> IF w \in Done(r) THEN "none" ELSE apc[w]]
      /\ states' = states
    BY <1>7 DEF Reap
<1>9. ASSUME NEW w \in WorksOf(r) PROVE apc'[w] = "none" /\ states'[w] = "saved"
    <2>1. apc[w] \in {"none", "true"} /\ states[w] = "saved" /\ w \in Works
        BY <1>5, <1>9 DEF WorksOf
    <2>2. apc[w] = "true" => w \in Done(r)
        BY <1>9 DEF Done, Finished
    <2> QED
        BY <1>8, <2>1, <2>2
<1> QED
    BY <1>9 DEF AllSaved, WorksOf

LEMMA SavedStay ==
    ASSUME NEW r \in Runs, ReturnSaved(r),
           qpc'[r] \in {"finally", "close", "returned"} /\ ~raising'[r] =>
               qpc[r] \in {"finally", "close", "returned"} /\ ~raising[r],
           \A w \in WorksOf(r) : /\ apc[w] = "none" => apc'[w] = "none"
                                 /\ apc[w] = "none" => states'[w] = states[w]
    PROVE  ReturnSaved(r)'
    BY DEF ReturnSaved, AllSaved, WorksOf

LEMMA ReturnsSavedStep ==
    ASSUME BasicInv, SaveInv, ReturnInv, [Next]_vars
    PROVE  ReturnsSaved'
<1>0. PoolTypeOK /\ QueueTypeOK
    BY BasicTypes
<1> SUFFICES ASSUME NEW r \in Runs PROVE ReturnSaved(r)'
    BY DEF ReturnsSaved, ReturnSaved
<1>1. ReturnSaved(r)
    BY DEF ReturnInv, ReturnsSaved, ReturnSaved
<1>2. ASSUME NEW w \in Works, AttemptStep(w) PROVE ReturnSaved(r)'
    <2>1. OnlyOf(w) /\ AttemptMoves(w)
        BY <1>0, <1>2, AttemptLeads
    <2>2. \A v \in WorksOf(r) : apc[v] = "none" => apc'[v] = apc[v] /\ states'[v] = states[v]
        BY <2>1 DEF OnlyOf, AttemptMoves, WorksOf
    <2> QED
        BY <1>1, <2>1, <2>2, SavedStay DEF OnlyOf
<1>3. ASSUME NEW w \in Works, AgentEndsUnheard(w) PROVE ReturnSaved(r)'
    BY <1>1, <1>3, SavedStay DEF AgentEndsUnheard, loopVars, attemptVars
<1>4. CASE UNCHANGED queueVars
    BY <1>1, <1>4, SavedStay DEF queueVars, loopVars, attemptVars
<1>5. ASSUME NEW p \in Runs, MainStep(p) \/ RequestCancel(p) \/ CancelledElsewhere(p)
      PROVE  ReturnSaved(r)'
    <2>1. CASE p # r
        <3>1. /\ qpc'[r] = qpc[r] /\ raising'[r] = raising[r]
              /\ \A v \in WorksOf(r) : apc'[v] = apc[v] /\ states'[v] = states[v]
            BY <1>5, <2>1, RunsApart DEF WorksOf
        <3> QED
            BY <1>1, <3>1, SavedStay
    <2>2. CASE p = r /\ (Reap(r) \/ Dispatch(r))
        <3>1. qpc'[r] \in {"finally", "stopping", "loop"}
            <4>1. qpc[r] = "loop" /\ \E count, running : LoopHead(r, count, running)
                BY <2>2 DEF Reap, Dispatch
            <4> QED
                BY <1>0, <4>1, LoopHeadFields
        <3>2. CASE qpc'[r] = "finally"
            BY <2>2, <3>2, LeavingSaved DEF ReturnSaved
        <3>3. CASE qpc'[r] # "finally"
            BY <3>1, <3>3 DEF ReturnSaved
        <3> QED
            BY <3>2, <3>3
    <2>3. CASE p = r /\ EnqueueNext(r)
        BY <1>0, <2>3 DEF EnqueueNext, ReturnSaved
    <2>4. CASE p = r /\ (CancelModelTask(r) \/ ClosePool(r))
        <3>1. /\ qpc[r] \in {"finally", "close"}
              /\ UNCHANGED <<raising, apc, states>>
            BY <2>4 DEF CancelModelTask, ClosePool, attemptVars
        <3> QED
            BY <1>1, <3>1, SavedStay
    <2>5. CASE p = r /\ ~(Reap(r) \/ Dispatch(r) \/ EnqueueNext(r) \/ CancelModelTask(r)
                          \/ ClosePool(r))
        <3>1. LeavesInOrder(r)
            BY DEF SaveInv, WayOut
        <3>2. qpc'[r] \in {"finally", "close", "returned"} => raising'[r]
            BY <1>0, <1>5, <2>5, <3>1
            DEF MainStep, LoopBegins, AttemptRaised, ModelTaskEnded, Raise, DispatchRefused,
                CancelledInLoop, TellCancel, AllTold, AllGathered, RequestCancel,
                CancelledElsewhere, LeavesInOrder, QueueTypeOK
        <3> QED
            BY <3>2 DEF ReturnSaved
    <2> QED
        BY <1>5, <2>1, <2>2, <2>3, <2>4, <2>5
<1> QED
    BY <1>2, <1>3, <1>4, <1>5 DEF Next, vars

LEMMA ReturnStep == BasicInv /\ SaveInv /\ ReturnInv /\ [Next]_vars => ReturnInv'
<1> SUFFICES ASSUME BasicInv, SaveInv, ReturnInv, [Next]_vars PROVE ReturnInv'
    OBVIOUS
<1>1. CountBound /\ QueueDistinct /\ QueueAccounted
    BY DEF ReturnInv
<1>2. TypeInv /\ [PoolNext]_poolVars
    BY CallsPool DEF BasicInv
<1>3. CountBound'
    BY <1>1, CountStep
<1>4. QueueDistinct'
    BY <1>1, <1>2, DistinctStep
<1>5. QueueAccounted'
    BY <1>1, AccountStep
<1>6. ReturnsSaved'
    BY ReturnsSavedStep
<1> QED
    BY <1>3, <1>4, <1>5, <1>6 DEF ReturnInv

LEMMA ReturnInvariant == Spec => []ReturnInv
    BY ReturnInit, ReturnStep, BasicInvariant, SaveInvariant, PTL DEF Spec

(* A run returns only when every work of it is saved, committed to the store by the *)
(* attempt last counted for it, and confirmed in memory (ChapterWorkerPool.run).    *)
THEOREM AllWorksSaved == Spec => []AllSavedOnReturn
<1>1. QueueTypeOK /\ SaveInv /\ ReturnInv => AllSavedOnReturn
    <2> SUFFICES ASSUME QueueTypeOK, SaveInv, ReturnInv, NEW r \in Runs, qpc[r] = "returned",
                        NEW w \in WorksOf(r)
                 PROVE  /\ states[w] = "saved"
                        /\ stored[w] = receipt[w]
                        /\ stored[w] # 0
                        /\ memory[w] = "confirmed"
        BY DEF AllSavedOnReturn
    <2>1. ~raising[r]
        BY DEF SaveInv, WayOut, LeavesInOrder
    <2>2. states[w] = "saved" /\ w \in Works
        BY <2>1 DEF ReturnInv, ReturnsSaved, AllSaved, WorksOf
    <2>3. stored[w] = receipt[w] /\ receipt[w] > 0 /\ memory[w] = "confirmed"
        BY <2>2 DEF SaveInv, WorkStands, SavedIsStored
    <2> QED
        BY <2>2, <2>3 DEF QueueTypeOK
<1>2. BasicInv => QueueTypeOK
    BY BasicTypes
<1> QED
    BY <1>1, <1>2, BasicInvariant, SaveInvariant, ReturnInvariant, PTL

-----------------------------------------------------------------------------
(* A pool that ends by its own rules *)

Rests(w) == agent[w] = "idle" /\ apc[w] \in {"none", "notified"} \cup Finished

FailedIsIdle ==
    \A r \in Runs : mpc[r] \in {"exhausted", "error"} => \A w \in WorksOf(r) : Rests(w)

(* What rests is not woken by its attempt. *)
LEMMA AttemptRests ==
    ASSUME QueueTypeOK, NEW w \in Works, AttemptStep(w), Rests(w)
    PROVE  Rests(w)'
<1>1. ~\/ AttemptStarts(w) \/ ReplyDropped(w) \/ ExecutionRaises(w) \/ ExecutionCompletes(w)
       \/ ExecutionRetries(w) \/ ExecutionFails(w) \/ Requeue(w) \/ SaveBegins(w)
    BY DEF Rests, AttemptStarts, ReplyDropped, ExecutionRaises, ExecutionCompletes,
           ExecutionRetries, ExecutionFails, Requeue, SaveBegins, Finished
<1>2. ~\/ SaveCommits(w)
       \/ \E kind \in {"other", "transport", "rollback_failed"} : SaveRaises(w, kind)
       \/ Abort(w) \/ Confirm(w) \/ ConfirmRaises(w) \/ Recover(w) \/ RecoverRaises(w)
    BY DEF Rests, SaveCommits, SaveRaises, Abort, Confirm, ConfirmRaises, Recover,
           RecoverRaises, Finished
<1>3. ~(AfterSave(w) \/ OnSaved(w) \/ GiveBack(w) \/ PoolGone(w) \/ Interrupted(w))
    BY DEF Rests, AfterSave, OnSaved, GiveBack, PoolGone, Interrupted, Finished
<1>4. GiveBackEnds(w)
    BY <1>1, <1>2, <1>3 DEF AttemptStep
<1> QED
    BY <1>4 DEF GiveBackEnds, Rests, QueueTypeOK, agentVars

(* The pool finds no reservation of its works: every attempt gave its seat back, *)
(* and those cancelled before they did belong to a run that stopped its pool.    *)
LEMMA NoUsageIsRest ==
    ASSUME BasicInv, SaveInv, NEW r \in Runs, NoUsage(r), LoopAlive(r), ~closed[r]
    PROVE  \A w \in WorksOf(r) : Rests(w)
<1>0. QueueTypeOK /\ CallInv /\ Numbered /\ SeatKept
    BY BasicTypes DEF CallInv
<1> SUFFICES ASSUME NEW w \in WorksOf(r) PROVE Rests(w)
    OBVIOUS
<1>1. attached[r] /\ w \in Works /\ RunOf[w] = r /\ reservations[w] = 0
    BY <1>0, AliveIsOpen DEF NoUsage, WorksOf
<1>2. apc[w] \notin Holding
    <2> SUFFICES ASSUME apc[w] \in Holding PROVE FALSE
        OBVIOUS
    <2>1. receipt[w] = 0
        BY <1>0, <1>1 DEF SeatKept
    <2>2. receipt[w] > 0
        BY <1>0, <1>1 DEF Numbered, Holding, SavePcs
    <2> QED
        BY <2>1, <2>2
<1>3. apc[w] \in {"none", "notified"} \cup Finished
    BY <1>0, <1>1, <1>2 DEF QueueTypeOK, AttemptPcs, Holding
<1>4. ~interrupted[w]
    BY <1>1 DEF SaveInv, WayOut, LeavesInOrder, Interruptions
<1>5. agent[w] = "idle"
    BY <1>1, <1>2, <1>4 DEF SaveInv, WorkStands, AgentIsHeard, Holding
<1> QED
    BY <1>3, <1>5 DEF Rests

(* What the steps of the main loop do to the executions. *)
LEMMA MainTells ==
    ASSUME QueueTypeOK, NEW r \in Runs,
           MainStep(r) \/ RequestCancel(r) \/ CancelledElsewhere(r)
    PROVE  \A v \in Works : agent'[v] = "idle" <=> agent[v] = "idle"
<1>1. CASE (\E w \in Works : TellCancel(r, w)) \/ CancelledElsewhere(r)
    <2>1. agent' = agent \/ \E w : agent' = Told(w)
        BY <1>1 DEF TellCancel, CancelledElsewhere
    <2> QED
        BY <2>1 DEF Told, QueueTypeOK
<1>2. CASE ~((\E w \in Works : TellCancel(r, w)) \/ CancelledElsewhere(r))
    <2>1. UNCHANGED agentVars
        BY <1>2
        DEF MainStep, EnqueueNext, LoopBegins, AttemptRaised, ModelTaskEnded, Reap, Dispatch,
            DispatchRefused, CancelledInLoop, AllTold, AllGathered, CancelModelTask,
            ClosePool, RequestCancel
    <2> QED
        BY <2>1 DEF agentVars
<1> QED
    BY <1>1, <1>2

LEMMA FailedIdleStep ==
    ASSUME BasicInv, SaveInv, FailedIsIdle, [Next]_vars
    PROVE  FailedIsIdle'
<1>0. PoolTypeOK /\ QueueTypeOK
    BY BasicTypes
<1> SUFFICES ASSUME NEW r \in Runs, mpc'[r] \in {"exhausted", "error"}, NEW w \in WorksOf(r)
             PROVE  Rests(w)'
    BY DEF FailedIsIdle, WorksOf
<1>1. w \in Works /\ RunOf[w] = r
    BY DEF WorksOf
<1>2. mpc'[r] = mpc[r] => Rests(w)
    BY DEF FailedIsIdle
<1>3. ASSUME NEW v \in Works, AttemptStep(v) PROVE Rests(w)'
    <2>1. UNCHANGED mpc /\ OnlyOf(v)
        BY <1>0, <1>3, AttemptLeads, AttemptKeepsPool
    <2>2. CASE v = w
        BY <1>0, <1>2, <1>3, <2>1, <2>2, AttemptRests
    <2>3. CASE v # w
        BY <1>1, <1>2, <2>1, <2>3 DEF OnlyOf, Rests
    <2> QED
        BY <2>2, <2>3
<1>4. ASSUME NEW v \in Works, AgentEndsUnheard(v) PROVE Rests(w)'
    <2>1. UNCHANGED <<mpc, apc>>
        BY <1>4 DEF AgentEndsUnheard, poolVars, attemptVars
    <2>2. agent[w] = "idle" => agent'[w] = "idle"
        BY <1>0, <1>1, <1>4, AgentEndsFields DEF AgentEndsUnheard
    <2> QED
        BY <1>2, <2>1, <2>2 DEF Rests
<1>5. ASSUME NEW p \in Runs, LoopStep(p), UNCHANGED queueVars PROVE Rests(w)'
    <2>1. UNCHANGED <<apc, agent>>
        BY <1>5 DEF queueVars, attemptVars, agentVars
    <2>2. CASE mpc'[r] = mpc[r]
        BY <1>2, <2>1, <2>2 DEF Rests
    <2>3. CASE mpc'[r] # mpc[r]
        <3>1. ASSUME NEW v \in Works, ElectionFails(p, v)
              PROVE  NoUsage(r) /\ LoopAlive(r) /\ ~closed[r]
            <4>1. p = r
                BY <1>0, <2>3, <3>1 DEF ElectionFails, PoolTypeOK
            <4> QED
                BY <1>0, <2>3, <3>1, <4>1 DEF ElectionFails, AtHead, LoopAlive, PoolTypeOK
        <3>2. ASSUME NEW v \in Works, NEW m \in Models, Elect(p, v, m) PROVE FALSE
            BY <1>0, <2>3, <3>2 DEF Elect, PoolTypeOK
        <3>3. ASSUME Publish(p) \/ LoopEnds(p) \/ LoopCrashes(p) PROVE FALSE
            BY <1>0, <2>3, <3>3 DEF Publish, LoopEnds, LoopCrashes, PoolTypeOK
        <3>4. NoUsage(r) /\ LoopAlive(r) /\ ~closed[r]
            BY <1>5, <3>1, <3>2, <3>3 DEF LoopStep
        <3> QED
            BY <2>1, <3>4, NoUsageIsRest DEF Rests
    <2> QED
        BY <2>2, <2>3
<1>6. CASE Surroundings /\ UNCHANGED queueVars
    <2>1. UNCHANGED <<apc, agent, mpc>>
        BY <1>6 DEF queueVars, attemptVars, agentVars, Surroundings, CoolingEnds, ScoreDrops,
                    ScoreRecovers, Reconfigure
    <2> QED
        BY <1>2, <2>1 DEF Rests
<1>7. CASE UNCHANGED vars
    <2>1. UNCHANGED <<apc, agent, mpc>>
        BY <1>7 DEF vars, poolVars, queueVars, attemptVars, agentVars
    <2> QED
        BY <1>2, <2>1 DEF Rests
<1>8. ASSUME NEW p \in Runs, MainStep(p) \/ RequestCancel(p) \/ CancelledElsewhere(p)
      PROVE  Rests(w)'
    <2>1. mpc'[r] = mpc[r]
        BY <1>0, <1>8
        DEF MainStep, EnqueueNext, Enqueue, LoopBegins, StartLoop, AttemptRaised,
            StopElections, ModelTaskEnded, Reap, Dispatch, TakeAssignment, DispatchRefused,
            CancelledInLoop, TellCancel, AllTold, AllGathered, CancelModelTask, CancelLoop,
            ClosePool, Close, RequestCancel, CancelledElsewhere, poolVars, PoolTypeOK
    <2>2. Rests(w)
        BY <1>2, <2>1
    <2>3. agent'[w] = "idle"
        BY <1>0, <1>1, <1>8, <2>2, MainTells DEF Rests
    <2>4. CASE ~Dispatch(p)
        <3>1. apc'[w] = apc[w] \/ apc'[w] = "none"
            BY <1>1, <1>8, <2>4, MainFields DEF Reaped
        <3> QED
            BY <2>2, <2>3, <3>1 DEF Rests
    <2>5. CASE Dispatch(p)
        <3>1. PICK d : d = Head(assignments[p]).work
            OBVIOUS
        <3>2. d \in WorksOf(p) /\ LoopAlive(p)
            BY <2>5, <3>1, DispatchFields
        <3>3. p # r
            BY <2>1, <3>2 DEF LoopAlive
        <3>4. apc'[w] = apc[w]
            BY <1>1, <1>8, <3>3, RunsApart
        <3> QED
            BY <2>2, <2>3, <3>4 DEF Rests
    <2> QED
        BY <2>4, <2>5
<1> QED
    BY <1>3, <1>4, <1>5, <1>6, <1>7, <1>8 DEF Next

LEMMA FailedIsIdleInvariant == Spec => []FailedIsIdle
<1>1. Init => FailedIsIdle
    BY DEF Init, PoolInit, FailedIsIdle
<1>2. BasicInv /\ SaveInv /\ FailedIsIdle /\ [Next]_vars => FailedIsIdle'
    BY FailedIdleStep
<1> QED
    BY <1>1, <1>2, BasicInvariant, SaveInvariant, PTL DEF Spec

(* The pool gives up, because its works cannot be elected any more or because the *)
(* configuration names no model, only in a run that has nobody at work and no     *)
(* save under way (ModelElectionPool.run).                                        *)
LEMMA PoolFailsIdly == FailedIsIdle => PoolFailsIdle
    BY DEF FailedIsIdle, PoolFailsIdle, Rests, SavePcs, Finished
-----------------------------------------------------------------------------
(* The ends of a run *)

Settled(w) == apc[w] \in {"none"} \cup Finished

LEMMA NoneUnfinished ==
    ASSUME NEW r
    PROVE  Unfinished(r) = {} <=> \A w \in WorksOf(r) : Settled(w)
    BY DEF Unfinished, Active, Done, Settled

Ending == {"finally", "close"} \cup Over

(* A run that nothing cut short leaves with its attempts settled, none of them *)
(* interrupted, and with its handlers.                                         *)
EndsSettled(r) ==
    /\ \A w \in WorksOf(r) : ~interrupted[w]
    /\ qpc[r] \in Ending => \A w \in WorksOf(r) : Settled(w)
    /\ qpc[r] \in Over => ~attached[r]

CleanInv == \A r \in Runs : Cut(r) \/ EndsSettled(r)

LEMMA CleanInit == Init => CleanInv
    BY DEF Init, CleanInv, EndsSettled, Ending, Over, WorksOf

LEMMA SettledStays ==
    ASSUME NEW r \in Runs, EndsSettled(r), qpc'[r] = qpc[r], attached'[r] = attached[r],
           \A w \in WorksOf(r) : interrupted'[w] = interrupted[w],
           \A w \in WorksOf(r) : Settled(w) => Settled(w)'
    PROVE  EndsSettled(r)'
    BY DEF EndsSettled, WorksOf

(* The attempts of a run are awaited before it is left, and its handlers leave *)
(* with it.                                                                    *)
LEMMA MainEnds ==
    ASSUME BasicInv, SaveInv, ReturnInv, NEW r \in Runs,
           MainStep(r) \/ RequestCancel(r), EndsSettled(r)
    PROVE  EndsSettled(r)'
<1>0. PoolTypeOK /\ QueueTypeOK
    BY BasicTypes
<1>i. \A w \in WorksOf(r) : ~interrupted'[w]
    <2>1. UNCHANGED interrupted
        BY DEF MainStep, EnqueueNext, LoopBegins, AttemptRaised, ModelTaskEnded, Reap,
               Dispatch, DispatchRefused, CancelledInLoop, TellCancel, AllTold, AllGathered,
               CancelModelTask, ClosePool, RequestCancel, attemptVars
    <2> QED
        BY <2>1 DEF EndsSettled
<1>1. CASE Reap(r) \/ Dispatch(r)
    <2>1. qpc'[r] \in {"finally", "stopping", "loop"}
        <3>1. qpc[r] = "loop" /\ \E count, running : LoopHead(r, count, running)
            BY <1>1 DEF Reap, Dispatch
        <3> QED
            BY <1>0, <3>1, LoopHeadFields
    <2>2. qpc'[r] = "finally" => \A w \in WorksOf(r) : Settled(w)'
        BY <1>1, LeavingSaved DEF AllSaved, Settled, WorksOf
    <2> QED
        BY <1>i, <2>1, <2>2 DEF EndsSettled, Ending, Over, WorksOf
<1>2. CASE AllGathered(r)
    <2>1. qpc'[r] = "finally" /\ apc' = apc
        BY <1>0, <1>2 DEF AllGathered, attemptVars, QueueTypeOK
    <2>2. \A w \in WorksOf(r) : Settled(w)
        BY <1>2, NoneUnfinished DEF AllGathered
    <2> QED
        BY <1>i, <2>1, <2>2 DEF EndsSettled, Ending, Over, Settled, WorksOf
<1>3. CASE CancelModelTask(r)
    <2>1. qpc[r] = "finally" /\ qpc'[r] = "close" /\ apc' = apc
        BY <1>0, <1>3 DEF CancelModelTask, attemptVars, QueueTypeOK
    <2> QED
        BY <1>i, <2>1 DEF EndsSettled, Ending, Over, Settled, WorksOf
<1>4. CASE ClosePool(r)
    <2>1. qpc[r] = "close" /\ apc' = apc /\ attached'[r] = FALSE
        BY <1>0, <1>4 DEF ClosePool, Close, attemptVars, PoolTypeOK
    <2> QED
        BY <1>i, <2>1 DEF EndsSettled, Ending, Over, Settled, WorksOf
<1>5. CASE (\E w \in Works : TellCancel(r, w)) \/ RequestCancel(r) \/ EnqueueNext(r)
           \/ LoopBegins(r) \/ AttemptRaised(r) \/ ModelTaskEnded(r) \/ DispatchRefused(r)
           \/ CancelledInLoop(r) \/ AllTold(r)
    <2>1. qpc'[r] \notin Ending
        BY <1>0, <1>5
        DEF TellCancel, RequestCancel, EnqueueNext, LoopBegins, AttemptRaised,
            ModelTaskEnded, DispatchRefused, CancelledInLoop, Raise, AllTold, Ending, Over,
            QueueTypeOK
    <2> QED
        BY <1>i, <2>1 DEF EndsSettled, Ending, WorksOf
<1> QED
    BY <1>1, <1>2, <1>3, <1>4, <1>5 DEF MainStep

(* A run once cut short stays so; only a cancellation outside the wait of its *)
(* loop cuts it short.                                                        *)
LEMMA CutStays ==
    ASSUME QueueTypeOK, [Next]_vars, NEW r \in Runs
    PROVE  /\ Cut(r) => Cut(r)'
           /\ Cut(r)' => Cut(r) \/ CancelledElsewhere(r)
<1>1. CASE UNCHANGED cancelled
    BY <1>1 DEF Cut
<1>2. ASSUME NEW p \in Runs, MainStep(p) PROVE UNCHANGED cancelled
    BY <1>2 DEF MainStep, EnqueueNext, LoopBegins, AttemptRaised, ModelTaskEnded, Reap,
                Dispatch, DispatchRefused, CancelledInLoop, TellCancel, AllTold,
                AllGathered, CancelModelTask, ClosePool
<1>3. ASSUME NEW w \in Works, AttemptStep(w) PROVE UNCHANGED cancelled
    BY <1>3, AttemptLeads DEF OnlyOf
<1>4. ASSUME NEW w \in Works, AgentEndsUnheard(w) PROVE UNCHANGED cancelled
    BY <1>4 DEF AgentEndsUnheard, loopVars
<1>5. UNCHANGED queueVars => UNCHANGED cancelled
    BY DEF queueVars, loopVars
<1>6. CASE \E p \in Runs : RequestCancel(p)
    BY <1>6 DEF RequestCancel, Cut, QueueTypeOK
<1>7. CASE \E p \in Runs : CancelledElsewhere(p)
    <2>1. PICK p \in Runs : CancelledElsewhere(p)
        BY <1>7
    <2>2. cancelled' = [cancelled EXCEPT ![p] = "cut"]
        BY <2>1 DEF CancelledElsewhere
    <2> QED
        BY <2>1, <2>2 DEF Cut, QueueTypeOK
<1> QED
    BY <1>1, <1>2, <1>3, <1>4, <1>5, <1>6, <1>7 DEF Next, vars

LEMMA CleanStep ==
    ASSUME BasicInv, SaveInv, ReturnInv, CleanInv, [Next]_vars
    PROVE  CleanInv'
<1>0. PoolTypeOK /\ QueueTypeOK
    BY BasicTypes
<1> SUFFICES ASSUME NEW r \in Runs, ~Cut(r)' PROVE EndsSettled(r)'
    BY DEF CleanInv
<1>c. EndsSettled(r) /\ ~CancelledElsewhere(r)
    <2>1. ~Cut(r)
        BY <1>0, CutStays
    <2>2. ASSUME CancelledElsewhere(r) PROVE FALSE
        BY <1>0, <2>2 DEF CancelledElsewhere, Cut, QueueTypeOK
    <2> QED
        BY <2>1, <2>2 DEF CleanInv
<1>1. ASSUME NEW w \in Works, AttemptStep(w) PROVE EndsSettled(r)'
    <2>1. OnlyOf(w) /\ AttemptMoves(w) /\ UNCHANGED attached
        BY <1>0, <1>1, AttemptLeads, AttemptKeepsPool
    <2>2. \A v \in Works : Settled(v) => Settled(v)'
        BY <2>1 DEF OnlyOf, AttemptMoves, Settled
    <2> QED
        BY <1>c, <2>1, <2>2, SettledStays DEF OnlyOf, WorksOf
<1>2. ASSUME UNCHANGED <<qpc, apc, interrupted, attached>> PROVE EndsSettled(r)'
    BY <1>2, <1>c, SettledStays DEF Settled
<1>3. ASSUME NEW w \in Works, AgentEndsUnheard(w) PROVE EndsSettled(r)'
    BY <1>2, <1>3 DEF AgentEndsUnheard, loopVars, attemptVars, poolVars
<1>4. ASSUME (\E p \in Runs : LoopStep(p)) \/ Surroundings, UNCHANGED queueVars
      PROVE  EndsSettled(r)'
    <2>1. UNCHANGED attached
        BY <1>0, <1>4, LoopOnlyEnds
    <2> QED
        BY <1>2, <1>4, <2>1 DEF queueVars, loopVars, attemptVars
<1>5. CASE UNCHANGED vars
    BY <1>2, <1>5 DEF vars, queueVars, loopVars, attemptVars, poolVars
<1>6. ASSUME NEW p \in Runs, MainStep(p) \/ RequestCancel(p) PROVE EndsSettled(r)'
    <2>1. CASE p = r
        BY <1>6, <1>c, <2>1, MainEnds
    <2>2. CASE p # r
        <3>1. attached'[r] = attached[r]
            BY <1>0, <1>6, <2>2
            DEF MainStep, EnqueueNext, Enqueue, LoopBegins, StartLoop, AttemptRaised,
                StopElections, ModelTaskEnded, Reap, Dispatch, TakeAssignment,
                DispatchRefused, CancelledInLoop, TellCancel, AllTold, AllGathered,
                CancelModelTask, CancelLoop, ClosePool, Close, RequestCancel, poolVars,
                PoolTypeOK
        <3>2. /\ qpc'[r] = qpc[r]
              /\ \A v \in WorksOf(r) : apc'[v] = apc[v]
            BY <1>6, <2>2, RunsApart DEF WorksOf
        <3>3. UNCHANGED interrupted
            BY <1>6
            DEF MainStep, EnqueueNext, LoopBegins, AttemptRaised, ModelTaskEnded, Reap,
                Dispatch, DispatchRefused, CancelledInLoop, TellCancel, AllTold, AllGathered,
                CancelModelTask, ClosePool, RequestCancel, attemptVars
        <3> QED
            BY <1>c, <3>1, <3>2, <3>3, SettledStays DEF Settled
    <2> QED
        BY <2>1, <2>2
<1>7. ASSUME NEW p \in Runs, CancelledElsewhere(p) PROVE EndsSettled(r)'
    <2>1. p # r
        BY <1>7, <1>c
    <2>2. /\ UNCHANGED <<attached, apc>>
          /\ qpc'[r] = qpc[r]
          /\ \A w \in WorksOf(r) : interrupted'[w] = interrupted[w]
        BY <1>0, <1>7, <2>1
        DEF CancelledElsewhere, QueueTypeOK, poolVars, WorksOf, Unfinished, Active
    <2> QED
        BY <1>c, <2>2, SettledStays DEF Settled
<1> QED
    BY <1>1, <1>3, <1>4, <1>5, <1>6, <1>7 DEF Next

LEMMA CleanInvariant == Spec => []CleanInv
<1>1. BasicInv /\ SaveInv /\ ReturnInv /\ CleanInv /\ [Next]_vars => CleanInv'
    BY CleanStep
<1> QED
    BY <1>1, CleanInit, BasicInvariant, SaveInvariant, ReturnInvariant, PTL DEF Spec

(* Whatever ends it, a run that no second cancellation cut short is over with no   *)
(* handler on the bus and no attempt in flight, whatever became of the other runs, *)
(* and a pool that gave up left nobody at work (the finally clause of              *)
(* ChapterWorkerPool.run).                                                         *)
THEOREM RunsEndClean == Spec => []CleanEnds
<1>1. CleanInv => EndsClean
    BY NoneUnfinished DEF CleanInv, EndsSettled, EndsClean, Ending
<1>2. FailedIsIdle => PoolFailsIdle
    BY PoolFailsIdly
<1> QED
    BY <1>1, <1>2, CleanInvariant, FailedIsIdleInvariant, PTL DEF CleanEnds

(* A live agent of a run that no second cancellation cut short is always on the    *)
(* seat of its attempt, a save that is not confirmed keeps its seat in any run     *)
(* until that is over, and then the ledger holds no seat of the run, whatever else *)
(* shares it.                                                                      *)
THEOREM SeatsAreSound == Spec => []SeatsSound
<1>1. BasicInv /\ SaveInv /\ CleanInv => AgentsHoldSeats
    <2> SUFFICES ASSUME BasicInv, SaveInv, CleanInv, NEW w \in Works, agent[w] # "idle",
                        ~Cut(RunOf[w])
                 PROVE  \E s \in seats : s.work = w /\ s.attempt = receipt[w]
        BY DEF AgentsHoldSeats
    <2>0. QueueTypeOK /\ CallInv /\ LedgerExact /\ RunOf[w] \in Runs
        BY BasicTypes, ModelElectionAssumption DEF LedgerInv
    <2>c. EndsSettled(RunOf[w]) /\ w \in WorksOf(RunOf[w])
        BY <2>0 DEF CleanInv, WorksOf
    <2>1. apc[w] = "executing"
        BY <2>c DEF EndsSettled, SaveInv, WorkStands, AgentIsHeard
    <2>2. attached[RunOf[w]]
        <3>1. ~Settled(w)
            BY <2>1 DEF Settled, Finished
        <3>2. qpc[RunOf[w]] \notin Over
            BY <2>c, <3>1 DEF EndsSettled, Ending
        <3> QED
            BY <2>0, <3>2 DEF CallInv, OpenUntilOver
    <2>3. reservations[w] = receipt[w]
        BY <2>0, <2>1, <2>2 DEF CallInv, SeatKept, Holding
    <2>4. receipt[w] > 0 /\ receipt[w] \in Nat
        BY <2>0, <2>1 DEF CallInv, Numbered, QueueTypeOK
    <2>5. reservations[w] # 0
        BY <2>3, <2>4
    <2> QED
        BY <2>0, <2>3, <2>5 DEF LedgerExact
<1>2. BasicInv /\ SaveInv => UnconfirmedKeepsSeat
    <2> SUFFICES ASSUME BasicInv, SaveInv, NEW w \in Works, states[w] = "save_unconfirmed",
                        qpc[RunOf[w]] \notin Over
                 PROVE  reservations[w] = receipt[w]
        BY DEF UnconfirmedKeepsSeat
    <2>1. attached[RunOf[w]]
        BY BasicTypes, ModelElectionAssumption DEF CallInv, OpenUntilOver
    <2> QED
        BY <2>1 DEF SaveInv, WorkStands, UnconfirmedKept
<1>3. BasicInv /\ CleanInv => SeatsGivenBack
    <2> SUFFICES ASSUME BasicInv, CleanInv, NEW r \in Runs, qpc[r] \in Over, ~Cut(r),
                        NEW s \in seats, s.run = r
                 PROVE  FALSE
        BY DEF SeatsGivenBack
    <2>1. ~attached[r]
        BY DEF CleanInv, EndsSettled
    <2>2. attached[s.run]
        BY BasicTypes DEF LedgerInv, LedgerExact
    <2> QED
        BY <2>1, <2>2
<1> QED
    BY <1>1, <1>2, <1>3, BasicInvariant, SaveInvariant, CleanInvariant, PTL DEF SeatsSound

-----------------------------------------------------------------------------
(* The queue keeps its promise *)

SavedWorks == {w \in Works : stored[w] # 0}
Report == [r \in Runs |-> ReportOf(r)]

(* Nothing the workflow sees. *)
LEMMA PromiseStands ==
    ASSUME SavedWorks' = SavedWorks, Report' = Report
    PROVE  [Promise!Next]_Promise!vars
    BY DEF Promise!vars, SavedWorks, Report, ReportOf

LEMMA AttemptPromise ==
    ASSUME BasicInv, CleanInv, [Next]_vars, NEW w \in Works, AttemptStep(w)
    PROVE  [Promise!Next]_Promise!vars
<1>0. QueueTypeOK /\ CallInv /\ RunOf[w] \in Runs
    BY BasicTypes, ModelElectionAssumption
<1>1. OnlyOf(w) /\ AttemptMoves(w)
    BY <1>0, AttemptLeads
<1>2. Report' = Report
    BY <1>1 DEF OnlyOf, Report, ReportOf, Cut
<1>3. CASE stored'[w] = stored[w]
    <2>1. SavedWorks' = SavedWorks
        BY <1>1, <1>3 DEF OnlyOf, SavedWorks
    <2> QED
        BY <1>2, <2>1, PromiseStands
<1>4. CASE stored'[w] # stored[w]
    <2>1. apc[w] = "saving" /\ stored[w] \in {0, receipt[w]} /\ stored'[w] = receipt[w]
        BY <1>1, <1>4 DEF AttemptMoves
    <2>2. stored[w] = 0 /\ stored'[w] # 0
        BY <1>4, <2>1
    <2>3. qpc[RunOf[w]] \in Over => Cut(RunOf[w])
        <3>1. ~Settled(w) /\ w \in WorksOf(RunOf[w])
            BY <2>1 DEF Settled, Finished, WorksOf
        <3> QED
            BY <1>0, <3>1 DEF CleanInv, EndsSettled, Ending
    <2>4. SavedWorks' = SavedWorks \cup {w} /\ w \notin SavedWorks
        BY <1>1, <2>2 DEF OnlyOf, SavedWorks
    <2>5. Report[RunOf[w]] \in {"none", "abandoned"}
        BY <1>0, <2>3 DEF Report, ReportOf
    <2>6. Promise!Save(w)
        BY <1>2, <2>4, <2>5 DEF Promise!Save, SavedWorks, Report
    <2> QED
        BY <2>6 DEF Promise!Next
<1> QED
    BY <1>3, <1>4

(* A run that ends is given up, fails, or returns with all of its works. *)
LEMMA EndPromise ==
    ASSUME BasicInv, SaveInv, ReturnInv, NEW r \in Runs, UNCHANGED stored,
           qpc[r] \notin Over, qpc'[r] \in Over,
           Cut(r)' \/ qpc'[r] = "raised" \/ (qpc[r] = "close" /\ ~raising[r]),
           \A o \in Runs \ {r} : ReportOf(o)' = ReportOf(o)
    PROVE  [Promise!Next]_Promise!vars
<1>1. SavedWorks' = SavedWorks
    BY DEF SavedWorks
<1>2. Report[r] = "none"
    BY DEF Report, ReportOf
<1>3. Report' = [Report EXCEPT ![r] = ReportOf(r)']
    BY DEF Report
<1>4. CASE Cut(r)'
    <2>1. ReportOf(r)' = "abandoned"
        BY <1>4 DEF ReportOf
    <2>2. Promise!Abandon(r)
        BY <1>1, <1>2, <1>3, <2>1 DEF Promise!Abandon, SavedWorks, Report
    <2> QED
        BY <2>2 DEF Promise!Next
<1>5. CASE ~Cut(r)' /\ qpc'[r] = "raised"
    <2>1. ReportOf(r)' = "raised"
        BY <1>5 DEF ReportOf, Over
    <2>2. Promise!Fail(r)
        BY <1>1, <1>2, <1>3, <2>1 DEF Promise!Fail, SavedWorks, Report
    <2> QED
        BY <2>2 DEF Promise!Next
<1>6. CASE ~Cut(r)' /\ qpc'[r] # "raised"
    <2>1. ReportOf(r)' = "returned"
        BY <1>6 DEF ReportOf, Over
    <2>2. ASSUME NEW w \in Works, RunOf[w] = r PROVE w \in SavedWorks
        <3>1. states[w] = "saved"
            BY <1>6, <2>2 DEF ReturnInv, ReturnsSaved, AllSaved, WorksOf
        <3>2. stored[w] = receipt[w] /\ receipt[w] > 0
            BY <3>1 DEF SaveInv, WorkStands, SavedIsStored
        <3> QED
            BY <3>2, BasicTypes DEF SavedWorks, QueueTypeOK
    <2>3. Promise!Return(r)
        BY <1>1, <1>2, <1>3, <2>1, <2>2 DEF Promise!Return, SavedWorks, Report
    <2> QED
        BY <2>3 DEF Promise!Next
<1> QED
    BY <1>4, <1>5, <1>6

LEMMA MainPromise ==
    ASSUME BasicInv, SaveInv, ReturnInv, [Next]_vars, NEW r \in Runs,
           MainStep(r) \/ RequestCancel(r) \/ CancelledElsewhere(r)
    PROVE  [Promise!Next]_Promise!vars
<1>0. QueueTypeOK
    BY BasicTypes
<1>1. UNCHANGED stored
    BY MainFields DEF Dispatch, agentVars
<1>2. qpc[r] \notin Over
    BY <1>0
    DEF MainStep, EnqueueNext, LoopBegins, AttemptRaised, ModelTaskEnded, Reap, Dispatch,
        DispatchRefused, CancelledInLoop, TellCancel, AllTold, AllGathered, CancelModelTask,
        ClosePool, RequestCancel, CancelledElsewhere, Over
<1>3. ASSUME NEW o \in Runs \ {r} PROVE ReportOf(o)' = ReportOf(o)
    <2>1. qpc'[o] = qpc[o]
        BY RunsApart
    <2>2. cancelled'[o] = cancelled[o]
        BY <1>0
        DEF MainStep, EnqueueNext, LoopBegins, AttemptRaised, ModelTaskEnded, Reap, Dispatch,
            DispatchRefused, CancelledInLoop, TellCancel, AllTold, AllGathered,
            CancelModelTask, ClosePool, RequestCancel, CancelledElsewhere, QueueTypeOK
    <2> QED
        BY <2>1, <2>2 DEF ReportOf, Cut
<1>4. CASE qpc'[r] \notin Over
    <2>1. ReportOf(r)' = ReportOf(r)
        BY <1>2, <1>4 DEF ReportOf
    <2>2. Report' = Report /\ SavedWorks' = SavedWorks
        BY <1>1, <1>3, <2>1 DEF Report, SavedWorks
    <2> QED
        BY <2>2, PromiseStands
<1>5. CASE qpc'[r] \in Over
    <2>1. Cut(r)' \/ qpc'[r] = "raised" \/ (qpc[r] = "close" /\ ~raising[r])
        <3>1. CASE CancelledElsewhere(r)
            BY <1>0, <3>1 DEF CancelledElsewhere, Cut, QueueTypeOK
        <3>2. CASE ~CancelledElsewhere(r)
            <4>1. ClosePool(r)
                BY <1>0, <1>5, <3>2, LoopHeadFields, RaiseFields
                DEF MainStep, EnqueueNext, LoopBegins, AttemptRaised, ModelTaskEnded, Reap,
                    Dispatch, DispatchRefused, CancelledInLoop, TellCancel, AllTold,
                    AllGathered, CancelModelTask, RequestCancel, Over, QueueTypeOK
            <4> QED
                BY <1>0, <4>1 DEF ClosePool, QueueTypeOK
        <3> QED
            BY <3>1, <3>2
    <2> QED
        BY <1>1, <1>2, <1>3, <1>5, <2>1, EndPromise
<1> QED
    BY <1>4, <1>5

LEMMA PromiseStep ==
    ASSUME BasicInv, SaveInv, ReturnInv, CleanInv, [Next]_vars
    PROVE  [Promise!Next]_Promise!vars
<1>1. ASSUME NEW w \in Works, AttemptStep(w) PROVE [Promise!Next]_Promise!vars
    BY <1>1, AttemptPromise
<1>2. ASSUME NEW r \in Runs, MainStep(r) \/ RequestCancel(r) \/ CancelledElsewhere(r)
      PROVE  [Promise!Next]_Promise!vars
    BY <1>2, MainPromise
<1>4. ASSUME UNCHANGED <<qpc, stored, cancelled>> PROVE [Promise!Next]_Promise!vars
    <2>1. SavedWorks' = SavedWorks /\ Report' = Report
        BY <1>4 DEF SavedWorks, Report, ReportOf, Cut
    <2> QED
        BY <2>1, PromiseStands
<1>5. ASSUME NEW w \in Works, AgentEndsUnheard(w) PROVE UNCHANGED <<qpc, stored, cancelled>>
    BY <1>5 DEF AgentEndsUnheard, AgentEnds, loopVars
<1>6. UNCHANGED queueVars => UNCHANGED <<qpc, stored, cancelled>>
    BY DEF queueVars, loopVars, agentVars
<1> QED
    BY <1>1, <1>2, <1>4, <1>5, <1>6 DEF Next, vars

(* The queue implements what it promises the workflow, with every way to cancel it: *)
(* works are saved once and for good, a run reports success with all of them, and   *)
(* nothing is saved after a run has reported, unless a second cancellation gave it  *)
(* up with its attempts under way.                                                  *)
THEOREM PromiseIsKept == Spec => KeepsPromise
<1>1. Init => Promise!Init
    BY DEF Init, Promise!Init, Over, ReportOf
<1>2. /\ BasicInv /\ SaveInv /\ ReturnInv /\ CleanInv
      /\ [Next]_vars
      => [Promise!Next]_Promise!vars
    BY PromiseStep
<1> QED
    BY <1>1, <1>2, BasicInvariant, SaveInvariant, ReturnInvariant, CleanInvariant, PTL
    DEF Spec, KeepsPromise, Promise!Spec

-----------------------------------------------------------------------------
(* What an attempt may do to its execution and to memory *)

LEMMA AttemptTouches ==
    ASSUME QueueTypeOK, NEW w \in Works, AttemptStep(w)
    PROVE  /\ agent'[w] # "idle" => agent[w] # "idle" \/ apc[w] = "created"
           /\ memory'[w] = "confirmed" =>
                 memory[w] = "confirmed" \/ apc[w] \in {"confirming", "recovering"}
<1>1. CASE AttemptStarts(w)
    BY <1>1 DEF AttemptStarts, QueueTypeOK
<1>2. CASE ReplyDropped(w) \/ ExecutionRaises(w) \/ ExecutionCompletes(w)
           \/ ExecutionRetries(w) \/ ExecutionFails(w)
    <2>1. \E o : AgentEnds(w, o)
        BY <1>2 DEF ReplyDropped, ExecutionRaises, ExecutionCompletes, ExecutionRetries,
                    ExecutionFails
    <2> QED
        BY <2>1, AgentEndsFields
<1>3. CASE Confirm(w) \/ ConfirmRaises(w) \/ Recover(w)
    BY <1>3 DEF Confirm, ConfirmRaises, Recover
<1>4. CASE Abort(w)
    BY <1>4 DEF Abort, QueueTypeOK
<1>5. CASE Requeue(w) \/ SaveBegins(w) \/ SaveCommits(w)
           \/ (\E kind \in {"other", "transport", "rollback_failed"} : SaveRaises(w, kind))
           \/ RecoverRaises(w) \/ AfterSave(w) \/ OnSaved(w) \/ GiveBack(w)
           \/ GiveBackEnds(w) \/ PoolGone(w) \/ Interrupted(w)
    <2>1. UNCHANGED <<agent, memory>>
        BY <1>5 DEF Requeue, SaveBegins, SaveCommits, SaveRaises, RecoverRaises, AfterSave,
                    OnSaved, GiveBack, GiveBackEnds, PoolGone, Interrupted, agentVars
    <2> QED
        BY <2>1
<1> QED
    BY <1>1, <1>2, <1>3, <1>4, <1>5 DEF AttemptStep

(* Contributions are pending of what runs or is being saved, of a save that is not  *)
(* confirmed, of what was cancelled under its attempt, and of what the end of its   *)
(* pool left undone.                                                                *)
PendingKept(w) ==
    memory[w] = "pending" /\ ~interrupted[w] =>
        \/ apc[w] \in {"executing"} \cup SavePcs
        \/ states[w] = "save_unconfirmed"
        \/ model_ended[RunOf[w]]

LEMMA AttemptKeepsPending ==
    ASSUME QueueTypeOK, NEW w \in Works, AttemptStep(w), WorkStands(w), PendingKept(w)
    PROVE  PendingKept(w)'
<1>0. interrupted' = interrupted /\ model_ended' = model_ended
    BY AttemptLeads DEF OnlyOf
<1>1. CASE AttemptStarts(w)
    BY <1>1 DEF AttemptStarts, PendingKept, QueueTypeOK
<1>2. CASE ReplyDropped(w)
    BY <1>0, <1>2 DEF ReplyDropped, PendingKept
<1>3. CASE ExecutionRaises(w) \/ ExecutionRetries(w) \/ ExecutionFails(w)
    <2>1. \E o \in {"exception", "retry", "failed"} : AgentEnds(w, o)
        BY <1>3 DEF ExecutionRaises, ExecutionRetries, ExecutionFails
    <2> QED
        BY <2>1, AgentEndsFields DEF PendingKept
<1>4. CASE ExecutionCompletes(w)
    BY <1>4 DEF ExecutionCompletes, PendingKept, SavePcs, QueueTypeOK
<1>5. CASE SaveBegins(w)
    BY <1>0, <1>5 DEF SaveBegins, PendingKept, SavePcs, QueueTypeOK
<1>6. CASE Abort(w)
    BY <1>6 DEF Abort, PendingKept, QueueTypeOK
<1>7. CASE SaveCommits(w) \/ Confirm(w) \/ ConfirmRaises(w) \/ Recover(w)
    BY <1>7 DEF SaveCommits, Confirm, ConfirmRaises, Recover, PendingKept, SavePcs, QueueTypeOK
<1>8. ASSUME NEW kind, SaveRaises(w, kind) PROVE PendingKept(w)'
    BY <1>8 DEF SaveRaises, LeaveUnconfirmed, PendingKept, SavePcs, QueueTypeOK
<1>9. CASE RecoverRaises(w)
    BY <1>9 DEF RecoverRaises, LeaveUnconfirmed, PendingKept, QueueTypeOK
<1>10. CASE AfterSave(w)
    <2>1. memory[w] = "confirmed" /\ memory' = memory
        BY <1>10 DEF AfterSave, agentVars, WorkStands, SaveStands
    <2> QED
        BY <2>1 DEF PendingKept
<1>11. CASE Requeue(w) \/ OnSaved(w) \/ GiveBack(w) \/ GiveBackEnds(w) \/ PoolGone(w)
            \/ Interrupted(w)
    <2>1. UNCHANGED <<memory, states>>
        BY <1>11 DEF Requeue, OnSaved, GiveBack, GiveBackEnds, PoolGone, Interrupted, agentVars
    <2>2. CASE interrupted[w]
        BY <1>0, <2>2 DEF PendingKept
    <2>3. CASE ~interrupted[w]
        <3>1. apc[w] \notin {"executing"} \cup SavePcs
            BY <1>11, <2>3 DEF Requeue, OnSaved, GiveBack, GiveBackEnds, PoolGone,
                               Interrupted, SavePcs
        <3> QED
            BY <1>0, <2>1, <3>1 DEF PendingKept
    <2> QED
        BY <2>2, <2>3
<1> QED
    BY <1>1, <1>2, <1>3, <1>4, <1>5, <1>6, <1>7, <1>8, <1>9, <1>10, <1>11 DEF AttemptStep

LEMMA SamePending ==
    ASSUME NEW w, PendingKept(w), apc'[w] = apc[w], states'[w] = states[w],
           memory'[w] = "pending" => memory[w] = "pending",
           interrupted[w] => interrupted'[w],
           model_ended[RunOf[w]] => model_ended'[RunOf[w]]
    PROVE  PendingKept(w)'
    BY DEF PendingKept

(* In the loop no attempt that returned left contributions pending. *)
LEMMA NonePending ==
    ASSUME SaveInv, NEW r \in Runs, qpc[r] = "loop", NEW w \in WorksOf(r), PendingKept(w),
           apc[w] \in {"none", "true", "false"}
    PROVE  memory[w] = "pending" => interrupted[w]
<1>1. ~model_ended[r]
    BY DEF SaveInv, WayOut, LeavesInOrder
<1>2. states[w] # "save_unconfirmed" /\ RunOf[w] = r
    BY DEF SaveInv, WorkStands, UnconfirmedKept, WorksOf
<1> QED
    BY <1>1, <1>2 DEF PendingKept, SavePcs

LEMMA MainKeepsPending ==
    ASSUME BasicInv, SaveInv, NEW r \in Runs,
           MainStep(r) \/ RequestCancel(r) \/ CancelledElsewhere(r),
           NEW w \in Works, PendingKept(w)
    PROVE  PendingKept(w)'
<1>0. QueueTypeOK /\ CallInv
    BY BasicTypes
<1>1. /\ interrupted[w] => interrupted'[w]
      /\ model_ended[RunOf[w]] => model_ended'[RunOf[w]]
    <2>1. CASE CancelledElsewhere(r)
        BY <1>0, <2>1 DEF CancelledElsewhere, QueueTypeOK
    <2>2. CASE ModelTaskEnded(r)
        BY <1>0, <2>2, ModelElectionAssumption DEF ModelTaskEnded, attemptVars, QueueTypeOK
    <2>3. CASE ~CancelledElsewhere(r) /\ ~ModelTaskEnded(r)
        <3>1. UNCHANGED <<interrupted, model_ended>>
            BY <2>3
            DEF MainStep, EnqueueNext, LoopBegins, AttemptRaised, Reap, Dispatch,
                DispatchRefused, CancelledInLoop, TellCancel, AllTold, AllGathered,
                CancelModelTask, ClosePool, RequestCancel, attemptVars
        <3> QED
            BY <3>1
    <2> QED
        BY <2>1, <2>2, <2>3
<1>2. CASE EnqueueNext(r)
    <2>1. UNCHANGED <<apc, memory>>
        BY <1>2 DEF EnqueueNext, agentVars
    <2>2. CASE states'[w] = states[w]
        BY <1>1, <2>1, <2>2, SamePending
    <2>3. CASE states'[w] # states[w]
        <3> DEFINE v == WorkList[r][enqueued[r] + 1]
        <3>1. enqueued[r] + 1 \in 1..Len(WorkList[r]) /\ qpc[r] = "enqueue"
            BY <1>0, <1>2, ChapterWorkersAssumption DEF EnqueueNext, QueueTypeOK
        <3>2. v \in WorksOf(r)
            BY <3>1, ChapterWorkersAssumption
        <3>3. w = v
            BY <1>0, <1>2, <2>3 DEF EnqueueNext, QueueTypeOK
        <3>4. apc[w] = "none"
            BY <1>0, <3>1, <3>2, <3>3 DEF CallInv, NotStarted
        <3>5. states[w] # "save_unconfirmed"
            BY <3>4 DEF SaveInv, WorkStands, UnconfirmedKept
        <3> QED
            BY <1>1, <2>1, <3>4, <3>5 DEF PendingKept, SavePcs
    <2> QED
        BY <2>2, <2>3
<1>3. CASE ~EnqueueNext(r) /\ ~Dispatch(r)
    <2>1. UNCHANGED <<memory, states>> /\ (apc'[w] = apc[w] \/ Reaped(r, w))
        <3>1. UNCHANGED states
            BY <1>3 DEF MainStep, LoopBegins, AttemptRaised, CancelledInLoop, ModelTaskEnded,
                        Reap, DispatchRefused, RequestCancel, AllTold, AllGathered,
                        CancelModelTask, ClosePool, TellCancel, CancelledElsewhere, attemptVars
        <3> QED
            BY <1>3, <3>1, MainFields
    <2>2. CASE apc'[w] = apc[w]
        BY <1>1, <2>1, <2>2, SamePending
    <2>3. CASE Reaped(r, w)
        <3>1. memory[w] = "pending" => interrupted[w]
            BY <2>3, NonePending DEF Reaped
        <3> QED
            BY <1>1, <2>1, <3>1 DEF PendingKept
    <2> QED
        BY <2>1, <2>2, <2>3
<1>4. CASE Dispatch(r)
    <2>1. PICK d : d = Head(assignments[r]).work
        OBVIOUS
    <2>2. /\ d \in WorksOf(r) /\ qpc[r] = "loop"
          /\ apc[d] \in {"none", "true", "false"}
          /\ \A v \in Works \ {d} : /\ states'[v] = states[v]
                                    /\ apc'[v] = apc[v] \/ Reaped(r, v)
          /\ UNCHANGED memory
        BY <1>4, <2>1, DispatchFields
    <2>3. CASE w = d \/ Reaped(r, w)
        <3>1. memory[w] = "pending" => interrupted[w]
            BY <2>2, <2>3, NonePending DEF Reaped
        <3> QED
            BY <1>1, <2>2, <3>1 DEF PendingKept
    <2>4. CASE w # d /\ ~Reaped(r, w)
        BY <1>1, <2>2, <2>4, SamePending
    <2> QED
        BY <2>3, <2>4
<1> QED
    BY <1>2, <1>3, <1>4

PendingInv == \A w \in Works : PendingKept(w)

LEMMA PendingStep == BasicInv /\ SaveInv /\ PendingInv /\ [Next]_vars => PendingInv'
<1> SUFFICES ASSUME BasicInv, SaveInv, PendingInv, [Next]_vars, NEW w \in Works
             PROVE  PendingKept(w)'
    BY DEF PendingInv
<1>0. QueueTypeOK /\ PendingKept(w) /\ WorkStands(w)
    BY BasicTypes DEF PendingInv, SaveInv
<1>1. ASSUME NEW v \in Works, AttemptStep(v) PROVE PendingKept(w)'
    <2>1. CASE v = w
        BY <1>0, <1>1, <2>1, AttemptKeepsPending
    <2>2. CASE v # w
        BY <1>0, <1>1, <2>2, AttemptLeads, SamePending DEF OnlyOf
    <2> QED
        BY <2>1, <2>2
<1>2. ASSUME NEW v \in Works, AgentEndsUnheard(v) PROVE PendingKept(w)'
    <2>1. UNCHANGED <<apc, states, interrupted, model_ended>>
        BY <1>2 DEF AgentEndsUnheard, attemptVars, loopVars
    <2>2. memory'[w] = "pending" => memory[w] = "pending"
        BY <1>0, <1>2, AgentEndsFields DEF AgentEndsUnheard
    <2> QED
        BY <1>0, <2>1, <2>2, SamePending
<1>3. CASE UNCHANGED queueVars
    BY <1>0, <1>3, SamePending DEF queueVars, attemptVars, agentVars, loopVars
<1>4. ASSUME NEW r \in Runs, MainStep(r) \/ RequestCancel(r) \/ CancelledElsewhere(r)
      PROVE  PendingKept(w)'
    BY <1>0, <1>4, MainKeepsPending
<1> QED
    BY <1>1, <1>2, <1>3, <1>4 DEF Next, vars

LEMMA PendingInvariant == Spec => []PendingInv
<1>1. Init => PendingInv
    BY DEF Init, PendingInv, PendingKept
<1> QED
    BY <1>1, PendingStep, BasicInvariant, SaveInvariant, PTL DEF Spec
-----------------------------------------------------------------------------
(* How a work can be lost *)

(* While a run enqueues, what it enqueued is in the queue. *)
EnqueuedWait(r) ==
    qpc[r] = "enqueue" => \A i \in 1..enqueued[r] : WorkList[r][i] \in Queued(r)

LEMMA EnqueuedStay ==
    ASSUME NEW r \in Runs, EnqueuedWait(r), qpc'[r] = "enqueue" => qpc[r] = "enqueue",
           enqueued'[r] = enqueued[r], Queued(r) \subseteq Queued(r)'
    PROVE  EnqueuedWait(r)'
    BY DEF EnqueuedWait

LEMMA NextEnqueued ==
    ASSUME BasicInv, QueueDistinct, NEW r \in Runs, EnqueueNext(r), EnqueuedWait(r)
    PROVE  EnqueuedWait(r)'
<1>0. PoolTypeOK /\ QueueTypeOK
    BY BasicTypes
<1> DEFINE k == enqueued[r] + 1
           w == WorkList[r][k]
<1>1. /\ enqueued[r] \in Nat /\ k \in 1..Len(WorkList[r]) /\ qpc[r] = "enqueue"
      /\ Enqueue(w) /\ enqueued'[r] = k
    BY <1>0, ChapterWorkersAssumption DEF EnqueueNext, QueueTypeOK
<1>2. w \in Works /\ RunOf[w] = r
    <2>1. WorksOf(r) = {WorkList[r][i] : i \in 1..Len(WorkList[r])}
        BY ChapterWorkersAssumption
    <2>2. w \in WorksOf(r)
        BY <1>1, <2>1
    <2> QED
        BY <2>2 DEF WorksOf
<1>3. Elements(pending'[r]) = Queued(r) \cup {w}
    BY <1>0, <1>1, <1>2, EnqueueFields
<1>4. Queued(r)' = Queued(r) \cup {w}
    BY <1>3 DEF Queued, Elements
<1>5. \A i \in 1..k : i \in 1..enqueued[r] \/ i = k
    BY <1>1
<1> QED
    BY <1>1, <1>4, <1>5 DEF EnqueuedWait

LEMMA EnqueuedStep ==
    ASSUME BasicInv, QueueDistinct, [Next]_vars, NEW r \in Runs, EnqueuedWait(r)
    PROVE  EnqueuedWait(r)'
<1>0. PoolTypeOK /\ QueueTypeOK /\ CallInv
    BY BasicTypes
<1>s. ASSUME UNCHANGED <<qpc, enqueued, pending>> PROVE EnqueuedWait(r)'
    <2>1. Queued(r)' = Queued(r)
        BY <1>s DEF Queued
    <2> QED
        BY <1>s, <2>1, EnqueuedStay
<1>1. ASSUME NEW w \in Works, AttemptStep(w) PROVE EnqueuedWait(r)'
    <2>1. UNCHANGED <<qpc, enqueued>>
        BY <1>0, <1>1, AttemptLeads DEF OnlyOf
    <2>2. CASE ~Requeue(w)
        BY <1>0, <1>1, <1>s, <2>1, <2>2, AttemptKeepsQueue
    <2>3. CASE Requeue(w)
        <3>1. /\ \A o \in Runs \ {RunOf[w]} : pending'[o] = pending[o]
              /\ Queued(RunOf[w])' = Queued(RunOf[w]) \cup {w}
            BY <1>0, <2>3, RequeueFields
        <3>2. Queued(r) \subseteq Queued(r)'
            <4>1. CASE r = RunOf[w]
                BY <3>1, <4>1
            <4>2. CASE r # RunOf[w]
                BY <3>1, <4>2 DEF Queued
            <4> QED
                BY <4>1, <4>2
        <3> QED
            BY <2>1, <3>2, EnqueuedStay
    <2> QED
        BY <2>2, <2>3
<1>2. ASSUME NEW w \in Works, AgentEndsUnheard(w) PROVE EnqueuedWait(r)'
    BY <1>2, <1>s DEF AgentEndsUnheard, poolVars, loopVars
<1>3. ASSUME NEW p \in Runs, LoopStep(p), UNCHANGED queueVars PROVE EnqueuedWait(r)'
    <2>1. UNCHANGED <<qpc, enqueued>>
        BY <1>3 DEF queueVars, loopVars
    <2>2. CASE p # r
        <3>1. pending'[r] = pending[r]
            BY <1>0, <1>3, <2>2, PoolsApart DEF SamePool
        <3>2. Queued(r)' = Queued(r)
            BY <3>1 DEF Queued
        <3> QED
            BY <2>1, <3>2, EnqueuedStay
    <2>3. CASE p = r
        <3>1. LoopAlive(r)
            BY <1>3, <2>3 DEF LoopStep, Elect, AtHead, Publish, ElectionFails, LoopEnds,
                              LoopCrashes, LoopAlive
        <3>2. qpc[r] # "enqueue"
            BY <1>0, <3>1, AliveIsOpen
        <3> QED
            BY <2>1, <3>2 DEF EnqueuedWait
    <2> QED
        BY <2>2, <2>3
<1>4. CASE Surroundings /\ UNCHANGED queueVars
    BY <1>4, <1>s DEF queueVars, loopVars, Surroundings, CoolingEnds, ScoreDrops,
                      ScoreRecovers, Reconfigure
<1>5. CASE UNCHANGED vars
    BY <1>5, <1>s DEF vars, poolVars, queueVars, loopVars
<1>6. ASSUME NEW p \in Runs, MainStep(p) \/ RequestCancel(p) \/ CancelledElsewhere(p)
      PROVE  EnqueuedWait(r)'
    <2>1. CASE EnqueueNext(p) /\ p = r
        BY <2>1, NextEnqueued
    <2>2. CASE EnqueueNext(p) /\ p # r
        <3>1. qpc'[r] = qpc[r] /\ pending'[r] = pending[r]
            BY <1>6, <2>2, RunsApart DEF SamePool
        <3>2. enqueued'[r] = enqueued[r] /\ Queued(r)' = Queued(r)
            BY <1>0, <2>2, <3>1 DEF EnqueueNext, QueueTypeOK, Queued
        <3> QED
            BY <3>1, <3>2, EnqueuedStay
    <2>3. CASE ~EnqueueNext(p)
        <3>1. UNCHANGED <<pending, enqueued>>
            BY <1>6, <2>3
            DEF MainStep, LoopBegins, StartLoop, AttemptRaised, CancelledInLoop,
                ModelTaskEnded, Reap, Dispatch, DispatchRefused, RequestCancel, AllTold,
                AllGathered, CancelModelTask, CancelLoop, ClosePool, Close, TellCancel,
                CancelledElsewhere, StopElections, TakeAssignment, poolVars
        <3>2. qpc'[r] = "enqueue" => qpc[r] = "enqueue"
            <4>1. CASE p # r
                BY <1>6, <4>1, RunsApart
            <4>2. CASE p = r /\ (Reap(r) \/ Dispatch(r))
                <5>1. qpc[r] = "loop" /\ \E count, running : LoopHead(r, count, running)
                    BY <4>2 DEF Reap, Dispatch
                <5> QED
                    BY <1>0, <5>1, LoopHeadFields
            <4>3. CASE p = r /\ ~(Reap(r) \/ Dispatch(r))
                BY <1>0, <1>6, <2>3, <4>3
                DEF MainStep, LoopBegins, AttemptRaised, CancelledInLoop, ModelTaskEnded,
                    Raise, DispatchRefused, RequestCancel, AllTold, AllGathered,
                    CancelModelTask, ClosePool, TellCancel, CancelledElsewhere, QueueTypeOK
            <4> QED
                BY <4>1, <4>2, <4>3
        <3>3. Queued(r)' = Queued(r)
            BY <3>1 DEF Queued
        <3> QED
            BY <3>1, <3>2, <3>3, EnqueuedStay
    <2> QED
        BY <2>1, <2>2, <2>3
<1> QED
    BY <1>1, <1>2, <1>3, <1>4, <1>5, <1>6 DEF Next

LEMMA TurnInvariant == Spec => [](QueueDistinct /\ TurnInv)
    BY QueueUsesPool, QueueInvariant, PTL DEF UsesPool

EnqueuedInv == \A r \in Runs : EnqueuedWait(r)

LEMMA EnqueuedInvariant == Spec => []EnqueuedInv
<1>1. Init => EnqueuedInv
    BY DEF Init, EnqueuedInv, EnqueuedWait
<1>2. BasicInv /\ QueueDistinct /\ EnqueuedInv /\ [Next]_vars => EnqueuedInv'
    BY EnqueuedStep DEF EnqueuedInv
<1> QED
    BY <1>1, <1>2, BasicInvariant, TurnInvariant, PTL DEF Spec

(* A work that is not saved and has no attempt under way waits in the queue of its *)
(* pool, or in a result of the pool.                                               *)
Waits(r, w) ==
    stored[w] = 0 /\ BackInQueue(w) => w \in Queued(r) \/ AssignedTo(r, w)

LEMMA LostAndWaiting ==
    ASSUME TurnInv, NEW r \in Runs, NEW w
    PROVE  /\ ~LostWork(r, w) => Waits(r, w)
           /\ LostWork(r, w)' => ~Waits(r, w)'
    BY DEF TurnInv, TurnHeld, HeldTurn, LostWork, Parked, Waits

(* A step that neither takes the work out of the queue nor brings it back. *)
LEMMA WaitingGoesOn ==
    ASSUME NEW r \in Runs, NEW w, Waits(r, w),
           w \in Queued(r) => w \in Queued(r)' \/ AssignedTo(r, w)',
           AssignedTo(r, w) => AssignedTo(r, w)',
           stored'[w] = 0 => stored[w] = 0,
           stored[w] = 0 /\ BackInQueue(w)' => BackInQueue(w)
    PROVE  Waits(r, w)'
    BY DEF Waits

LEMMA AttemptWaits ==
    ASSUME BasicInv, SaveInv, QueueDistinct, NEW v \in Works, AttemptStep(v),
           NEW r \in Runs, qpc[r] = "loop", NEW w \in WorksOf(r), Waits(r, w)
    PROVE  Waits(r, w)'
<1>0. PoolTypeOK /\ QueueTypeOK /\ Numbered /\ w \in Works /\ RunOf[w] = r
    BY BasicTypes DEF CallInv, WorksOf
<1>1. OnlyOf(v) /\ AttemptMoves(v)
    BY <1>0, AttemptLeads
<1>2. ~model_ended[r]
    BY DEF SaveInv, WayOut, LeavesInOrder
<1>3. stored'[w] = 0 => stored[w] = 0
    BY <1>0, <1>1 DEF AttemptMoves, OnlyOf, Numbered
<1>4. CASE ~Requeue(v)
    <2>1. /\ UNCHANGED <<pending, assignments>>
          /\ apc[v] = "requeue" => ~BackInQueue(v)'
        BY <1>0, <1>4, AttemptKeepsQueue
    <2>2. Queued(r)' = Queued(r) /\ (AssignedTo(r, w)' <=> AssignedTo(r, w))
        BY <2>1 DEF Queued, AssignedTo
    <2>3. BackInQueue(w)' => BackInQueue(w)
        <3>1. CASE v = w
            BY <1>0, <1>1, <1>2, <2>1, <3>1 DEF AttemptMoves
        <3>2. CASE v # w
            BY <1>0, <1>1, <3>2 DEF OnlyOf, BackInQueue
        <3> QED
            BY <3>1, <3>2
    <2> QED
        BY <1>3, <2>2, <2>3, WaitingGoesOn
<1>5. CASE Requeue(v)
    <2>1. /\ UNCHANGED <<stored, assignments>>
          /\ \A o \in Runs \ {RunOf[v]} : pending'[o] = pending[o]
          /\ Queued(RunOf[v])' = Queued(RunOf[v]) \cup {v}
        BY <1>0, <1>5, RequeueFields
    <2>2. CASE v = w
        BY <1>0, <2>1, <2>2 DEF Waits
    <2>3. CASE v # w
        <3>1. Queued(r) \subseteq Queued(r)'
            <4>1. CASE r = RunOf[v]
                BY <2>1, <4>1
            <4>2. CASE r # RunOf[v]
                BY <2>1, <4>2 DEF Queued
            <4> QED
                BY <4>1, <4>2
        <3>2. BackInQueue(w)' => BackInQueue(w)
            BY <1>0, <1>1, <2>3 DEF OnlyOf, BackInQueue
        <3>3. AssignedTo(r, w) => AssignedTo(r, w)'
            BY <2>1 DEF AssignedTo
        <3> QED
            BY <1>3, <3>1, <3>2, <3>3, WaitingGoesOn
    <2> QED
        BY <2>2, <2>3
<1> QED
    BY <1>4, <1>5

(* The one way to lose a work: it is the head that is dropped for another. *)
Strayed(r, w) ==
    /\ mpc[r] = "notify" /\ mpc'[r] = "poll"
    /\ w = Head(pending[r]) /\ w # electing[r].work
    /\ attempts[w] > 0

(* What a step of the pool hands out, and what it drops for it. *)
LEMMA HandOutWaits ==
    ASSUME PoolTypeOK, QueueDistinct, NEW r \in Runs, NEW a \in Assignment,
           pending[r] # <<>>, HandOut(r, a), UNCHANGED <<apc, ending, stored>>,
           NEW w, Waits(r, w), w = Head(pending[r]) => w = a.work
    PROVE  Waits(r, w)'
<1>1. /\ Elements(pending'[r]) = Queued(r) \ {Head(pending[r])}
      /\ \A v : AssignedTo(r, v)' <=> AssignedTo(r, v) \/ v = a.work
    BY HandOutQueue
<1>2. Queued(r)' = Queued(r) \ {Head(pending[r])}
    BY <1>1 DEF Queued, Elements
<1> QED
    BY <1>1, <1>2 DEF Waits, BackInQueue

LEMMA PoolWaits ==
    ASSUME BasicInv, QueueDistinct, TurnInv, NEW r \in Runs, LoopStep(r),
           UNCHANGED queueVars, NEW w \in WorksOf(r), Waits(r, w)
    PROVE  Waits(r, w)' \/ Strayed(r, w)
<1>0. PoolTypeOK /\ TypeInv
    BY BasicTypes DEF BasicInv
<1>1. UNCHANGED <<apc, ending, stored>>
    BY DEF queueVars, attemptVars, agentVars
<1>s. ASSUME UNCHANGED <<pending, assignments>> PROVE Waits(r, w)'
    BY <1>1, <1>s DEF Waits, BackInQueue, Queued, AssignedTo
<1>2. ASSUME NEW v \in Works, NEW m \in Models, Elect(r, v, m) PROVE Waits(r, w)'
    <2> DEFINE a == [work |-> v, attempt |-> attempts[v] + 1, model |-> m]
    <2>1. pending[r] # <<>> /\ v = Head(pending[r])
        BY <1>2 DEF Elect, AtHead
    <2>2. a \in Assignment /\ a.work = v
        BY <1>0 DEF Assignment, PoolTypeOK
    <2>3. CASE NotifySuspends
        BY <1>2, <1>s, <2>3 DEF Elect
    <2>4. CASE ~NotifySuspends
        <3>1. HandOut(r, a)
            BY <1>2, <2>4 DEF Elect
        <3> QED
            BY <1>0, <1>1, <2>1, <2>2, <3>1, HandOutWaits
    <2> QED
        BY <2>3, <2>4
<1>3. CASE Publish(r)
    <2>1. electing[r] \in Assignment /\ HandOut(r, electing[r]) /\ mpc[r] = "notify"
        BY <1>0, <1>3 DEF Publish, TypeInv, ResultHeld
    <2>2. mpc'[r] = "poll"
        BY <1>0, <1>3 DEF Publish, PoolTypeOK
    <2>3. HeldTurn(r)
        BY <2>1 DEF TurnInv, TurnHeld
    <2>4. PICK j \in 1..Len(pending[r]) : pending[r][j] = electing[r].work
        BY <2>3 DEF HeldTurn, Queued
    <2>5. pending[r] # <<>> /\ Head(pending[r]) = pending[r][1] /\ 1 \in 1..Len(pending[r])
        BY <1>0, <2>4 DEF PoolTypeOK
    <2>6. CASE w = Head(pending[r]) /\ w # electing[r].work
        <3>1. 1 < j
            BY <2>4, <2>5, <2>6
        <3>2. attempts[w] > 0
            BY <2>3, <2>4, <2>5, <2>6, <3>1 DEF HeldTurn
        <3> QED
            BY <2>1, <2>2, <2>6, <3>2 DEF Strayed
    <2>7. CASE ~(w = Head(pending[r]) /\ w # electing[r].work)
        BY <1>0, <1>1, <2>1, <2>5, <2>7, HandOutWaits
    <2> QED
        BY <2>6, <2>7
<1>4. CASE (\E v \in Works : ElectionFails(r, v)) \/ LoopEnds(r) \/ LoopCrashes(r)
    BY <1>s, <1>4 DEF ElectionFails, LoopEnds, LoopCrashes
<1> QED
    BY <1>2, <1>3, <1>4 DEF LoopStep

(* What is left when the oldest result is taken. *)
LEMMA TakenLeaves ==
    ASSUME PoolTypeOK, NEW r \in Runs, assignments[r] # <<>>,
           assignments' = [assignments EXCEPT ![r] = Tail(@)],
           NEW v, AssignedTo(r, v), v # Head(assignments[r]).work
    PROVE  AssignedTo(r, v)'
<1> DEFINE s == assignments[r]
           n == Len(s)
<1>1. s \in Seq(Assignment) /\ s # <<>>
    BY DEF PoolTypeOK
<1>2. /\ n \in Nat /\ n > 0 /\ Head(s) = s[1] /\ Len(Tail(s)) = n - 1
      /\ \A i \in 1..n - 1 : Tail(s)[i] = s[i + 1]
    BY <1>1
<1>3. assignments'[r] = Tail(s)
    BY DEF PoolTypeOK
<1>4. PICK i \in 1..n : s[i].work = v
    BY DEF AssignedTo
<1>5. i - 1 \in 1..n - 1 /\ (i - 1) + 1 = i
    BY <1>2, <1>4
<1>6. Tail(s)[i - 1].work = v
    BY <1>2, <1>4, <1>5
<1> QED
    BY <1>2, <1>3, <1>5, <1>6 DEF AssignedTo

LEMMA ReapedWaits ==
    ASSUME BasicInv, SaveInv, NEW r \in Runs, NEW v \in WorksOf(r),
           UNCHANGED <<stored, ending>>, apc'[v] = apc[v] \/ Reaped(r, v)
    PROVE  stored[v] = 0 /\ BackInQueue(v)' => BackInQueue(v)
<1>1. apc[v] = "true" => stored[v] # 0
    <2>1. WorkStands(v) /\ QueueTypeOK
        BY BasicTypes DEF SaveInv, WorksOf
    <2>2. apc[v] = "true" => stored[v] = receipt[v] /\ receipt[v] > 0
        BY <2>1 DEF WorkStands, SaveStands, SavedIsStored
    <2> QED
        BY <2>2
<1> QED
    BY <1>1 DEF Reaped, BackInQueue

LEMMA DispatchWaits ==
    ASSUME BasicInv, SaveInv, NEW r \in Runs, Dispatch(r), NEW w \in WorksOf(r), Waits(r, w)
    PROVE  Waits(r, w)'
<1>0. PoolTypeOK /\ w \in Works
    BY BasicTypes DEF WorksOf
<1>1. PICK d : d = Head(assignments[r]).work
    OBVIOUS
<1>2. /\ d \in WorksOf(r) /\ apc'[d] = "created"
      /\ \A v \in Works \ {d} : apc'[v] = apc[v] \/ Reaped(r, v)
      /\ assignments' = [assignments EXCEPT ![r] = Tail(@)]
      /\ UNCHANGED <<stored, ending, pending>>
    BY <1>1, DispatchFields
<1>3. assignments[r] # <<>>
    BY DEF Dispatch
<1>4. CASE w = d
    BY <1>2, <1>4 DEF Waits, BackInQueue
<1>5. CASE w # d
    <2>1. stored[w] = 0 /\ BackInQueue(w)' => BackInQueue(w)
        BY <1>0, <1>2, <1>5, ReapedWaits
    <2>2. AssignedTo(r, w) => AssignedTo(r, w)'
        BY <1>0, <1>1, <1>2, <1>3, <1>5, TakenLeaves
    <2>3. Queued(r)' = Queued(r)
        BY <1>2 DEF Queued
    <2> QED
        BY <1>2, <2>1, <2>2, <2>3, WaitingGoesOn
<1> QED
    BY <1>4, <1>5

(* All of its works are in the queue when the loop of a run begins. *)
LEMMA BeginningWaits ==
    ASSUME BasicInv, NEW r \in Runs, LoopBegins(r), EnqueuedWait(r), NEW w \in WorksOf(r)
    PROVE  Waits(r, w)'
<1>1. /\ qpc[r] = "enqueue" /\ enqueued[r] = Len(WorkList[r])
      /\ UNCHANGED pending
    BY DEF LoopBegins, StartLoop
<1>2. WorksOf(r) = {WorkList[r][i] : i \in 1..Len(WorkList[r])}
    BY ChapterWorkersAssumption
<1>3. w \in Queued(r)
    BY <1>1, <1>2 DEF EnqueuedWait
<1>4. Queued(r)' = Queued(r)
    BY <1>1 DEF Queued
<1> QED
    BY <1>3, <1>4 DEF Waits

LEMMA WaitsStep ==
    ASSUME BasicInv, SaveInv, QueueDistinct, TurnInv, EnqueuedInv, [Next]_vars,
           NEW r \in Runs, qpc'[r] = "loop", NEW w \in WorksOf(r),
           qpc[r] = "loop" => Waits(r, w)
    PROVE  Waits(r, w)' \/ Strayed(r, w)
<1>0. PoolTypeOK /\ QueueTypeOK /\ w \in Works /\ RunOf[w] = r
    BY BasicTypes DEF WorksOf
<1>s. ASSUME qpc[r] = "loop", pending'[r] = pending[r], assignments'[r] = assignments[r],
             apc'[w] = apc[w], ending'[w] = ending[w], stored'[w] = stored[w]
      PROVE  Waits(r, w)'
    BY <1>s DEF Waits, BackInQueue, Queued, AssignedTo
<1>1. ASSUME NEW v \in Works, AttemptStep(v) PROVE Waits(r, w)'
    <2>1. qpc[r] = "loop"
        BY <1>0, <1>1, AttemptLeads DEF OnlyOf
    <2> QED
        BY <1>1, <2>1, AttemptWaits
<1>2. ASSUME NEW v \in Works, AgentEndsUnheard(v) PROVE Waits(r, w)'
    BY <1>2, <1>s DEF AgentEndsUnheard, AgentEnds, poolVars, loopVars, attemptVars
<1>3. ASSUME NEW p \in Runs, LoopStep(p), UNCHANGED queueVars
      PROVE  Waits(r, w)' \/ Strayed(r, w)
    <2>1. qpc[r] = "loop" /\ UNCHANGED <<apc, ending, stored>>
        BY <1>3 DEF queueVars, loopVars, attemptVars, agentVars
    <2>2. CASE p = r
        BY <1>3, <2>1, <2>2, PoolWaits
    <2>3. CASE p # r
        <3>1. pending'[r] = pending[r] /\ assignments'[r] = assignments[r]
            BY <1>0, <1>3, <2>3, PoolsApart DEF SamePool
        <3> QED
            BY <1>s, <2>1, <3>1
    <2> QED
        BY <2>2, <2>3
<1>4. CASE Surroundings /\ UNCHANGED queueVars
    BY <1>4, <1>s DEF queueVars, loopVars, attemptVars, agentVars, Surroundings, CoolingEnds,
                      ScoreDrops, ScoreRecovers, Reconfigure
<1>5. CASE UNCHANGED vars
    BY <1>5, <1>s DEF vars, poolVars, queueVars, loopVars, attemptVars, agentVars
<1>6. ASSUME NEW p \in Runs, MainStep(p) \/ RequestCancel(p) \/ CancelledElsewhere(p)
      PROVE  Waits(r, w)'
    <2>1. CASE p # r
        <3>1. /\ qpc'[r] = qpc[r] /\ pending'[r] = pending[r] /\ assignments'[r] = assignments[r]
              /\ apc'[w] = apc[w] /\ ending'[w] = ending[w] /\ stored'[w] = stored[w]
            BY <1>0, <1>6, <2>1, RunsApart DEF SamePool
        <3> QED
            BY <1>s, <3>1
    <2>2. CASE p = r /\ LoopBegins(r)
        BY <2>2, BeginningWaits DEF EnqueuedInv
    <2>3. CASE p = r /\ Dispatch(r)
        <3>1. qpc[r] = "loop"
            BY <2>3 DEF Dispatch
        <3> QED
            BY <2>3, <3>1, DispatchWaits
    <2>4. CASE p = r /\ ~LoopBegins(r) /\ ~Dispatch(r)
        <3>1. Reap(r) \/ RequestCancel(r)
            BY <1>0, <1>6, <2>4
            DEF MainStep, EnqueueNext, AttemptRaised, CancelledInLoop, ModelTaskEnded, Raise,
                DispatchRefused, AllTold, AllGathered, CancelModelTask, ClosePool, TellCancel,
                CancelledElsewhere, QueueTypeOK
        <3>2. qpc[r] = "loop" /\ UNCHANGED <<pending, assignments>>
            BY <3>1 DEF Reap, RequestCancel, StopElections, poolVars
        <3>3. /\ UNCHANGED <<stored, ending>>
              /\ apc'[w] = apc[w] \/ Reaped(r, w)
            BY <1>0, <1>6, <2>4, MainFields
        <3>4. stored[w] = 0 /\ BackInQueue(w)' => BackInQueue(w)
            BY <3>3, ReapedWaits
        <3>5. Queued(r)' = Queued(r) /\ (AssignedTo(r, w)' <=> AssignedTo(r, w))
            BY <3>2 DEF Queued, AssignedTo
        <3> QED
            BY <3>2, <3>3, <3>4, <3>5, WaitingGoesOn
    <2> QED
        BY <2>1, <2>2, <2>3, <2>4
<1> QED
    BY <1>1, <1>2, <1>3, <1>4, <1>5, <1>6 DEF Next

(* Whatever retries, failures, faults of the pools, suspended elections and         *)
(* cancellations come in whatever order, a work is lost in one way only: it is the  *)
(* retry that stands at the head of the queue when an election of another work,     *)
(* suspended in notify_capacity(), goes on and drops the head.  A first attempt is  *)
(* never lost, nor a work by any other step (ModelElectionPool.run and enqueue).    *)
THEOREM WorksAreLostOnlyToRetries == Spec => LostOnlyToRetry
<1> DEFINE Kept ==
        \A r \in Runs : \A w \in WorksOf(r) :
            qpc'[r] = "loop" /\ LostWork(r, w)' /\ ~LostWork(r, w) =>
                /\ mpc[r] = "notify" /\ mpc'[r] = "poll"
                /\ w = Head(pending[r]) /\ w # electing[r].work
                /\ attempts[w] > 0
<1>1. /\ BasicInv /\ SaveInv /\ QueueDistinct /\ TurnInv /\ EnqueuedInv
      /\ [Next]_vars
      => Kept
    <2> SUFFICES ASSUME BasicInv, SaveInv, QueueDistinct, TurnInv, EnqueuedInv, [Next]_vars,
                        NEW r \in Runs, NEW w \in WorksOf(r),
                        qpc'[r] = "loop", LostWork(r, w)', ~LostWork(r, w)
                 PROVE  Strayed(r, w)
        BY DEF Strayed
    <2>1. Waits(r, w) /\ ~Waits(r, w)'
        BY LostAndWaiting
    <2> QED
        BY <2>1, WaitsStep
<1>2. /\ BasicInv /\ SaveInv /\ QueueDistinct /\ TurnInv /\ EnqueuedInv
      /\ [Next]_vars
      => [Kept]_vars
    BY <1>1
<1> HIDE DEF Kept
<1>3. Spec => [][Kept]_vars
    BY <1>2, BasicInvariant, SaveInvariant, TurnInvariant, EnqueuedInvariant, PTL DEF Spec
<1> QED
    BY <1>3 DEF LostOnlyToRetry, Kept

-----------------------------------------------------------------------------
(* Where the works of a run are, and what memory says of them *)

(* While the loop of a run goes on and none of its works is lost, what waits waits   *)
(* once and is not saved, what was handed out is in nobody's hands, and no agent     *)
(* works on a saved result, whatever order retries, suspended elections, feedback    *)
(* and reaping come in (ChapterWorkerPool.run, ModelElectionPool.run).               *)
THEOREM WorksAreAccounted == Spec => []WorksAccounted
<1>1. BasicInv /\ SaveInv /\ ReturnInv => WorksAccounted
    <2> SUFFICES ASSUME BasicInv, SaveInv, ReturnInv, NEW r \in Runs, qpc[r] = "loop",
                        ~Lost(r), NEW w \in WorksOf(r)
                 PROVE  WorkAccounted(r, w)
        BY DEF WorksAccounted
    <2>1. AccountOf(r, w)
        BY DEF ReturnInv, QueueAccounted, InAccount, Accounted
    <2>2. AssignedTo(r, w) => apc[w] \notin Holding
        BY AssignedRests
    <2>3. agent[w] # "idle" => apc[w] = "executing"
        <3>1. w \in Works /\ RunOf[w] = r
            BY DEF WorksOf
        <3>2. ~interrupted[w]
            BY <3>1 DEF SaveInv, WayOut, LeavesInOrder, Interruptions
        <3> QED
            BY <3>1, <3>2 DEF SaveInv, WorkStands, AgentIsHeard
    <2> QED
        BY <2>1, <2>2, <2>3 DEF AccountOf, WorkAccounted, Unsaved
<1> QED
    BY <1>1, BasicInvariant, SaveInvariant, ReturnInvariant, PTL

(* What is confirmed in memory is a committed result, of the same execution unless *)
(* the work was handed out once more to an attempt that has not begun, or never    *)
(* will because it was interrupted.                                                *)
ConfirmedStands(w) ==
    memory[w] = "confirmed" =>
        /\ stored[w] # 0
        /\ stored[w] = receipt[w] \/ apc[w] = "created" \/ interrupted[w]

LEMMA AttemptConfirms ==
    ASSUME QueueTypeOK, Numbered, NEW w \in Works, AttemptStep(w), WorkStands(w),
           ConfirmedStands(w), Interruptions
    PROVE  ConfirmedStands(w)'
<1>1. receipt'[w] = receipt[w] /\ interrupted'[w] = interrupted[w] /\ AttemptMoves(w)
    BY AttemptLeads DEF OnlyOf
<1>2. \/ stored'[w] = stored[w]
      \/ apc[w] = "saving" /\ stored[w] \in {0, receipt[w]} /\ stored'[w] = receipt[w]
    BY <1>1 DEF AttemptMoves
<1>3. memory'[w] = "confirmed" =>
          memory[w] = "confirmed" \/ apc[w] \in {"confirming", "recovering"}
    BY AttemptTouches
<1>4. apc[w] # "none" => receipt[w] > 0
    BY DEF Numbered
<1>5. apc[w] \in {"confirming", "recovering"} => stored[w] = receipt[w] /\ stored[w] # 0
    BY <1>4 DEF WorkStands, SaveStands, QueueTypeOK
<1>6. CASE AttemptStarts(w)
    BY <1>6 DEF AttemptStarts, ConfirmedStands, QueueTypeOK
<1>7. CASE ~AttemptStarts(w)
    <2>1. apc[w] = "created" => interrupted[w]
        BY <1>7 DEF AttemptStep, ReplyDropped, ExecutionRaises, ExecutionCompletes,
                    ExecutionRetries, ExecutionFails, Requeue, SaveBegins, SaveCommits,
                    SaveRaises, Abort, Confirm, ConfirmRaises, Recover, RecoverRaises,
                    AfterSave, OnSaved, GiveBack, GiveBackEnds, PoolGone, Interrupted
    <2>2. stored'[w] = stored[w] \/ (stored'[w] = receipt[w] /\ stored'[w] # 0)
        BY <1>2, <1>4
    <2> QED
        BY <1>1, <1>2, <1>3, <1>5, <2>1, <2>2 DEF ConfirmedStands
<1> QED
    BY <1>6, <1>7

LEMMA MainConfirms ==
    ASSUME BasicInv, NEW r \in Runs,
           MainStep(r) \/ RequestCancel(r) \/ CancelledElsewhere(r),
           NEW w \in Works, ConfirmedStands(w)
    PROVE  ConfirmedStands(w)'
<1>1. interrupted[w] => interrupted'[w]
    BY DEF MainStep, EnqueueNext, LoopBegins, AttemptRaised, ModelTaskEnded, Reap, Dispatch,
           DispatchRefused, CancelledInLoop, TellCancel, AllTold, AllGathered,
           CancelModelTask, ClosePool, RequestCancel, CancelledElsewhere, attemptVars
<1>2. CASE ~Dispatch(r)
    <2>1. /\ UNCHANGED <<receipt, memory, stored>>
          /\ apc'[w] = apc[w] \/ Reaped(r, w)
        BY <1>2, MainFields
    <2> QED
        BY <1>1, <2>1 DEF ConfirmedStands, Reaped
<1>3. CASE Dispatch(r)
    <2>1. PICK d : d = Head(assignments[r]).work
        OBVIOUS
    <2>2. /\ apc'[d] = "created"
          /\ \A v \in Works \ {d} : /\ receipt'[v] = receipt[v]
                                    /\ apc'[v] = apc[v] \/ Reaped(r, v)
          /\ UNCHANGED <<stored, memory>>
        BY <1>3, <2>1, DispatchFields
    <2> QED
        BY <1>1, <2>2 DEF ConfirmedStands, Reaped
<1> QED
    BY <1>2, <1>3

ConfirmedInv == \A w \in Works : ConfirmedStands(w)

LEMMA ConfirmedStep == BasicInv /\ SaveInv /\ ConfirmedInv /\ [Next]_vars => ConfirmedInv'
<1> SUFFICES ASSUME BasicInv, SaveInv, ConfirmedInv, [Next]_vars, NEW w \in Works
             PROVE  ConfirmedStands(w)'
    BY DEF ConfirmedInv
<1>0. QueueTypeOK /\ Numbered /\ WorkStands(w) /\ ConfirmedStands(w) /\ Interruptions
    BY BasicTypes DEF CallInv, SaveInv, WayOut, ConfirmedInv
<1>1. ASSUME NEW v \in Works, AttemptStep(v) PROVE ConfirmedStands(w)'
    <2>1. CASE v = w
        BY <1>0, <1>1, <2>1, AttemptConfirms
    <2>2. CASE v # w
        BY <1>0, <1>1, <2>2, AttemptLeads DEF OnlyOf, ConfirmedStands
    <2> QED
        BY <2>1, <2>2
<1>2. ASSUME NEW v \in Works, AgentEndsUnheard(v) PROVE ConfirmedStands(w)'
    <2>1. UNCHANGED <<apc, receipt, interrupted>> /\ \E o : AgentEnds(v, o)
        BY <1>2 DEF AgentEndsUnheard, attemptVars
    <2>2. stored' = stored /\ (memory'[w] = "confirmed" => memory[w] = "confirmed")
        BY <1>0, <2>1, AgentEndsFields
    <2> QED
        BY <1>0, <2>1, <2>2 DEF ConfirmedStands
<1>3. CASE UNCHANGED queueVars
    BY <1>0, <1>3 DEF queueVars, attemptVars, agentVars, ConfirmedStands
<1>4. ASSUME NEW r \in Runs, MainStep(r) \/ RequestCancel(r) \/ CancelledElsewhere(r)
      PROVE  ConfirmedStands(w)'
    BY <1>0, <1>4, MainConfirms
<1> QED
    BY <1>1, <1>2, <1>3, <1>4 DEF Next, vars

LEMMA ConfirmedInvariant == Spec => []ConfirmedInv
<1>1. Init => ConfirmedInv
    BY DEF Init, ConfirmedInv, ConfirmedStands
<1> QED
    BY <1>1, ConfirmedStep, BasicInvariant, SaveInvariant, PTL DEF Spec

(* Memory and store agree at every moment, with suspended elections, lost works,    *)
(* cancellations anywhere and errors of the store that hide a commit: what is       *)
(* confirmed in memory is committed, by the same execution until the work is handed *)
(* out again; and when a run that nothing cut short is over, nothing completed is   *)
(* left pending but what may or may not be committed (ChapterWorkerPool._save).     *)
THEOREM MemoryMatchesTheStore == Spec => []MemoryMatchesStore
<1>1. ASSUME BasicInv, CleanInv, PendingInv, ConfirmedInv
      PROVE  MemoryMatchesStore
    <2> SUFFICES ASSUME NEW w \in Works
                 PROVE  /\ memory[w] = "confirmed" =>
                              /\ stored[w] # 0
                              /\ stored[w] = receipt[w] \/ apc[w] = "created" \/ interrupted[w]
                        /\ qpc[RunOf[w]] \in Over /\ memory[w] = "pending" =>
                              states[w] = "save_unconfirmed" \/ model_ended[RunOf[w]]
                                  \/ Cut(RunOf[w])
        BY DEF MemoryMatchesStore
    <2>1. memory[w] = "confirmed" =>
              /\ stored[w] # 0
              /\ stored[w] = receipt[w] \/ apc[w] = "created" \/ interrupted[w]
        BY <1>1 DEF ConfirmedInv, ConfirmedStands
    <2>2. ASSUME qpc[RunOf[w]] \in Over, memory[w] = "pending", ~Cut(RunOf[w])
          PROVE  states[w] = "save_unconfirmed" \/ model_ended[RunOf[w]]
        <3>1. RunOf[w] \in Runs /\ w \in WorksOf(RunOf[w])
            BY ModelElectionAssumption DEF WorksOf
        <3>2. EndsSettled(RunOf[w]) /\ PendingKept(w)
            BY <1>1, <2>2, <3>1 DEF CleanInv, PendingInv
        <3>3. Settled(w) /\ ~interrupted[w]
            BY <2>2, <3>1, <3>2 DEF EndsSettled, Ending
        <3>4. apc[w] \notin {"executing"} \cup SavePcs
            BY <3>3 DEF Settled, SavePcs, Finished
        <3> QED
            BY <2>2, <3>2, <3>3, <3>4 DEF PendingKept
    <2> QED
        BY <2>1, <2>2
<1>2. BasicInv /\ CleanInv /\ PendingInv /\ ConfirmedInv => MemoryMatchesStore
    BY <1>1
<1> QED
    BY <1>2, BasicInvariant, CleanInvariant, PendingInvariant, ConfirmedInvariant, PTL
=============================================================================
