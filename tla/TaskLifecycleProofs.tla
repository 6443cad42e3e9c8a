------------------------- MODULE TaskLifecycleProofs -------------------------
(***************************************************************************)
(* What holds of the life of a task for any number of requests, executions *)
(* and restarts.  Two resumes that cross leave two executions scheduled,   *)
(* so the argument is about the status: it is "running" only while one     *)
(* execution owns it, and an owner that has written "completed" still owns *)
(* it, because a cancellation lets it write once more.                     *)
(***************************************************************************)
EXTENDS TaskLifecycle, TLAPS

\* The executions that may still write the status.
Owners == {e \in Executions : stage[e] \in {"running", "succeeding"}}

OwnersAgree ==
    \/ torn
    \/ /\ status = "running" => Workers # {}
       /\ \A e \in Executions :
            /\ stage[e] = "running" => status \in {"running", "deleted"}
            /\ stage[e] = "succeeding" => status \in {"completed", "deleted"}
       /\ \A e, f \in Owners : e = f

\* The inductive invariant.
TaskInv == TypeOK /\ OwnersAgree

USE TaskLifecycleAssumption

LEMMA TaskInit == Init => TaskInv
<1> SUFFICES ASSUME Init PROVE TaskInv
  OBVIOUS
<1>1. TypeOK
  <2>1. refused \in 0..MaxRefused /\ restarts \in 0..MaxRestarts
    BY TaskLifecycleAssumption DEF Init
  <2>2. known \in BOOLEAN /\ closing \in BOOLEAN /\ torn \in BOOLEAN
    BY DEF Init
  <2>3. stage \in [Executions -> Stages]
    BY DEF Init, Stages
  <2>4. /\ at \in [Requests -> Waits]
        /\ target \in [Requests -> Executions \cup {NoExecution}]
    BY DEF Init, Waits
  <2> QED BY <2>1, <2>2, <2>3, <2>4 DEF Init, TypeOK
<1>2. OwnersAgree
  BY DEF Init, OwnersAgree, Owners, Workers
<1> QED BY <1>1, <1>2 DEF TaskInv

\* Every step keeps the types.
LEMMA TaskTypeStep == TypeOK /\ [Next]_vars => TypeOK'
<1> SUFFICES ASSUME TypeOK, [Next]_vars PROVE TypeOK'
  OBVIOUS
<1> USE DEF TypeOK, HasRow, Stages, Waits, Process, StoreWorks, Refuse, Written
<1>1. ASSUME NEW e \in Executions, Executes(e) PROVE TypeOK'
  <2>1. CASE Start(e)
    BY <2>1 DEF Start, Steps
  <2>2. CASE StartFails(e)
    <3>0. refused' \in 0..MaxRefused
      BY <2>2 DEF StartFails
    <3>1. torn' \in BOOLEAN
      BY <2>2, Zenon DEF StartFails
    <3>2. stage' \in [Executions -> Stages] /\ stopped' \subseteq Executions
      BY <2>2 DEF StartFails, Steps
    <3>3. status' \in HasRow \cup {"absent", "deleted"}
      BY <2>2 DEF StartFails
    <3> QED BY <2>2, <3>0, <3>1, <3>2, <3>3 DEF StartFails, Steps
  <2>3. CASE Finish(e)
    <3>0. refused' \in 0..MaxRefused
      BY <2>3 DEF Finish
    <3>1. torn' \in BOOLEAN
      BY <2>3, Zenon DEF Finish
    <3>2. stage' \in [Executions -> Stages] /\ stopped' \subseteq Executions
      BY <2>3 DEF Finish, Steps
    <3>3. status' \in HasRow \cup {"absent", "deleted"}
      BY <2>3 DEF Finish
    <3> QED BY <2>3, <3>0, <3>1, <3>2, <3>3 DEF Finish, Steps
  <2>4. CASE Fail(e)
    <3>0. refused' \in 0..MaxRefused
      BY <2>4 DEF Fail
    <3>1. torn' \in BOOLEAN
      BY <2>4, Zenon DEF Fail
    <3>2. stage' \in [Executions -> Stages] /\ stopped' \subseteq Executions
      BY <2>4 DEF Fail, Steps
    <3>3. status' \in HasRow \cup {"absent", "deleted"}
      BY <2>4 DEF Fail
    <3> QED BY <2>4, <3>0, <3>1, <3>2, <3>3 DEF Fail, Steps
  <2>5. CASE Withdraw(e)
    <3>0. refused' \in 0..MaxRefused
      BY <2>5 DEF Withdraw
    <3>1. torn' \in BOOLEAN
      BY <2>5, Zenon DEF Withdraw
    <3>2. stage' \in [Executions -> Stages] /\ stopped' \subseteq Executions
      BY <2>5 DEF Withdraw, Steps
    <3>3. status' \in HasRow \cup {"absent", "deleted"}
      BY <2>5 DEF Withdraw
    <3> QED BY <2>5, <3>0, <3>1, <3>2, <3>3 DEF Withdraw, Steps
  <2>6. CASE Ended(e)
    BY <2>6 DEF Ended, Steps
  <2>7. CASE CutShort(e)
    BY <2>7 DEF CutShort, Steps
  <2> QED BY <1>1, <2>1, <2>2, <2>3, <2>4, <2>5, <2>6, <2>7 DEF Executes
<1>2. ASSUME NEW r \in Requests,
             \/ Create(r) \/ Resume(r) \/ CancelPending(r) \/ CancelRunning(r)
             \/ Delete(r) \/ Proceeds(r)
      PROVE  TypeOK'
  <2> USE DEF Asks, Goes, Stop, Live, HeldLive, DeleteRow
  <2>1. CASE Create(r)
    BY <2>1 DEF Create
  <2>2. CASE Resume(r)
    BY <2>2 DEF Resume
  <2>3. CASE CancelPending(r)
    BY <2>3 DEF CancelPending
  <2>4. CASE CancelRunning(r)
    BY <2>4 DEF CancelRunning
  <2>5. CASE Delete(r)
    BY <2>5, ZenonT(60) DEF Delete, Ends
  <2>6. CASE Schedule(r)
    BY <2>6 DEF Schedule
  <2>7. CASE CancelHeld(r)
    BY <2>7 DEF CancelHeld
  <2>8. CASE Answered(r)
    BY <2>8 DEF Answered
  <2>9. CASE DeleteWaited(r)
    BY <2>9 DEF DeleteWaited
  <2> QED BY <1>2, <2>1, <2>2, <2>3, <2>4, <2>5, <2>6, <2>7, <2>8, <2>9 DEF Proceeds
<1>3. CASE Shutdown
  BY <1>3 DEF Shutdown, Stop, Live, HeldLive
<1>4. CASE Restart
  <2>1. torn' \in BOOLEAN /\ known' \in BOOLEAN /\ closing' \in BOOLEAN
    BY <1>4, Zenon DEF Restart
  <2>2. refused' \in 0..MaxRefused /\ restarts' \in 0..MaxRestarts
    BY <1>4 DEF Restart
  <2>3. stage' \in [Executions -> Stages] /\ held' \in Executions \cup {NoExecution}
    BY <1>4 DEF Restart, Live
  <2>4. status' \in HasRow \cup {"absent", "deleted"}
    BY <1>4 DEF Restart
  <2>5. /\ stopped' \subseteq Executions
        /\ at' \in [Requests -> Waits]
        /\ target' \in [Requests -> Executions \cup {NoExecution}]
    BY <1>4 DEF Restart
  <2> QED BY <2>1, <2>2, <2>3, <2>4, <2>5
<1>5. CASE UNCHANGED vars
  BY <1>5 DEF vars
<1> QED BY <1>1, <1>2, <1>3, <1>4, <1>5 DEF Next

\* Every step keeps the agreement of the status and its owners.  The requests
\* that write the status find it without an owner; an execution that writes it
\* is the only owner.
LEMMA OwnersStep == TaskInv /\ [Next]_vars => OwnersAgree'
<1> SUFFICES ASSUME TypeOK, OwnersAgree, [Next]_vars PROVE OwnersAgree'
  BY DEF TaskInv
<1> USE DEF TypeOK, OwnersAgree, Owners, Workers, HasRow
<1>1. ASSUME NEW e \in Executions, Executes(e) PROVE OwnersAgree'
  <2> USE DEF Steps, StoreWorks, Refuse, Written
  <2>1. CASE Start(e)
    BY <2>1 DEF Start
  <2>2. CASE StartFails(e)
    BY <2>2 DEF StartFails
  <2>3. CASE Finish(e)
    BY <2>3 DEF Finish
  <2>4. CASE Fail(e)
    BY <2>4 DEF Fail
  <2>5. CASE Withdraw(e)
    BY <2>5 DEF Withdraw
  <2>6. CASE Ended(e)
    BY <2>6 DEF Ended
  <2>7. CASE CutShort(e)
    BY <2>7 DEF CutShort
  <2> QED BY <1>1, <2>1, <2>2, <2>3, <2>4, <2>5, <2>6, <2>7 DEF Executes
<1>2. ASSUME NEW r \in Requests,
             \/ Create(r) \/ Resume(r) \/ CancelPending(r) \/ CancelRunning(r)
             \/ Delete(r) \/ Proceeds(r)
      PROVE  OwnersAgree'
  <2> USE DEF StoreWorks, DeleteRow
  <2>1. CASE Create(r)
    BY <2>1 DEF Create
  <2>2. CASE Resume(r)
    BY <2>2 DEF Resume
  <2>3. CASE CancelPending(r)
    BY <2>3 DEF CancelPending
  <2>4. CASE CancelRunning(r)
    BY <2>4 DEF CancelRunning
  <2>5. CASE Delete(r)
    BY <2>5 DEF Delete, Ends
  <2>6. CASE Schedule(r)
    BY <2>6 DEF Schedule
  <2>7. CASE CancelHeld(r)
    BY <2>7 DEF CancelHeld
  <2>8. CASE Answered(r)
    BY <2>8 DEF Answered
  <2>9. CASE DeleteWaited(r)
    BY <2>9 DEF DeleteWaited
  <2> QED BY <1>2, <2>1, <2>2, <2>3, <2>4, <2>5, <2>6, <2>7, <2>8, <2>9 DEF Proceeds
<1>3. CASE Shutdown
  BY <1>3 DEF Shutdown
<1>4. CASE Restart
  BY <1>4, ZenonT(60) DEF Restart, Live, Refuse, Stages
<1>5. CASE UNCHANGED vars
  BY <1>5 DEF vars
<1> QED BY <1>1, <1>2, <1>3, <1>4, <1>5 DEF Next

\* The inductive invariant holds of every behaviour.
THEOREM TaskInvariant == Spec => []TaskInv
<1>1. TaskInv /\ [Next]_vars => TaskInv'
  BY TaskTypeStep, OwnersStep DEF TaskInv
<1> QED BY TaskInit, <1>1, PTL DEF Spec

\* Types.
THEOREM TaskTypes == Spec => []TypeOK
<1>1. TaskInv => TypeOK
  BY DEF TaskInv
<1> QED BY TaskInvariant, <1>1, PTL

\* Whatever requests cross each other, at most one execution works on the
\* task.  (TaskClaimMixin._prepare_task_execution_claim)
THEOREM OneExecutionWorks == Spec => []OneWorker
<1>1. TaskInv => OneWorker
  BY DEF TaskInv, OwnersAgree, OneWorker, Owners, Workers
<1> QED BY TaskInvariant, <1>1, PTL

\* A task is "running" exactly as long as an execution works on it.
\* (AnalysisService._run_analysis_core)
THEOREM RunningMeansWorking == Spec => []RunningHasWorker
<1>1. TaskInv => RunningHasWorker
  BY DEF TaskInv, OwnersAgree, RunningHasWorker, Workers
<1> QED BY TaskInvariant, <1>1, PTL

\* Both: the row tells, for any number of requests and executions, whether one
\* execution works on the task.
THEOREM RowIsTrue == Spec => []RowTellsTruth
<1>1. OneWorker /\ RunningHasWorker => RowTellsTruth
  BY DEF RowTellsTruth
<1> QED BY OneExecutionWorks, RunningMeansWorking, <1>1, PTL

\* A deleted row never comes back.  (RunRepository.update_run_task_fields)
THEOREM DeletedIsFinal == Spec => DeletedStays
<1>1. [Next]_vars => (status = "deleted" => status' = "deleted")
  <2> SUFFICES ASSUME [Next]_vars, status = "deleted" PROVE status' = "deleted"
    OBVIOUS
  <2> USE DEF HasRow, Written
  <2>1. ASSUME NEW e \in Executions, Executes(e) PROVE status' = "deleted"
    BY <2>1 DEF Executes, Start, StartFails, Finish, Fail, Withdraw, Ended, CutShort
  <2>2. ASSUME NEW r \in Requests,
               \/ Create(r) \/ Resume(r) \/ CancelPending(r) \/ CancelRunning(r)
               \/ Delete(r) \/ Proceeds(r)
        PROVE  status' = "deleted"
    BY <2>2 DEF Create, Resume, CancelPending, CancelRunning, Delete, Proceeds,
                Schedule, CancelHeld, Answered, DeleteWaited, DeleteRow
  <2>3. CASE Shutdown
    BY <2>3 DEF Shutdown
  <2>4. CASE Restart
    BY <2>4 DEF Restart
  <2>5. CASE UNCHANGED vars
    BY <2>5 DEF vars
  <2> QED BY <2>1, <2>2, <2>3, <2>4, <2>5 DEF Next
<1>2. [Next]_vars => [status = "deleted" => status' = "deleted"]_vars
  BY <1>1
<1> QED BY <1>2, PTL DEF Spec, DeletedStays
==============================================================================
