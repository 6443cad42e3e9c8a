--------------------------- MODULE CaseExecutions ---------------------------
(***************************************************************************)
(* The annotation agent at work on the case pool: executions that          *)
(* register, claim and submit cases while they run, the contribution that  *)
(* is frozen when an execution is complete, the transaction that saves it, *)
(* the confirmation or withdrawal in memory, the consolidation at the end  *)
(* of a chapter, and a restart of the process.                             *)
(*                                                                         *)
(* Everything that touches the memory of the agent runs under its lock.    *)
(* A tool call holds it without awaiting anything, so a call is one        *)
(* action; a consolidation holds it while a thread runs its transaction,   *)
(* so it is two.  The transactions of the store run outside the lock.      *)
(*                                                                         *)
(* Abstracted: the facts, events and dialogues that are saved with the     *)
(* cases, and their own refusals (SaveFails stands for any of them).  A    *)
(* save whose reply is lost is retried once and found done; the second     *)
(* loss in a row is left to the module of the chapter queue.               *)
(***************************************************************************)
EXTENDS CasePool

CONSTANTS
    RootCases,   \* cases that a save registers for events without a parent
    MaxCrashes   \* bound on the restarts of the process

ASSUME CaseExecutionsAssumption ==
    /\ RootCases \subseteq Cases
    /\ MaxCrashes \in Nat

VARIABLES
    pool,     \* the CasePool of this process
    rows,     \* the rows of the store
    stage,    \* execution -> how far it has come
    frozen,   \* execution -> the contribution frozen at its end, until read
    receipt,  \* execution -> the rows its transaction returned, until read
    lock,     \* the consolidation that holds the agent's lock, or Nobody
    before,   \* the snapshot that consolidation took, while it runs
    ready,    \* load_storage() has been run in this process
    crashes   \* restarts so far

vars == <<pool, rows, stage, frozen, receipt, lock, before, ready, crashes>>

Stages == {"new",          \* nothing yet
           "open",         \* the tools may be called
           "complete",     \* the contribution is frozen
           "committed",    \* its transaction has been committed
           "unconfirmed",  \* the confirmation in memory raised
           "confirmed",    \* memory agrees with the store
           "refused",      \* the save failed, nothing is withdrawn yet
           "consolidating",\* the program that checks a chapter
           "over"}         \* withdrawn, or lost with its process

TypeOK ==
    /\ pool \in Pool
    /\ rows \in Rows
    /\ stage \in [Executions -> Stages]
    /\ frozen \in [Executions -> Contribution]
    /\ receipt \in [Executions -> Rows]
    /\ lock \in Holder
    /\ before \in Pool
    /\ ready \in BOOLEAN
    /\ crashes \in 0..MaxCrashes

Init ==
    /\ pool = EmptyPool
    /\ rows = EmptyRows
    /\ stage = [e \in Executions |-> "new"]
    /\ frozen = [e \in Executions |-> NoContribution]
    /\ receipt = [e \in Executions |-> EmptyRows]
    /\ lock = Nobody
    /\ before = EmptyPool
    /\ ready = FALSE
    /\ crashes = 0

Moves(e, from, to) ==
    /\ stage[e] = from
    /\ stage' = [stage EXCEPT ![e] = to]

Unlocked == ready /\ lock = Nobody

-----------------------------------------------------------------------------
(* Starting the stage and one execution *)

\* agent.recover at the start of the stage; the chapters it rebuilds have no
\* saved product (AnnotationStage), so no execution is discarded here.
Recover ==
    /\ ~ready
    /\ ready' = TRUE
    /\ pool' = Merged(pool, rows)
    /\ UNCHANGED <<rows, stage, frozen, receipt, lock, before, crashes>>

Begin(e) ==
    /\ Unlocked
    /\ Moves(e, "new", "open")
    /\ pool' = Begun(pool, e)
    /\ UNCHANGED <<rows, frozen, receipt, lock, before, ready, crashes>>

-----------------------------------------------------------------------------
(* Tool calls *)

Call(e) ==
    /\ Unlocked
    /\ stage[e] = "open"
    /\ pool' \in AfterCall(pool, e)
    /\ UNCHANGED <<rows, stage, frozen, receipt, lock, before, ready, crashes>>

\* A call that raises after it has changed the pool.
FailedCall(e) ==
    /\ Unlocked
    /\ stage[e] = "open"
    /\ \E q \in AfterCall(pool, e) : pool' = Restored(q, pool, e)
    /\ UNCHANGED <<rows, stage, frozen, receipt, lock, before, ready, crashes>>

-----------------------------------------------------------------------------
(* The end of an execution *)

\* freeze(): what the transaction will save is copied, the rest of the
\* execution no longer counts.
Complete(e) ==
    /\ Unlocked
    /\ Moves(e, "open", "complete")
    /\ frozen' = [frozen EXCEPT ![e] = ContributionOf(pool, e)]
    /\ UNCHANGED <<pool, rows, receipt, lock, before, ready, crashes>>

\* The execution fails, is cancelled, or its save is not begun.
Withdraw(e) ==
    /\ Unlocked
    /\ \/ Moves(e, "open", "over")
       \/ Moves(e, "complete", "over")
       \/ Moves(e, "refused", "over")
    /\ pool' = RolledBack(pool, e)
    /\ frozen' = [frozen EXCEPT ![e] = NoContribution]
    /\ UNCHANGED <<rows, receipt, lock, before, ready, crashes>>

\* The transaction of a save: rows of the contribution, and a row for every
\* root event that has none.
Commit(e) ==
    /\ MayCommit(rows, e, frozen[e])
    /\ Moves(e, "complete", "committed")
    /\ \E roots \in SUBSET RootCases :
          rows' = [Committed(rows, e, frozen[e]) EXCEPT !.cases = @ \cup roots]
    /\ receipt' = [receipt EXCEPT ![e] = rows']
    /\ UNCHANGED <<pool, frozen, lock, before, ready, crashes>>

\* Another execution has the case resolved, or the save fails otherwise.
SaveFails(e) ==
    /\ Moves(e, "complete", "refused")
    /\ UNCHANGED <<pool, rows, frozen, receipt, lock, before, ready, crashes>>

Confirm(e) ==
    /\ Unlocked
    /\ Moves(e, "committed", "confirmed")
    /\ pool' = Confirmed(Merged(pool, receipt[e]), e)
    /\ frozen' = [frozen EXCEPT ![e] = NoContribution]
    /\ receipt' = [receipt EXCEPT ![e] = EmptyRows]
    /\ UNCHANGED <<rows, lock, before, ready, crashes>>

\* A graph or a tree that the handler confirms first raises, or the delivery
\* of the announcement that follows does, when the pool is confirmed already.
ConfirmRaises(e) ==
    /\ Unlocked
    /\ Moves(e, "committed", "unconfirmed")
    /\ pool' \in {pool, Confirmed(Merged(pool, receipt[e]), e)}
    /\ UNCHANGED <<rows, frozen, receipt, lock, before, ready, crashes>>

\* The rows of e: those it produced (some of what it registered, and its
\* roots) and those it resolved.
SavedWork(e, produced) ==
    LET resolved == {c \in rows.cases : rows.resolver[c] = e}
    IN  [registrations |-> produced \cup resolved, submissions |-> resolved]

RecoverWork(e) ==
    /\ Unlocked
    /\ \E produced \in SUBSET (rows.cases \cap
                               (frozen[e].registrations \cup RootCases)) :
          /\ MayRecover(pool, e, SavedWork(e, produced))
          /\ pool' = Recovered(pool, e, SavedWork(e, produced))
    /\ Moves(e, "unconfirmed", "committed")
    /\ UNCHANGED <<rows, frozen, receipt, lock, before, ready, crashes>>

-----------------------------------------------------------------------------
(* The end of a chapter *)

ConsolidationBegins(e) ==
    /\ Unlocked
    /\ Moves(e, "new", "consolidating")
    /\ lock' = e
    /\ before' = pool
    /\ pool' = Begun(pool, e)
    /\ UNCHANGED <<rows, frozen, receipt, ready, crashes>>

\* One issue of the chapter is registered as a case.
RegisterIssue(e, c) ==
    /\ lock = e
    /\ c \notin pool.registrations[e]
    /\ pool' = Pushed(pool, e, c)
    /\ UNCHANGED <<rows, stage, frozen, receipt, lock, before, ready, crashes>>

ConsolidationSaved(e) ==
    /\ lock = e
    /\ Moves(e, "consolidating", "confirmed")
    /\ rows' = [rows EXCEPT !.cases = @ \cup pool.registrations[e]]
    /\ pool' = Confirmed(pool, e)
    /\ lock' = Nobody
    /\ before' = EmptyPool
    /\ UNCHANGED <<frozen, receipt, ready, crashes>>

ConsolidationFails(e) ==
    /\ lock = e
    /\ Moves(e, "consolidating", "over")
    /\ pool' = Restored(pool, before, e)
    /\ lock' = Nobody
    /\ before' = EmptyPool
    /\ UNCHANGED <<rows, frozen, receipt, ready, crashes>>

-----------------------------------------------------------------------------
(* A restart *)

\* The memory of the process is lost; what was committed is in the store.
Crash ==
    /\ crashes < MaxCrashes
    /\ crashes' = crashes + 1
    /\ ready' = FALSE
    /\ pool' = EmptyPool
    /\ before' = EmptyPool
    /\ lock' = Nobody
    /\ stage' = [e \in Executions |->
                    IF stage[e] = "new" THEN "new" ELSE "over"]
    /\ frozen' = [e \in Executions |-> NoContribution]
    /\ receipt' = [e \in Executions |-> EmptyRows]
    /\ UNCHANGED rows

Next ==
    \/ Recover
    \/ Crash
    \/ \E e \in Executions :
          \/ Begin(e) \/ Call(e) \/ FailedCall(e)
          \/ Complete(e) \/ Withdraw(e)
          \/ Commit(e) \/ SaveFails(e)
          \/ Confirm(e) \/ ConfirmRaises(e) \/ RecoverWork(e)
          \/ ConsolidationBegins(e) \/ ConsolidationSaved(e)
          \/ ConsolidationFails(e)
          \/ \E c \in Cases : RegisterIssue(e, c)

Spec == Init /\ [][Next]_vars

-----------------------------------------------------------------------------
(* Properties *)

\* What an execution froze as submitted has been resolved by nobody else when
\* its transaction reaches the store, so save_work() never refuses a whole
\* chapter because of a case.
SubmissionsNeverRefused ==
    \A e \in Executions :
        stage[e] = "complete" => MayCommit(rows, e, frozen[e])

\* A case the store has as resolved is not offered again by this process:
\* in memory it belongs to its resolver and counts as submitted, from the
\* commit on and not only from the confirmation on.
ResolvedIsNotOffered ==
    \A c \in Resolved(rows) \cap pool.known :
        pool.owner[c] = rows.resolver[c] /\ c \in pool.submitted

\* A case that a running execution registered is never deleted under it by
\* the roll-back of the execution that created it, nor by a failed call.
RegisteredStaysKnown ==
    \A e \in pool.executions : pool.registrations[e] \subseteq pool.known

\* No claim outlives its execution: an unsubmitted case that is held is held
\* by a running one, a submitted one by a running one or by its resolver.
NoOrphanClaim ==
    \A c \in pool.known :
        pool.owner[c] # Nobody =>
            \/ pool.owner[c] \in pool.executions
            \/ c \in pool.submitted /\ rows.resolver[c] = pool.owner[c]

\* Whatever a call did to the pool before it raised is undone completely.
FailedCallsUndone ==
    \A e \in Executions :
        stage[e] = "open" =>
            \A q \in AfterCall(pool, e) : Restored(q, pool, e) = pool

\* The claims in memory and the resolvers in the store agree at every moment at
\* which an execution reads one and later writes the other.
\* (CasePool, save_work, load_storage)
CasesAreSafe == SubmissionsNeverRefused /\ ResolvedIsNotOffered /\ NoOrphanClaim

\* Failures are local: a failed call leaves nothing behind, and neither it nor
\* the end of an execution takes away what another one registered.
\* (CasePool.restore, CasePool.rollback)
FailuresAreLocal == FailedCallsUndone /\ RegisteredStaysKnown

\* A running execution loses a case it holds only by its own end: neither a
\* merge of rows, nor the end or failure of another one, takes it away.
OthersKeepTheirCases ==
    [][\A c \in Cases :
          pool.owner[c] \in pool.executions =>
              \/ pool'.owner[c] = pool.owner[c]
              \/ pool.owner[c] \notin pool'.executions]_vars

\* A resolved row is never resolved again, not even after a restart.
ResolvedOnce ==
    [][\A c \in Resolved(rows) : rows'.resolver[c] = rows.resolver[c]]_vars

=============================================================================
