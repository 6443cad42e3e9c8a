--------------------------- MODULE DiagnosisSessions ---------------------------
(***************************************************************************)
(* The diagnosis of a run: sessions that wait for a seat of the model      *)
(* pool, claim and submit cases, save what they did and give the seat      *)
(* back; the scheduler that starts one for every case that is available;   *)
(* the report that is written when no case is left; failure, cancellation  *)
(* and a later resumption.                                                 *)
(*                                                                         *)
(* A session retries with a new execution as long as the model fails or    *)
(* its rounds are used up; only the model bounds the executions.  The pool *)
(* takes a seat for the session at the head of its queue, is suspended,    *)
(* and drops the head it finds then; what a session that came to the head  *)
(* in between loses by it, and what becomes of the entry left behind, is   *)
(* part of the behaviour.  A save runs in a thread, shielded from the      *)
(* cancellation of its session, so its transaction and its confirmation in *)
(* memory are two actions.  Abstracted: the choice of a model              *)
(* (ModelElection) to a number of seats, the events and facts that are     *)
(* saved with the cases; a name is used again once nothing refers to it.   *)
(***************************************************************************)
EXTENDS CasePool, Sequences

CONSTANTS
    Slots,        \* names of the case sessions
    AtATime,      \* case sessions at a time: the sum of the pool's max_in_flight
    Report,       \* the session of the report
    Seats,        \* seats of the models
    RootCases,    \* cases that a save registers for events without a parent
    MaxRestarts   \* bound on the resumptions of the stage

ASSUME DiagnosisAssumption ==
    /\ Report \notin Slots
    /\ AtATime \in Nat \ {0}
    /\ Seats \in Nat \ {0}
    /\ RootCases \subseteq Cases
    /\ MaxRestarts \in Nat

VARIABLES
    pool,      \* the CasePool of the domain
    rows,      \* the rows of the store
    phase,     \* where the stage is
    failing,   \* a session has failed, or the stage is cancelled
    stage,     \* session -> how far its attempt has come
    who,       \* session -> its execution
    spent,     \* session -> its rounds were used up before it was complete
    pending,   \* sessions in the queue of the pool
    electing,  \* the session of the election that is suspended, if any
    elected,   \* sessions with a seat that is on its way to them
    closing,   \* no election is made and no assignment received any more
    free,      \* seats nobody holds
    used,      \* executions there have been
    sessions,  \* executions of case sessions
    saved,     \* executions whose session is saved
    receipt,   \* session -> the rows its transaction returned, until read
    reported,  \* the store holds the report
    restarts

queue  == <<pending, electing, closing>>
domain == <<pool, sessions, saved>>
store  == <<rows, reported>>
vars   == <<domain, store, queue, phase, failing, stage, who, spent, elected,
            free, used, receipt, restarts>>

All == Slots \cup {Report}

Stages == {"none",       \* no coroutine
           "asking",     \* it has not asked the pool yet
           "again",      \* it has given back its seat and asks once more
           "queued",     \* it waits for an assignment
           "cancelled",  \* it was cancelled while it waited
           "unread",     \* it was cancelled while it asked
           "stranded",   \* its assignment came to it nevertheless
           "granted",    \* the assignment is there
           "running",    \* it has an execution
           "saving",     \* the thread of its save is running
           "committed"}  \* the transaction is committed

TypeOK ==
    /\ pool \in Pool
    /\ rows \in Rows
    /\ phase \in {"working", "reporting", "done", "failed"}
    /\ failing \in BOOLEAN
    /\ stage \in [All -> Stages]
    /\ who \in [All -> Holder]
    /\ spent \in [All -> BOOLEAN]
    /\ pending \in Seq(All)
    /\ electing \subseteq elected
    /\ elected \subseteq All
    /\ closing \in BOOLEAN
    /\ free \in 0..Seats
    /\ used \subseteq Executions
    /\ sessions \subseteq used
    /\ saved \subseteq used
    /\ receipt \in [All -> Rows]
    /\ reported \in BOOLEAN
    /\ restarts \in 0..MaxRestarts

\* The annotation has left pending cases.
Init ==
    /\ rows \in {[EmptyRows EXCEPT !.cases = left] : left \in SUBSET Cases}
    /\ pool = Merged(EmptyPool, rows)
    /\ phase = "working"
    /\ failing = FALSE
    /\ stage = [s \in All |-> "none"]
    /\ who = [s \in All |-> Nobody]
    /\ spent = [s \in All |-> FALSE]
    /\ pending = <<>>
    /\ electing = {}
    /\ elected = {}
    /\ closing = FALSE
    /\ free = Seats
    /\ used = {}
    /\ sessions = {}
    /\ saved = {}
    /\ receipt = [s \in All |-> EmptyRows]
    /\ reported = FALSE
    /\ restarts = 0

\* What is left of a session that has ended has no coroutine.
Active == {s \in All : stage[s] \notin {"none", "cancelled", "unread", "stranded"}}

\* The sessions the pool has a reservation for.
Seated == {"granted", "running", "saving", "committed", "stranded"}

Holding == {s \in All : stage[s] \in Seated}

Waiting == {pending[i] : i \in DOMAIN pending}

\* _require_cases_saved
CasesSaved ==
    /\ Available(pool) = {}
    /\ Unsubmitted(pool) = {}
    /\ sessions \subseteq saved

Running == phase \in {"working", "reporting"}

Enters(s, from, to) ==
    /\ Running
    /\ stage[s] = from
    /\ stage' = [stage EXCEPT ![s] = to]

-----------------------------------------------------------------------------
(* The scheduler. *)

\* One session for every case that is available, up to the number at a time.
\* The loop looks when it starts and when a session has ended; here it may look
\* more often.
Spawn ==
    /\ phase = "working"
    /\ ~failing
    /\ \E fresh \in SUBSET {s \in Slots \ (Waiting \cup elected) : stage[s] = "none"} :
        /\ fresh # {}
        /\ LET open == AtATime - Cardinality(Active)
               work == Cardinality(Available(pool))
           IN  Cardinality(fresh) = IF open < work THEN open ELSE work
        /\ stage' = [s \in All |-> IF s \in fresh THEN "asking" ELSE stage[s]]
    /\ UNCHANGED <<domain, store, queue, phase, failing, who, spent, elected, free,
                   used, receipt, restarts>>

\* Mutant: the report begins when no case is available.
ReportBeginsEarly ==
    /\ phase = "working"
    /\ ~failing
    /\ Available(pool) = {}
    /\ phase' = "reporting"
    /\ stage' = [stage EXCEPT ![Report] = "asking"]
    /\ UNCHANGED <<domain, store, queue, failing, who, spent, elected, free, used,
                   receipt, restarts>>

ReportBegins ==
    /\ phase = "working"
    /\ ~failing
    /\ Active = {}
    /\ Available(pool) = {}
    /\ phase' = "reporting"
    /\ stage' = [stage EXCEPT ![Report] = "asking"]
    /\ UNCHANGED <<domain, store, queue, failing, who, spent, elected, free, used,
                   receipt, restarts>>

-----------------------------------------------------------------------------
(* The queue of the pool. *)

\* enqueue: a session that waits already is not queued twice, one that was
\* elected before goes to the head.
Enqueued(s) ==
    pending' = IF s \in Waiting THEN pending
               ELSE IF stage[s] = "again" THEN <<s>> \o pending
               ELSE Append(pending, s)

Ask(s) ==
    /\ Running /\ stage[s] \in {"asking", "again"}
    /\ stage' = [stage EXCEPT ![s] = "queued"]
    /\ Enqueued(s)
    /\ UNCHANGED <<domain, store, electing, closing, phase, failing, who, spent,
                   elected, free, used, receipt, restarts>>

\* The pool takes a seat for the head of its queue, unless it has one, and is
\* suspended while the capacity is announced.
Elect(s) ==
    /\ Running /\ ~closing
    /\ electing = {}
    /\ pending # <<>> /\ s = Head(pending)
    /\ s \notin elected \cup Holding
    /\ free > 0
    /\ free' = free - 1
    /\ elected' = elected \cup {s}
    /\ electing' = {s}
    /\ UNCHANGED <<domain, store, pending, closing, phase, failing, stage, who,
                   spent, used, receipt, restarts>>

\* It drops the head it finds by now and posts the assignment.
Publish ==
    /\ Running /\ ~closing
    /\ electing # {}
    /\ electing' = {}
    /\ pending' = Tail(pending)
    /\ UNCHANGED <<domain, store, closing, phase, failing, stage, who, spent,
                   elected, free, used, receipt, restarts>>

\* _assignments: the seat of a session that was cancelled goes back; the one of
\* a session that was cancelled before it waited is never looked at.
Assign(s) ==
    /\ Running /\ ~closing
    /\ s \in elected \ electing
    /\ elected' = elected \ {s}
    /\ \/ /\ Enters(s, "queued", "granted")
          /\ UNCHANGED free
       \/ /\ Enters(s, "cancelled", "none")
          /\ free' = free + 1
       \/ /\ Enters(s, "unread", "stranded")
          /\ UNCHANGED free
    /\ UNCHANGED <<domain, store, queue, phase, failing, who, spent, used, receipt,
                   restarts>>

\* The entry that was left behind is elected and nobody waits for it: the
\* receiver fails, and with it the stage.
Misdirected(s) ==
    /\ Running /\ ~closing
    /\ s \in elected \ electing
    /\ stage[s] \notin {"queued", "cancelled", "unread"}
    /\ closing' = TRUE
    /\ failing' = TRUE
    /\ UNCHANGED <<domain, store, pending, electing, phase, stage, who, spent,
                   elected, free, used, receipt, restarts>>

-----------------------------------------------------------------------------
(* One attempt of a session. *)

Released(s) == free' = free + 1

\* Mutant: the seat is given back only when the work is over.
EndsUnreleased(s, to) ==
    /\ stage' = [stage EXCEPT ![s] = to]
    /\ who' = [who EXCEPT ![s] = Nobody]
    /\ spent' = [spent EXCEPT ![s] = FALSE]
    /\ IF to = "again" THEN UNCHANGED free ELSE Released(s)
    /\ UNCHANGED <<queue, elected, used, phase, restarts>>

\* The seat is given back, and the session ends or asks for a new one.
Ends(s, to) ==
    /\ stage' = [stage EXCEPT ![s] = to]
    /\ who' = [who EXCEPT ![s] = Nobody]
    /\ spent' = [spent EXCEPT ![s] = FALSE]
    /\ Released(s)
    /\ UNCHANGED <<queue, elected, used, phase, restarts>>

\* Mutant: the claims of a failed session stay.
AbortedKeeping(e) ==
    /\ pool' = Stopped(pool, e)
    /\ sessions' = sessions \ {e}

\* abort_session: what was not saved is given up, the registrations stay.
Aborted(e) ==
    /\ pool' = Abandoned(pool, e)
    /\ sessions' = sessions \ {e}

\* No case is left for a session that has waited for its seat.
NothingLeft(s) ==
    /\ s \in Slots
    /\ Running /\ stage[s] = "granted"
    /\ Available(pool) = {}
    /\ Ends(s, "none")
    /\ UNCHANGED <<domain, store, failing, receipt>>

Begin(s, e) ==
    /\ e \in Executions \ used
    /\ Enters(s, "granted", "running")
    /\ IF s = Report THEN CasesSaved ELSE Available(pool) # {}
    /\ who' = [who EXCEPT ![s] = e]
    /\ used' = used \cup {e}
    /\ pool' = Begun(pool, e)
    /\ sessions' = IF s = Report THEN sessions ELSE sessions \cup {e}
    /\ UNCHANGED <<saved, store, queue, phase, failing, spent, elected, free,
                   receipt, restarts>>

\* The session cannot be set up; the report is refused while cases are open.
BeginFails(s) ==
    /\ Running /\ stage[s] = "granted"
    /\ s = Report \/ Available(pool) # {}
    /\ Ends(s, "none")
    /\ failing' = TRUE
    /\ UNCHANGED <<domain, store, receipt>>

\* The tools of the report do not touch the pool.
Call(s) ==
    /\ s \in Slots
    /\ Running /\ stage[s] = "running"
    /\ pool' \in AfterCall(pool, who[s]) \ {pool}
    /\ UNCHANGED <<sessions, saved, store, queue, phase, failing, stage, who,
                   spent, elected, free, used, receipt, restarts>>

\* completion_check, and the count of unsubmitted cases after it.
Complete(s) ==
    /\ Enters(s, "running", "saving")
    /\ IF s = Report
       THEN CasesSaved
       ELSE LET claims == ClaimsFor(pool, who[s])
            IN  /\ claims \subseteq pool.submitted
                /\ claims = {} => Available(pool) = {}
    /\ UNCHANGED <<domain, store, queue, phase, failing, who, spent, elected,
                   free, used, receipt, restarts>>

\* The rounds are used up with some cases claimed: they are saved first.
SpendRounds(s) ==
    /\ s \in Slots
    /\ Enters(s, "running", "saving")
    /\ ClaimsFor(pool, who[s]) # {}
    /\ spent' = [spent EXCEPT ![s] = TRUE]
    /\ UNCHANGED <<domain, store, queue, phase, failing, who, elected, free,
                   used, receipt, restarts>>

\* The model fails or the rounds are used up with nothing to save: another
\* attempt.
Retry(s) ==
    /\ Running /\ stage[s] = "running"
    /\ Aborted(who[s])
    /\ Ends(s, "again")
    /\ UNCHANGED <<saved, store, failing, receipt>>

Fatal(s) ==
    /\ Running /\ stage[s] \in {"running", "saving"}
    /\ Aborted(who[s])
    /\ Ends(s, "none")
    /\ failing' = TRUE
    /\ UNCHANGED <<saved, store, receipt>>

\* Mutant: the submissions are saved in a transaction of their own later.
CommitPending(s) ==
    /\ s \in Slots
    /\ Enters(s, "saving", "committed")
    /\ MayCommit(rows, who[s], ContributionOf(pool, who[s]))
    /\ rows' = [rows EXCEPT !.cases = @ \cup ContributionOf(pool, who[s]).registrations]
    /\ receipt' = [receipt EXCEPT ![s] = rows']
    /\ UNCHANGED <<domain, reported, queue, phase, failing, who, spent, elected,
                   free, used, restarts>>

\* save_session, with the rows of the root events that have none.
Commit(s) ==
    /\ s \in Slots
    /\ Enters(s, "saving", "committed")
    /\ MayCommit(rows, who[s], ContributionOf(pool, who[s]))
    /\ \E roots \in SUBSET RootCases :
          rows' = [Committed(rows, who[s], ContributionOf(pool, who[s]))
                       EXCEPT !.cases = @ \cup roots]
    /\ receipt' = [receipt EXCEPT ![s] = rows']
    /\ UNCHANGED <<domain, reported, queue, phase, failing, who, spent, elected,
                   free, used, restarts>>

\* The transaction is committed and its answer lost: for the session the save
\* has failed.
CommitUnacknowledged(s) ==
    /\ s \in Slots
    /\ Running /\ stage[s] = "saving"
    /\ MayCommit(rows, who[s], ContributionOf(pool, who[s]))
    /\ rows' = Committed(rows, who[s], ContributionOf(pool, who[s]))
    /\ Aborted(who[s])
    /\ Ends(s, "none")
    /\ failing' = TRUE
    /\ UNCHANGED <<saved, reported, receipt>>

\* save_session_progress confirms the memory; a session whose rounds were
\* used up begins again, unless it is cancelled.
Confirm(s) ==
    /\ s \in Slots
    /\ Running /\ stage[s] = "committed"
    /\ pool' = Confirmed(Merged(pool, receipt[s]), who[s])
    /\ saved' = saved \cup {who[s]}
    /\ receipt' = [receipt EXCEPT ![s] = EmptyRows]
    /\ \/ ~spent[s] /\ Ends(s, "none")
       \/ spent[s] /\ Ends(s, "again")
       \/ failing /\ Ends(s, "none")
    /\ UNCHANGED <<sessions, store, failing>>

\* The report, and whatever its own organisation leaves without a parent.
SaveReport ==
    /\ Running /\ stage[Report] = "saving"
    /\ ~reported
    /\ CasesSaved
    /\ reported' = TRUE
    /\ rows' \in {[rows EXCEPT !.cases = @ \cup roots] : roots \in SUBSET RootCases}
    /\ pool' = Confirmed(pool, who[Report])
    /\ saved' = saved \cup {who[Report]}
    /\ phase' = IF failing THEN phase ELSE "done"
    /\ stage' = [stage EXCEPT ![Report] = "none"]
    /\ who' = [who EXCEPT ![Report] = Nobody]
    /\ free' = free + 1
    /\ UNCHANGED <<sessions, queue, failing, spent, elected, used, receipt,
                   restarts>>

-----------------------------------------------------------------------------
(* Failure, cancellation, resumption. *)

\* Nobody elects or receives any more, and the sessions are cancelled.
Cancel ==
    /\ Running
    /\ failing' = TRUE
    /\ closing' = TRUE
    /\ UNCHANGED <<domain, store, pending, electing, phase, stage, who, spent,
                   elected, free, used, receipt, restarts>>

\* Mutant: a session that still waits gives back a seat.
StopSessionReleasing(s) ==
    /\ failing
    /\ Running
    /\ stage[s] \in {"queued", "granted", "running"}
    /\ Ends(s, IF stage[s] = "queued" THEN "cancelled" ELSE "none")
    /\ IF stage[s] = "running" THEN Aborted(who[s]) /\ UNCHANGED saved
       ELSE UNCHANGED domain
    /\ UNCHANGED <<store, failing, receipt>>

\* A sibling is cancelled.  A request to the pool that is under way is handled
\* all the same, and a save that has begun is not touched.
StopSession(s) ==
    /\ failing
    /\ Running
    /\ \/ /\ stage[s] \in {"asking", "again"}
          /\ \/ Enters(s, stage[s], "none") /\ UNCHANGED pending
             \/ Enters(s, stage[s], "unread") /\ Enqueued(s)
          /\ UNCHANGED <<domain, electing, closing, who, spent, free, elected, used,
                         phase, restarts>>
       \/ /\ Enters(s, "queued", "cancelled")
          /\ UNCHANGED <<domain, queue, who, spent, free, elected, used, phase,
                         restarts>>
       \/ /\ stage[s] = "granted"
          /\ Ends(s, "none")
          /\ UNCHANGED domain
       \/ /\ stage[s] = "running"
          /\ Aborted(who[s])
          /\ Ends(s, "none")
          /\ UNCHANGED saved
    /\ UNCHANGED <<store, failing, receipt>>

\* The executions whose registrations retain_pending_cases writes.
Unsaved == {e \in Executions : pool.registrations[e] # {} /\ e \notin pool.saved}

\* Mutant: what failed sessions registered is given up.
StageFailsForgetting ==
    /\ failing /\ Running /\ Active = {}
    /\ phase' = "failed"
    /\ UNCHANGED <<domain, store, queue, failing, stage, who, spent, elected,
                   free, used, receipt, restarts>>

\* The last sessions have ended: the registrations are retained without any
\* submission, and the stage raises.
StageFails ==
    /\ failing /\ Running /\ Active = {}
    /\ phase' = "failed"
    /\ rows' = [rows EXCEPT !.cases = @ \cup UNION {pool.registrations[e] : e \in Unsaved}]
    /\ UNCHANGED <<domain, reported, queue, failing, stage, who, spent, elected,
                   free, used, receipt, restarts>>

\* The stage begins anew, after it failed or after the end of the process:
\* without a report, the store is all there is.
Resume ==
    /\ restarts < MaxRestarts
    /\ restarts' = restarts + 1
    /\ ~reported
    /\ pool' = Merged(EmptyPool, rows)
    /\ sessions' = {}
    /\ saved' = {}
    /\ phase' = "working"
    /\ failing' = FALSE
    /\ stage' = [s \in All |-> "none"]
    /\ who' = [s \in All |-> Nobody]
    /\ spent' = [s \in All |-> FALSE]
    /\ pending' = <<>>
    /\ electing' = {}
    /\ elected' = {}
    /\ closing' = FALSE
    /\ free' = Seats
    /\ receipt' = [s \in All |-> EmptyRows]
    /\ UNCHANGED <<store, used>>

Over == phase \in {"done", "failed"} /\ UNCHANGED vars

Next ==
    \/ Spawn
    \/ ReportBegins
    \/ Publish
    \/ \E s \in All :
          \/ Ask(s) \/ Elect(s) \/ Assign(s) \/ Misdirected(s)
          \/ NothingLeft(s) \/ BeginFails(s) \/ \E e \in Executions : Begin(s, e)
          \/ Call(s) \/ Complete(s) \/ SpendRounds(s) \/ Retry(s) \/ Fatal(s)
          \/ Commit(s) \/ CommitUnacknowledged(s) \/ Confirm(s)
          \/ StopSession(s)
    \/ SaveReport
    \/ Cancel
    \/ StageFails
    \/ Resume
    \/ Over

Spec == Init /\ [][Next]_vars

-----------------------------------------------------------------------------
(* Properties. *)

\* When the report is due, nothing of the cases is left open: its session is
\* never refused, whatever failed or was retried before.
\* (_run_work, _require_cases_saved)
ReportIsNeverRefused == phase = "reporting" => CasesSaved

\* The report is saved only over cases that are resolved in the store: the
\* memory that is asked never runs ahead of the store.  (_save_report_progress)
ReportReadsSavedCases ==
    [][~reported /\ reported' => rows.cases = Resolved(rows)]_vars

\* A case that is resolved in the store is not offered to another session, as
\* long as no save has failed; a cancellation during a save does not free it.
\* (abort_session, the shielded save)
ResolvedIsNotOffered ==
    ~failing => \A c \in Resolved(rows) \cap pool.known :
                    c \in pool.submitted /\ pool.owner[c] = rows.resolver[c]

\* What a session submitted is resolved by nobody else when its transaction
\* reaches the store.  (save_session)
SubmissionsNeverRefused ==
    \A s \in Slots :
        (stage[s] = "saving" /\ ~failing) =>
            MayCommit(rows, who[s], ContributionOf(pool, who[s]))

\* No claim outlives its session.
NoOrphanClaim ==
    \A c \in pool.known :
        pool.owner[c] # Nobody =>
            \/ \E s \in Slots : who[s] = pool.owner[c]
            \/ c \in pool.submitted /\ rows.resolver[c] = pool.owner[c]

\* Claims in memory and resolvers in the store agree, on every way a session ends.
\* (abort_session, save_session)
CasesAreSafe == ResolvedIsNotOffered /\ SubmissionsNeverRefused /\ NoOrphanClaim

\* Every seat is free, on its way to a session, or held by one, whatever entries
\* the queue is left with: a cancelled session gives back even the seat it had
\* not noticed, and only one cancelled before it waited leaves a seat that the
\* pool keeps until it is closed.  (_assignments, _attempt)
SeatsGivenBack ==
    free + Cardinality(elected) + Cardinality(Holding) = Seats

\* The cases a failed stage has found are kept for the next one.
\* (retain_pending_cases)
FoundCasesSurvive == phase = "failed" => pool.known \subseteq rows.cases
=============================================================================
