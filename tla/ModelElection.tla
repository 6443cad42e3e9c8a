--------------------------- MODULE ModelElection ---------------------------
(***************************************************************************)
(* The model pool: the process-wide ledger of capacity seats               *)
(* (ModelCapacity) and, for every analysis run, one election pool          *)
(* (ModelElectionPool) that hands queued work to models.                   *)
(*                                                                         *)
(* A pool is a loop in a task of its own.  It polls at least every         *)
(* poll_seconds, so an iteration may begin at any time and the wake event  *)
(* only makes it begin sooner.  Between two awaits an iteration is atomic; *)
(* its one await that can let other tasks run is notify_capacity(), which  *)
(* suspends only when a notification route is registered (NotifySuspends). *)
(*                                                                         *)
(* The callers of the pool are unconstrained in this module: any request,  *)
(* and any feedback, current or stale, may arrive at any time.             *)
(*                                                                         *)
(* Abstracted: uuid reservation ids (an attempt number identifies the      *)
(* reservation of a work), the weights and failure counts, which bias the  *)
(* choice among selectable models and never exclude one, and the clock,    *)
(* reduced to whether the back-off of a work is still running.  Left out:  *)
(* resume_attempt and allowed_model_ids, which no caller of the pool sets. *)
(***************************************************************************)
EXTENDS Naturals, Sequences, FiniteSets

CONSTANTS
    Runs,            \* analysis runs of this process
    Works,           \* work ids (stable: the same for every attempt)
    RunOf,           \* the run of a work
    Models,          \* model ids the configuration may list
    NoModel,         \* no fixed_model_id
    FixedModelOf,    \* fixed_model_id of the request of a work, or NoModel
    Configs,         \* the states of settings.models.model_pool
    MaxAttempts,     \* bound on the attempts of one work
    NotifySuspends,  \* a handler and a route for analysis.capacity exist
    LoopFaults       \* an exception may end the loop from outside its rules

ASSUME ModelElectionAssumption ==
    /\ RunOf \in [Works -> Runs]
    /\ NoModel \notin Models
    /\ FixedModelOf \in [Works -> Models \cup {NoModel}]
    /\ Configs \subseteq [listed   : SUBSET Models,
                          weighted : SUBSET Models,
                          cap      : [Models -> Nat \ {0}]]
    /\ \A c \in Configs : c.weighted \subseteq c.listed
    /\ MaxAttempts \in Nat \ {0}
    /\ NotifySuspends \in BOOLEAN
    /\ LoopFaults \in BOOLEAN

VARIABLES
    config,          \* settings.models.model_pool as it stands now
    unhealthy,       \* models whose health score is below MIN_SELECT_SCORE
    seats,           \* MODEL_CAPACITY: one entry per reserved seat
    pending,         \* run -> deque of requested works
    attempts,        \* work -> number of the last attempt handed out
    cooling,         \* work -> available_at has not been reached
    reservations,    \* work -> attempt that holds a reservation, 0 if none
    selection_error, \* run -> the loop met a configuration error
    electing,        \* run -> result held across the await of the election
    assignments,     \* run -> results published and not yet taken
    mpc,             \* run -> where the election loop stands
    closed,          \* run -> stop_elections() or close() was called
    attached         \* run -> the bus still routes requests to the pool

poolVars == <<config, unhealthy, seats, pending, attempts, cooling,
              reservations, selection_error, electing, assignments, mpc,
              closed, attached>>

-----------------------------------------------------------------------------
(* Records *)

Assignment == [work : Works, attempt : Nat, model : Models]
NoElection == [work |-> "none", attempt |-> 0, model |-> NoModel]

Seat == [run : Runs, work : Works, attempt : Nat, model : Models, slot : Nat]

\* How the loop of a pool can stand: not started, between two iterations,
\* suspended in notify_capacity(), returned, or ended by an exception or a
\* cancellation.
Failures == {"exhausted", "error", "crashed"}
LoopStates == {"off", "poll", "notify", "ended", "cancelled"} \cup Failures
LoopAlive(r) == mpc[r] \in {"poll", "notify"}

WorksOf(r) == {w \in Works : RunOf[w] = r}
Queued(r) == {pending[r][i] : i \in 1..Len(pending[r])}
AssignedTo(r, w) == \E i \in 1..Len(assignments[r]) : assignments[r][i].work = w

-----------------------------------------------------------------------------
(* The capacity ledger *)

SeatsAt(m) == {s \in seats : s.model = m}
Occupancy(m) == Cardinality(SeatsAt(m))

\* Mutant: the next position is the number of seats taken.
FreeSlotByCount(m) == Occupancy(m)

\* The lowest position of the model that no seat uses.
FreeSlot(m) ==
    LET used == {s.slot : s \in SeatsAt(m)}
    IN  CHOOSE i \in 0..Cardinality(used) :
            i \notin used /\ \A j \in 0..i-1 : j \in used

Reserved(w, n, m) ==
    seats \cup {[run |-> RunOf[w], work |-> w, attempt |-> n, model |-> m,
                 slot |-> FreeSlot(m)]}

Released(w, n) == {s \in seats : ~(s.work = w /\ s.attempt = n)}

ReleasedAll(r) == {s \in seats : s.run # r}

-----------------------------------------------------------------------------
(* Which models an election may choose *)

Free == {m \in config.listed : Occupancy(m) < config.cap[m] /\ m \notin unhealthy}

Selectable(w) ==
    IF FixedModelOf[w] = NoModel THEN config.weighted \cap Free
                                 ELSE {FixedModelOf[w]} \cap Free

\* A fixed model that the configuration does not list, or no model with a
\* positive weight, is an error and not a wait.
Misconfigured(w) ==
    IF FixedModelOf[w] = NoModel THEN config.weighted = {}
                                 ELSE FixedModelOf[w] \notin config.listed

\* Mutant: a low score is not waited for.
NoHealthWaiting(w) == FALSE

HealthWaiting(w) ==
    IF FixedModelOf[w] = NoModel
    THEN config.weighted \cap unhealthy # {}
    ELSE FixedModelOf[w] \in config.listed \cap unhealthy

NoUsage(r) == seats = {} /\ \A w \in WorksOf(r) : reservations[w] = 0

-----------------------------------------------------------------------------
(* Requests to the pool, each handled in one step *)

\* Mutant: a retried work queues up behind the others.
EnqueueAtEnd(w) ==
    LET r == RunOf[w] IN
    /\ attached[r]
    /\ \/ w \in Queued(r) /\ UNCHANGED pending
       \/ w \notin Queued(r) /\ pending' = [pending EXCEPT ![r] = Append(@, w)]
    /\ UNCHANGED <<config, unhealthy, seats, attempts, cooling, reservations,
                   selection_error, electing, assignments, mpc, closed, attached>>

\* A request already waiting is dropped; a retried work goes to the head.
Enqueue(w) ==
    LET r == RunOf[w] IN
    /\ attached[r]
    /\ \/ w \in Queued(r) /\ UNCHANGED pending
       \/ /\ w \notin Queued(r)
          /\ pending' = [pending EXCEPT ![r] = IF attempts[w] > 0
                                              THEN <<w>> \o @ ELSE Append(@, w)]
    /\ UNCHANGED <<config, unhealthy, seats, attempts, cooling, reservations,
                   selection_error, electing, assignments, mpc, closed, attached>>

\* Mutant: feedback is not compared with the current reservation.
FeedbackUnchecked(w, n, outcome) ==
    /\ attached[RunOf[w]]
    /\ reservations' = [reservations EXCEPT ![w] = 0]
    /\ seats' = Released(w, n)
    /\ cooling' = [cooling EXCEPT ![w] = @ \/ outcome = "retry"]
    /\ UNCHANGED <<config, unhealthy, pending, attempts, selection_error,
                   electing, assignments, mpc, closed, attached>>

\* Feedback that does not name the current reservation of the work is ignored.
Feedback(w, n, outcome) ==
    /\ attached[RunOf[w]]
    /\ IF n # 0 /\ reservations[w] = n
       THEN /\ reservations' = [reservations EXCEPT ![w] = 0]
            /\ seats' = Released(w, n)
            /\ cooling' = [cooling EXCEPT ![w] = @ \/ outcome = "retry"]
       ELSE UNCHANGED <<reservations, seats, cooling>>
    /\ UNCHANGED <<config, unhealthy, pending, attempts, selection_error,
                   electing, assignments, mpc, closed, attached>>

StopElections(r) ==
    /\ closed' = [closed EXCEPT ![r] = TRUE]
    /\ UNCHANGED <<config, unhealthy, seats, pending, attempts, cooling,
                   reservations, selection_error, electing, assignments, mpc,
                   attached>>

\* The owner of the pool starts the loop in a task of its own.
StartLoop(r) ==
    /\ mpc[r] = "off"
    /\ mpc' = [mpc EXCEPT ![r] = "poll"]
    /\ UNCHANGED <<config, unhealthy, seats, pending, attempts, cooling,
                   reservations, selection_error, electing, assignments, closed,
                   attached>>

\* The owner of the pool cancels the loop's task before it closes the pool.
CancelLoop(r) ==
    /\ mpc' = [mpc EXCEPT ![r] = IF LoopAlive(r) THEN "cancelled" ELSE @]
    /\ UNCHANGED <<config, unhealthy, seats, pending, attempts, cooling,
                   reservations, selection_error, electing, assignments, closed,
                   attached>>

Close(r) ==
    /\ attached[r]
    /\ closed' = [closed EXCEPT ![r] = TRUE]
    /\ attached' = [attached EXCEPT ![r] = FALSE]
    /\ seats' = ReleasedAll(r)
    /\ reservations' = [w \in Works |-> IF RunOf[w] = r THEN 0 ELSE reservations[w]]
    /\ UNCHANGED <<config, unhealthy, pending, attempts, cooling,
                   selection_error, electing, assignments, mpc>>

-----------------------------------------------------------------------------
(* The election loop *)

\* Where an iteration looks at the request at the head of the queue.
AtHead(r, w) ==
    /\ mpc[r] = "poll"
    /\ ~closed[r]
    /\ pending[r] # <<>>
    /\ w = Head(pending[r])

MayElect(r, w) ==
    reservations[w] = 0 /\ ~cooling[w] /\ ~selection_error[r]

\* Mutant: the head is read and not dropped.
HandOutKeeping(r, a) ==
    /\ reservations' = [reservations EXCEPT ![a.work] = a.attempt]
    /\ attempts' = [attempts EXCEPT ![a.work] = a.attempt]
    /\ assignments' = [assignments EXCEPT ![r] = Append(@, a)]
    /\ UNCHANGED pending

\* What follows the await: record the reservation, drop the head, publish.
HandOut(r, a) ==
    /\ reservations' = [reservations EXCEPT ![a.work] = a.attempt]
    /\ attempts' = [attempts EXCEPT ![a.work] = a.attempt]
    /\ pending' = [pending EXCEPT ![r] = Tail(@)]
    /\ assignments' = [assignments EXCEPT ![r] = Append(@, a)]

\* The election succeeds: a seat is taken before the loop can be suspended.
Elect(r, w, m) ==
    /\ AtHead(r, w)
    /\ MayElect(r, w)
    /\ m \in Selectable(w)
    /\ LET a == [work |-> w, attempt |-> attempts[w] + 1, model |-> m] IN
       /\ seats' = Reserved(w, a.attempt, m)
       /\ IF NotifySuspends
          THEN /\ mpc' = [mpc EXCEPT ![r] = "notify"]
               /\ electing' = [electing EXCEPT ![r] = a]
               /\ UNCHANGED <<reservations, attempts, pending, assignments>>
          ELSE /\ HandOut(r, a)
               /\ UNCHANGED <<mpc, electing>>
    /\ UNCHANGED <<config, unhealthy, cooling, selection_error, closed, attached>>

\* notify_capacity() returns: the loop goes on with what it read before.
\* A stop in between does not hold it back.
Publish(r) ==
    /\ mpc[r] = "notify"
    /\ HandOut(r, electing[r])
    /\ mpc' = [mpc EXCEPT ![r] = "poll"]
    /\ electing' = [electing EXCEPT ![r] = NoElection]
    /\ UNCHANGED <<config, unhealthy, seats, cooling, selection_error, closed,
                   attached>>

\* An iteration that selects no model: it waits, or ends the loop.  The
\* back-off is read once before the selection and once after it.
ElectionFails(r, w) ==
    LET failed == \/ selection_error[r]
                  \/ MayElect(r, w) /\ Misconfigured(w)
    IN
    /\ AtHead(r, w)
    /\ ~MayElect(r, w) \/ Selectable(w) = {}
    /\ selection_error' = [selection_error EXCEPT ![r] = failed]
    /\ \E late \in IF cooling[w] THEN BOOLEAN ELSE {FALSE} :
          /\ cooling' = [cooling EXCEPT ![w] = late]
          /\ mpc' = [mpc EXCEPT ![r] =
                       CASE NoUsage(r) /\ failed -> "error"
                         [] NoUsage(r) /\ ~failed /\ ~late /\ ~HealthWaiting(w)
                              -> "exhausted"
                         [] OTHER -> @]
    /\ UNCHANGED <<config, unhealthy, seats, pending, attempts, reservations,
                   electing, assignments, closed, attached>>

LoopEnds(r) ==
    /\ mpc[r] = "poll"
    /\ closed[r]
    /\ mpc' = [mpc EXCEPT ![r] = "ended"]
    /\ UNCHANGED <<config, unhealthy, seats, pending, attempts, cooling,
                   reservations, selection_error, electing, assignments, closed,
                   attached>>

\* An exception of the notification or of the settings leaves the loop at once.
LoopCrashes(r) ==
    /\ LoopFaults
    /\ LoopAlive(r)
    /\ ~closed[r]
    /\ mpc' = [mpc EXCEPT ![r] = "crashed"]
    /\ UNCHANGED <<config, unhealthy, seats, pending, attempts, cooling,
                   reservations, selection_error, electing, assignments, closed,
                   attached>>

-----------------------------------------------------------------------------
(* Time, health and configuration *)

CoolingEnds(w) ==
    /\ cooling[w]
    /\ cooling' = [cooling EXCEPT ![w] = FALSE]
    /\ UNCHANGED <<config, unhealthy, seats, pending, attempts, reservations,
                   selection_error, electing, assignments, mpc, closed, attached>>

\* A score falls with a failed turn, or when a good turn leaves the window.
ScoreDrops(m) ==
    /\ m \notin unhealthy
    /\ unhealthy' = unhealthy \cup {m}
    /\ UNCHANGED <<config, seats, pending, attempts, cooling, reservations,
                   selection_error, electing, assignments, mpc, closed, attached>>

ScoreRecovers(m) ==
    /\ m \in unhealthy
    /\ unhealthy' = unhealthy \ {m}
    /\ UNCHANGED <<config, seats, pending, attempts, cooling, reservations,
                   selection_error, electing, assignments, mpc, closed, attached>>

\* The pool of models is edited while runs are in progress.
Reconfigure(c) ==
    /\ c # config
    /\ config' = c
    /\ UNCHANGED <<unhealthy, seats, pending, attempts, cooling, reservations,
                   selection_error, electing, assignments, mpc, closed, attached>>

-----------------------------------------------------------------------------
PoolInit ==
    /\ config \in Configs
    /\ unhealthy = {}
    /\ seats = {}
    /\ pending = [r \in Runs |-> <<>>]
    /\ attempts = [w \in Works |-> 0]
    /\ cooling = [w \in Works |-> FALSE]
    /\ reservations = [w \in Works |-> 0]
    /\ selection_error = [r \in Runs |-> FALSE]
    /\ electing = [r \in Runs |-> NoElection]
    /\ assignments = [r \in Runs |-> <<>>]
    /\ mpc = [r \in Runs |-> "off"]
    /\ closed = [r \in Runs |-> FALSE]
    /\ attached = [r \in Runs |-> TRUE]

LoopStep(r) ==
    \/ \E w \in Works, m \in Models : Elect(r, w, m)
    \/ Publish(r)
    \/ \E w \in Works : ElectionFails(r, w)
    \/ LoopEnds(r)
    \/ LoopCrashes(r)

Surroundings ==
    \/ \E w \in Works : CoolingEnds(w)
    \/ \E m \in Models : ScoreDrops(m) \/ ScoreRecovers(m)
    \/ \E c \in Configs : Reconfigure(c)

\* The caller takes a published result, and may stop the elections in the same
\* step.
TakeAssignment(r, stop) ==
    /\ assignments[r] # <<>>
    /\ assignments' = [assignments EXCEPT ![r] = Tail(@)]
    /\ closed' = [closed EXCEPT ![r] = @ \/ stop]
    /\ UNCHANGED <<config, unhealthy, seats, pending, attempts, cooling,
                   reservations, selection_error, electing, mpc, attached>>

Caller ==
    \/ \E w \in Works : attempts[w] < MaxAttempts /\ Enqueue(w)
    \/ \E w \in Works : \E n \in 1..attempts[w], o \in {"retry", "saved"} :
          Feedback(w, n, o)
    \/ \E r \in Runs : \/ StartLoop(r)
                       \/ \E stop \in BOOLEAN : TakeAssignment(r, stop)
                       \/ StopElections(r)
                       \/ CancelLoop(r)
                       \/ ~LoopAlive(r) /\ Close(r)

PoolNext == (\E r \in Runs : LoopStep(r)) \/ Surroundings \/ Caller

PoolSpec == PoolInit /\ [][PoolNext]_poolVars

-----------------------------------------------------------------------------
(* Properties *)

PoolTypeOK ==
    /\ config \in Configs
    /\ unhealthy \in SUBSET Models
    /\ seats \in SUBSET Seat
    /\ pending \in [Runs -> Seq(Works)]
    /\ attempts \in [Works -> Nat]
    /\ cooling \in [Works -> BOOLEAN]
    /\ reservations \in [Works -> Nat]
    /\ selection_error \in [Runs -> BOOLEAN]
    /\ electing \in [Runs -> Assignment \cup {NoElection}]
    /\ assignments \in [Runs -> Seq(Assignment)]
    /\ mpc \in [Runs -> LoopStates]
    /\ closed \in [Runs -> BOOLEAN]
    /\ attached \in [Runs -> BOOLEAN]

\* Two runs that elect in turn never show two agents at one position of a
\* model: reserve() picks a position that no entry of any run uses.
SlotsDistinct ==
    \A s, t \in seats : s.model = t.model /\ s.slot = t.slot => s = t

\* "The ledger holds no entry without an owner" (module docstring): each entry
\* belongs to a pool still attached and is either the current reservation of its
\* work or in the hands of an election not finished; and each reservation a pool
\* believes it has is in the ledger.
LedgerExact ==
    /\ \A s \in seats :
          /\ s.run = RunOf[s.work]
          /\ attached[s.run]
          /\ \/ reservations[s.work] = s.attempt
             \/ /\ electing[s.run].work = s.work
                /\ electing[s.run].attempt = s.attempt
    /\ \A w \in Works : reservations[w] # 0 =>
          \E s \in seats : s.work = w /\ s.attempt = reservations[w]

\* A work never occupies two seats, whatever feedback arrives in whatever order.
OneSeatPerWork ==
    \A s, t \in seats : s.work = t.work => s = t

\* A position is one agent's and an agent's position is one: what the interface
\* shows of a model, and what its limit counts.
SeatsAreDistinct == SlotsDistinct /\ OneSeatPerWork

\* Retried work stays ahead of work never attempted: a retry keeps its turn, also
\* when it comes back while an election is suspended. (enqueue, run)
RetriedFirst ==
    \A r \in Runs : \A i, j \in 1..Len(pending[r]) :
        i < j /\ attempts[pending[r][j]] > 0 => attempts[pending[r][i]] > 0

\* A back-off still running, a model that is full and a score that is low are
\* waited for (capacity.py, the comment before the second reading of the clock).
\* A pool gives up only when nothing in the process holds a seat and the back-off
\* at its head ended between the two readings of one iteration.
GivesUpOnlyByTheClock ==
    [][\A r \in Runs : mpc[r] # "exhausted" /\ mpc'[r] = "exhausted" =>
          seats = {} /\ pending[r] # <<>> /\ cooling[Head(pending[r])]]_poolVars
=============================================================================
