-------------------------- MODULE NotificationStream --------------------------
(***************************************************************************)
(* The notifications of one task on their way to the browsers: the queue   *)
(* and the worker of the NotificationConsumer, the outbox in the store,    *)
(* the projection and the queues of the EventManager, and the generator of *)
(* each server-sent event stream.                                          *)
(*                                                                         *)
(* Abstracted: the content of the messages but for the capacity of the     *)
(* models; the sequence numbers, which other tasks share, to the positions *)
(* in the outbox of this task; the cache of the manager, which holds only  *)
(* messages of the outbox and adds none to a page that is not full.  The   *)
(* manager sends, takes snapshots and replays under one lock for the task, *)
(* each here one action.                                                   *)
(***************************************************************************)
EXTENDS Naturals, Sequences, SequencesExt

CONSTANTS
    Clients,       \* the connections of browsers
    QueueSize,     \* messages the manager keeps for one connection
    PageSize,      \* messages of one page of a replay
    MaxMessages,   \* bound on the messages made
    MaxCapacity,   \* bound on the changes of the capacity
    MaxTroubles,   \* bound on the calls of the store that fail and on the
                   \* waits of the worker that time out
    MaxRestarts    \* bound on the restarts of the process

ASSUME NotificationStreamAssumption ==
    /\ QueueSize \in Nat \ {0}
    /\ PageSize \in Nat \ {0}
    /\ MaxMessages \in Nat
    /\ MaxCapacity \in Nat
    /\ MaxTroubles \in Nat
    /\ MaxRestarts \in Nat

VARIABLES
    queue,      \* messages the consumer has accepted and not saved
    worker,     \* the coroutine that saves them
    made,       \* messages made so far: the identity of the latest
    capacity,   \* the capacity the consumer knows
    fans,       \* capacities whose message is still to be queued
    routed,     \* the consumer has a route to the task
    terminal,   \* the consumer takes the task for ended
    late,       \* the route went while a capacity was still to be queued
    observers,  \* connections counted by the consumer
    stored,     \* the outbox, without what a message says of the task
    warm,       \* the manager has a projection
    cursor,     \* the position the projection has reached
    registered, \* connections the manager pushes to
    phase,      \* connection -> where its generator is
    pushed,     \* connection -> positions pushed to it
    page,       \* connection -> positions of a replay still to be sent
    base,       \* connection -> the position of its snapshot
    got,        \* connection -> positions it has been sent
    dropped,    \* messages that went down with a queue of the consumer
    troubles, restarts

consumer == <<queue, worker, made, capacity, fans, routed, late, terminal,
              observers, dropped>>
manager  == <<stored, warm, cursor, registered>>
client   == <<phase, pushed, page, base, got>>
bounds   == <<troubles, restarts>>
vars     == <<consumer, manager, client, bounds>>

Kinds == {"progress", "start", "end", "capacity"}

Messages == [id : 1..MaxMessages, kind : Kinds, capacity : 0..MaxCapacity]

\* In the queue of a connection: the request to reconnect.
Reconnect == 0

Positions == 1..MaxMessages

TypeOK ==
    /\ queue \in Seq(Messages)
    /\ worker \in {"none", "waiting", "expired", "retrying"}
    /\ made \in 0..MaxMessages
    /\ capacity \in 0..MaxCapacity
    /\ fans \in Seq(0..MaxCapacity)
    /\ routed \in BOOLEAN
    /\ late \in BOOLEAN
    /\ terminal \in BOOLEAN
    /\ observers \in Nat
    /\ stored \in Seq([id : 1..MaxMessages, capacity : 0..MaxCapacity])
    /\ warm \in BOOLEAN
    /\ cursor \in 0..MaxMessages
    /\ registered \subseteq Clients
    /\ phase \in [Clients -> {"off", "watching", "top", "replaying"}]
    /\ pushed \in [Clients -> Seq(Positions \cup {Reconnect})]
    /\ page \in [Clients -> Seq(Positions)]
    /\ base \in [Clients -> 0..MaxMessages]
    /\ got \in [Clients -> Seq(Positions)]
    /\ dropped \subseteq 1..MaxMessages
    /\ troubles \in 0..MaxTroubles
    /\ restarts \in 0..MaxRestarts
    /\ \A c \in Clients : Len(pushed[c]) <= QueueSize

Init ==
    /\ queue = <<>>
    /\ worker = "none"
    /\ made = 0
    /\ capacity = 0
    /\ fans = <<>>
    /\ routed = FALSE
    /\ late = FALSE
    /\ terminal = FALSE
    /\ observers = 0
    /\ stored = <<>>
    /\ warm = FALSE
    /\ cursor = 0
    /\ registered = {}
    /\ phase = [c \in Clients |-> "off"]
    /\ pushed = [c \in Clients |-> <<>>]
    /\ page = [c \in Clients |-> <<>>]
    /\ base = [c \in Clients |-> 0]
    /\ got = [c \in Clients |-> <<>>]
    /\ dropped = {}
    /\ troubles = 0
    /\ restarts = 0

Trouble == troubles < MaxTroubles /\ troubles' = troubles + 1

Streaming(c) == phase[c] \in {"top", "replaying"}

-----------------------------------------------------------------------------
(* The consumer takes messages in. *)

\* Every capacity still to be queued has its message reserved.
Room(n) == made + Len(fans) + n <= MaxMessages

Note(kind) == [id |-> made + 1, kind |-> kind, capacity |-> 0]

CapacityNote(n, v) == [id |-> n, kind |-> "capacity", capacity |-> v]

\* The first message of a task makes its queue and its worker.  A queue that
\* is full makes the callers wait under the lock of the task, in their order.
Enqueue(messages) ==
    /\ queue' = queue \o messages
    /\ made' = made + Len(messages)
    /\ worker' = IF worker = "none" THEN "waiting" ELSE worker

\* accept: on a new route the capacity comes first, if there is any.
Accept(kind) ==
    /\ Room(2)
    /\ routed' = TRUE
    /\ Enqueue(IF ~routed /\ capacity # 0
               THEN <<CapacityNote(made + 1, capacity),
                      [Note(kind) EXCEPT !.id = made + 2]>>
               ELSE <<Note(kind)>>)
    /\ UNCHANGED <<capacity, fans, late, terminal, observers, dropped, manager,
                   client, bounds>>

\* capacity_changed: one coroutine for every route, which runs later.
CapacityChanged ==
    /\ capacity < MaxCapacity
    /\ Room(1)
    /\ capacity' = capacity + 1
    /\ fans' = IF routed THEN Append(fans, capacity + 1) ELSE fans
    /\ UNCHANGED <<queue, worker, made, routed, late, terminal, observers, dropped,
                   manager, client, bounds>>

FanOut ==
    /\ fans # <<>>
    /\ fans' = Tail(fans)
    /\ Enqueue(<<CapacityNote(made + 1, Head(fans))>>)
    /\ UNCHANGED <<capacity, routed, late, terminal, observers, dropped, manager,
                   client, bounds>>

-----------------------------------------------------------------------------
(* The worker saves them. *)

\* The position of a message that is in the outbox, or the next one.
PositionOf(m) ==
    IF \E i \in DOMAIN stored : stored[i].id = m.id
    THEN CHOOSE i \in DOMAIN stored : stored[i].id = m.id
    ELSE Len(stored) + 1

Row(m) == [id |-> m.id, capacity |-> m.capacity]

\* on_conflict_do_nothing on the identity of the message.
Emitted(m) == IF PositionOf(m) > Len(stored) THEN Append(stored, Row(m)) ELSE stored

\* The projection, rebuilt from the outbox if it was dropped.
Reached == IF warm THEN cursor ELSE Len(stored)

\* Mutant: a queue that is full loses the message and stays.
PushedOrLost(i) ==
    /\ registered' = registered
    /\ pushed' = [c \in Clients |->
                    IF c \in registered /\ Len(pushed[c]) < QueueSize
                    THEN Append(pushed[c], i) ELSE pushed[c]]

\* Mutant: the queues of the connections have no bound.
PushUnbounded(i) ==
    /\ registered' = registered
    /\ pushed' = [c \in Clients |-> IF c \in registered THEN Append(pushed[c], i)
                                   ELSE pushed[c]]

\* A queue that is full is emptied and its connection told to come back.
Push(i) ==
    LET Full == {c \in registered : Len(pushed[c]) = QueueSize}
    IN  /\ registered' = registered \ Full
        /\ pushed' = [c \in Clients |->
                        IF c \in Full THEN <<Reconnect>>
                        ELSE IF c \in registered THEN Append(pushed[c], i)
                        ELSE pushed[c]]

\* Mutant: the observers are not asked.
RetireUnasked(ends, watching) ==
    /\ routed' = (routed /\ ~(ends /\ watching >= 0))
    /\ late' = late

\* _retire: the route of an ended task goes with its last observer.
Retire(ends, watching) ==
    /\ routed' = (routed /\ ~(ends /\ watching = 0))
    /\ late' = (late \/ (routed /\ ~routed' /\ fans # <<>>))

\* manager.send: a message at or below the projection was applied before.
Sent(m) ==
    LET i == PositionOf(m)
    IN  /\ stored' = Emitted(m)
        /\ warm' = TRUE
        /\ IF i <= Reached
           THEN cursor' = Reached /\ UNCHANGED <<registered, pushed>>
           ELSE cursor' = i /\ Push(i)

Send ==
    /\ worker \in {"waiting", "retrying"}
    /\ queue # <<>>
    /\ Sent(Head(queue))
    /\ queue' = Tail(queue)
    /\ worker' = "waiting"
    /\ LET kind == Head(queue).kind
       IN  /\ terminal' = IF kind = "end" THEN TRUE
                          ELSE IF kind = "start" THEN FALSE ELSE terminal
           /\ Retire(kind = "end", observers)
    /\ UNCHANGED <<made, capacity, fans, observers, dropped,
                   phase, page, base, got, bounds>>

\* Mutants: the message goes to the back of the queue; it is given up.
SendFailsBehind ==
    /\ worker \in {"waiting", "retrying"}
    /\ queue # <<>>
    /\ Trouble
    /\ worker' = "retrying"
    /\ queue' = Append(Tail(queue), Head(queue))
    /\ warm' = TRUE
    /\ cursor' = Reached
    /\ UNCHANGED <<stored, made, capacity, fans, routed, late, terminal, observers,
                   dropped, registered, client, restarts>>

SendFailsOnce ==
    /\ worker \in {"waiting", "retrying"}
    /\ queue # <<>>
    /\ Trouble
    /\ worker' = "waiting"
    /\ queue' = Tail(queue)
    /\ warm' = TRUE
    /\ cursor' = Reached
    /\ UNCHANGED <<stored, made, capacity, fans, routed, late, terminal, observers,
                   dropped, registered, client, restarts>>

\* The projection cannot be rebuilt, or the store refuses, or it commits and
\* its answer is lost; the same message is tried again in two seconds.
SendFails ==
    /\ worker \in {"waiting", "retrying"}
    /\ queue # <<>>
    /\ Trouble
    /\ worker' = "retrying"
    /\ \/ ~warm /\ UNCHANGED <<stored, warm, cursor>>
       \/ /\ stored' \in {stored, Emitted(Head(queue))}
          /\ warm' = TRUE
          /\ cursor' = Reached
    /\ UNCHANGED <<queue, made, capacity, fans, routed, late, terminal, observers,
                   dropped, registered, client, restarts>>

\* Sixty seconds without a message: the timer cancels the wait ...
Expire ==
    /\ worker = "waiting"
    /\ queue = <<>>
    /\ Trouble
    /\ worker' = "expired"
    /\ UNCHANGED <<queue, made, capacity, fans, routed, late, terminal, observers,
                   dropped, manager, client, restarts>>

\* ... and the coroutine, when it runs next, gives its queue up with what has
\* come into it meanwhile.
Expired ==
    /\ worker = "expired"
    /\ worker' = "none"
    /\ queue' = <<>>
    /\ dropped' = dropped \cup {queue[i].id : i \in DOMAIN queue}
    /\ terminal' = (terminal /\ observers # 0)
    /\ UNCHANGED <<made, capacity, fans, routed, late, observers, manager, client,
                   bounds>>

\* An hour without activity or connection: the manager forgets the task.
Forget ==
    /\ warm
    /\ registered = {}
    /\ warm' = FALSE
    /\ cursor' = 0
    /\ UNCHANGED <<consumer, stored, registered, client, bounds>>

-----------------------------------------------------------------------------
(* The streams. *)

\* The endpoint has read the status of the run, as it was at some moment.
Watch(c) ==
    /\ phase[c] = "off"
    /\ Room(1)
    /\ phase' = [phase EXCEPT ![c] = "watching"]
    /\ observers' = observers + 1
    /\ routed' = TRUE
    /\ terminal' \in {terminal, TRUE}
    /\ Enqueue(<<CapacityNote(made + 1, capacity)>>)
    /\ UNCHANGED <<capacity, fans, late, dropped, manager, pushed, page, base, got,
                   bounds>>

\* connect_snapshot: registered and given its snapshot under the lock.
Snapshot(c) ==
    /\ phase[c] = "watching"
    /\ phase' = [phase EXCEPT ![c] = "top"]
    /\ registered' = registered \cup {c}
    /\ warm' = TRUE
    /\ cursor' = Reached
    /\ base' = [base EXCEPT ![c] = Reached]
    /\ got' = [got EXCEPT ![c] = <<>>]
    /\ pushed' = [pushed EXCEPT ![c] = <<>>]
    /\ page' = [page EXCEPT ![c] = <<>>]
    /\ UNCHANGED <<consumer, stored, bounds>>

\* The rebuilding of the projection fails: the endpoint raises, and the
\* observer it has counted stays counted.
SnapshotFails(c) ==
    /\ phase[c] = "watching"
    /\ ~warm
    /\ Trouble
    /\ phase' = [phase EXCEPT ![c] = "off"]
    /\ UNCHANGED <<consumer, manager, pushed, page, base, got, restarts>>

\* The position a stream has reached: the cursor of its generator.
Position(c) == IF got[c] = <<>> THEN base[c] ELSE Last(got[c])

\* A position at or below the last one sent is skipped.
SendDown(c, i) ==
    got' = IF i > Position(c) THEN [got EXCEPT ![c] = Append(@, i)] ELSE got

TakePushed(c) ==
    /\ phase[c] = "top"
    /\ pushed[c] # <<>>
    /\ Head(pushed[c]) # Reconnect
    /\ pushed' = [pushed EXCEPT ![c] = Tail(@)]
    /\ SendDown(c, Head(pushed[c]))
    /\ UNCHANGED <<consumer, manager, phase, page, base, bounds>>

\* With nothing pushed the generator reads a page of the outbox; an empty one
\* makes it wait half a second for its queue.
Replay(c) ==
    LET rest == Len(stored) - Position(c)
        n    == IF rest < PageSize THEN rest ELSE PageSize
    IN  /\ phase[c] = "top"
        /\ pushed[c] = <<>>
        /\ Position(c) < Len(stored)
        /\ page' = [page EXCEPT ![c] = [i \in 1..n |-> Position(c) + i]]
        /\ phase' = [phase EXCEPT ![c] = "replaying"]
        /\ UNCHANGED <<consumer, manager, pushed, base, got, bounds>>

SendPage(c) ==
    /\ phase[c] = "replaying"
    /\ IF page[c] = <<>>
       THEN /\ phase' = [phase EXCEPT ![c] = "top"]
            /\ UNCHANGED <<page, got>>
       ELSE /\ page' = [page EXCEPT ![c] = Tail(@)]
            /\ SendDown(c, Head(page[c]))
            /\ UNCHANGED phase
    /\ UNCHANGED <<consumer, manager, pushed, base, bounds>>

\* The generator ends, and its finally clause with it.
Close(c) ==
    /\ phase' = [phase EXCEPT ![c] = "off"]
    /\ pushed' = [pushed EXCEPT ![c] = <<>>]
    /\ page' = [page EXCEPT ![c] = <<>>]
    /\ base' = [base EXCEPT ![c] = 0]
    /\ got' = [got EXCEPT ![c] = <<>>]
    /\ registered' = registered \ {c}
    /\ observers' = observers - 1
    /\ Retire(terminal, observers - 1)
    /\ UNCHANGED <<queue, worker, made, capacity, fans, terminal, dropped,
                   stored, warm, cursor, bounds>>

Dismissed(c) ==
    /\ phase[c] = "top"
    /\ pushed[c] = <<Reconnect>>
    /\ Close(c)

Leave(c) == Streaming(c) /\ Close(c)

-----------------------------------------------------------------------------

\* The process ends, at any moment, and starts again with the outbox.
Restart ==
    /\ restarts < MaxRestarts
    /\ restarts' = restarts + 1
    /\ queue' = <<>>
    /\ worker' = "none"
    /\ capacity' = 0
    /\ fans' = <<>>
    /\ routed' = FALSE
    /\ late' = FALSE
    /\ terminal' = FALSE
    /\ observers' = 0
    /\ warm' = FALSE
    /\ cursor' = 0
    /\ registered' = {}
    /\ phase' = [c \in Clients |-> "off"]
    /\ pushed' = [c \in Clients |-> <<>>]
    /\ page' = [c \in Clients |-> <<>>]
    /\ base' = [c \in Clients |-> 0]
    /\ got' = [c \in Clients |-> <<>>]
    /\ dropped' = dropped \cup {queue[i].id : i \in DOMAIN queue}
    /\ UNCHANGED <<made, stored, troubles>>

Streams(c) ==
    \/ Snapshot(c) \/ SnapshotFails(c) \/ TakePushed(c)
    \/ Replay(c) \/ SendPage(c) \/ Dismissed(c)

Worker == Send \/ SendFails \/ Expired

Next ==
    \/ \E kind \in Kinds \ {"capacity"} : Accept(kind)
    \/ CapacityChanged
    \/ FanOut
    \/ Worker
    \/ Expire
    \/ Forget
    \/ \E c \in Clients : Watch(c) \/ Streams(c) \/ Leave(c)
    \/ Restart

\* The loop runs its coroutines, and a store that is asked again and again
\* answers in the end (MaxTroubles).
Fairness ==
    /\ WF_vars(Worker)
    /\ WF_vars(FanOut)
    /\ \A c \in Clients : WF_vars(Streams(c))

Spec == Init /\ [][Next]_vars /\ Fairness

-----------------------------------------------------------------------------
(* Properties. *)

\* Whatever fails and is tried again, the outbox holds the notifications of a
\* task in the order they were accepted, each once.  (_consume, emit)
SavedInOrder ==
    \A i, j \in DOMAIN stored : i < j => stored[i].id < stored[j].id

\* The projection shows what is in the outbox and nothing else; it lacks at
\* most the message whose commit was not acknowledged, until it is tried
\* again.  (send, _projection)
ProjectionIsOutbox ==
    warm => \/ cursor = Len(stored)
            \/ worker = "retrying" /\ cursor + 1 = Len(stored)

\* The order of acceptance is that of the outbox, and that of the projection,
\* also when a commit is not acknowledged and the message is tried again.
\* (NotificationConsumer._consume, EventManager.send)
OutboxInOrder == SavedInOrder /\ ProjectionIsOutbox

\* A stream sends every message after its snapshot, in order and once,
\* although each can reach it by a push, by a replay or by both, and although
\* a queue that overflows loses what it held.  (event_generator, send)
StreamsHaveNoGap ==
    \A c \in Clients : got[c] = [i \in 1..Len(got[c]) |-> base[c] + i]

\* A task that is watched is told the changes of the capacity, although an
\* end, another stream and a resumption each touch its route.  (_retire)
WatchedIsRouted == observers # 0 => routed

LastCapacity ==
    LET Known == {i \in DOMAIN stored : stored[i].capacity # 0}
    IN  IF Known = {} THEN 0
        ELSE stored[CHOOSE i \in Known : \A j \in Known : j <= i].capacity

\* When nothing is under way, the last capacity the outbox shows is that of
\* the pool, although it is queued by changes, subscriptions and new routes
\* independently.  A capacity still to be queued when the route goes can come
\* after a newer one.  (capacity_changed, watch, accept)
CapacityIsCurrent ==
    (routed /\ queue = <<>> /\ fans = <<>> /\ capacity # 0
        /\ dropped = {} /\ ~late) =>
        LastCapacity = capacity

\* Who watches a task is shown the capacity as it is.
\* (NotificationConsumer._retire, watch, capacity_changed)
CapacityReachesWatchers == WatchedIsRouted /\ CapacityIsCurrent

\* A notification made while a browser is connected is shown to it, unless the
\* browser is told to reconnect, leaves, or the notification went down with
\* its queue.
EverythingShown ==
    \A c \in Clients, n \in 1..MaxMessages :
        (Streaming(c) /\ n <= made) ~>
            \/ ~Streaming(c)
            \/ n \in dropped
            \/ \E i \in DOMAIN stored : stored[i].id = n /\ i <= Position(c)
=============================================================================
