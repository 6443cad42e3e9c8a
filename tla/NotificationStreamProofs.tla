---------------------- MODULE NotificationStreamProofs ----------------------
(* The outbox keeps the order of acceptance, a stream has no gap and sends  *)
(* nothing twice, and who watches a task is shown the capacity as it is,    *)
(* for any number of connections, messages, failures and restarts.          *)
EXTENDS NotificationStream, FiniteSetTheorems, SequenceTheorems, TLAPS

Rows == [id : 1..MaxMessages, capacity : 0..MaxCapacity]

\* The types of the consumer, the outbox and the projection.  A capacity that
\* is still to be queued has its message reserved.
Typed ==
    /\ queue \in Seq(Messages)
    /\ worker \in {"none", "waiting", "expired", "retrying"}
    /\ made \in Nat
    /\ capacity \in 0..MaxCapacity
    /\ fans \in Seq(0..MaxCapacity)
    /\ made + Len(fans) <= MaxMessages
    /\ routed \in BOOLEAN
    /\ late \in BOOLEAN
    /\ terminal \in BOOLEAN
    /\ stored \in Seq(Rows)
    /\ warm \in BOOLEAN
    /\ cursor \in Nat
    /\ dropped \subseteq 1..MaxMessages
    /\ troubles \in 0..MaxTroubles
    /\ restarts \in 0..MaxRestarts

WorkerMatchesQueue ==
    /\ worker = "none" => queue = <<>>
    /\ worker = "retrying" => queue # <<>>

QueuedInOrder ==
    /\ \A i, j \in 1..Len(queue) : i < j => queue[i].id < queue[j].id
    /\ \A j \in 1..Len(queue) : queue[j].id <= made

\* The identities grow at least as fast as the positions, which keeps the
\* positions within the bound on the messages.
StoredInOrder ==
    /\ \A i, j \in 1..Len(stored) : i < j => stored[i].id < stored[j].id
    /\ \A i \in 1..Len(stored) : i <= stored[i].id /\ stored[i].id <= made

\* The message that is tried again is in the outbox already.
Committed ==
    /\ worker = "retrying"
    /\ stored # <<>>
    /\ stored[Len(stored)] = Row(queue[1])

\* What is queued is newer than what is stored, but for such a message.
QueuedAfterStored ==
    \A i \in 1..Len(stored), j \in 1..Len(queue) :
        \/ stored[i].id < queue[j].id
        \/ Committed /\ i = Len(stored) /\ j = 1

ProjectionSound ==
    /\ warm => \/ cursor = Len(stored)
               \/ Committed /\ cursor + 1 = Len(stored)
    /\ ~warm => cursor = 0

\* The order of the messages, from the queue to the projection.
Ordering ==
    /\ WorkerMatchesQueue
    /\ QueuedInOrder
    /\ StoredInOrder
    /\ QueuedAfterStored
    /\ ProjectionSound

OutboxInv == Typed /\ Ordering

-----------------------------------------------------------------------------

StreamTyped ==
    /\ registered \subseteq Clients
    /\ phase \in [Clients -> {"off", "watching", "top", "replaying"}]
    /\ pushed \in [Clients -> Seq(Nat)]
    /\ page \in [Clients -> Seq(Nat)]
    /\ base \in [Clients -> Nat]
    /\ got \in [Clients -> Seq(Nat)]

\* The position of a stream that has no gap.
Reach(c) == base[c] + Len(got[c])

\* What a stream has sent are the positions after its snapshot.
SentInOrder(c) ==
    /\ \A i \in 1..Len(got[c]) : got[c][i] = base[c] + i
    /\ Reach(c) <= Len(stored)

\* What is left of a page are the positions that come next.
PageComesNext(c) ==
    /\ \A i \in 1..Len(page[c]) : page[c][i] = Reach(c) + i
    /\ Reach(c) + Len(page[c]) <= Len(stored)

\* What has been pushed to a connection are the last positions of the
\* projection, and none is missing between them and what has been sent.
PushedIsLatest(c) ==
    c \in registered =>
        /\ Len(pushed[c]) <= cursor
        /\ \A i \in 1..Len(pushed[c]) : pushed[c][i] + Len(pushed[c]) = cursor + i
        /\ cursor <= Reach(c) + Len(pushed[c])

\* A stream the manager does not push to has been told to reconnect.
RegisteredOrDismissed(c) ==
    /\ c \in registered => Streaming(c)
    /\ Streaming(c) /\ c \notin registered => pushed[c] = <<Reconnect>>
    /\ ~Streaming(c) => pushed[c] = <<>> /\ got[c] = <<>>
    /\ phase[c] # "replaying" => page[c] = <<>>
    /\ Len(pushed[c]) <= QueueSize

StreamInv ==
    /\ StreamTyped
    /\ registered # {} => warm
    /\ \A c \in Clients :
        /\ SentInOrder(c)
        /\ PageComesNext(c)
        /\ PushedIsLatest(c)
        /\ RegisteredOrDismissed(c)

-----------------------------------------------------------------------------

\* The connections that are counted; one whose snapshot failed stays counted.
Open == {c \in Clients : phase[c] # "off"}

ObserversCounted ==
    /\ observers \in Nat
    /\ IsFiniteSet(Open)
    /\ Cardinality(Open) <= observers

\* The last capacity in a queue, or else in an outbox.
ShownIn(v, q, s) ==
    \/ \E j \in 1..Len(q) :
        /\ q[j].capacity = v
        /\ \A k \in 1..Len(q) : j < k => q[k].capacity = 0
    \/ /\ \A k \in 1..Len(q) : q[k].capacity = 0
       /\ \E i \in 1..Len(s) :
            /\ s[i].capacity = v
            /\ \A k \in 1..Len(s) : i < k => s[k].capacity = 0

Shows(v) == ShownIn(v, queue, stored)

FansAreCurrent ==
    ~late => /\ ~routed => fans = <<>>
             /\ fans # <<>> => fans[Len(fans)] = capacity

ToldOrUnderWay ==
    (routed /\ fans = <<>> /\ capacity # 0 /\ dropped = {} /\ ~late) =>
        Shows(capacity)

CapacityInv ==
    /\ ObserversCounted
    /\ WatchedIsRouted
    /\ FansAreCurrent
    /\ ToldOrUnderWay

-----------------------------------------------------------------------------
(* The queue and the outbox. *)

LEMMA FieldTypes ==
    /\ \A m \in Messages : /\ m.id \in Nat /\ m.id >= 1 /\ m.id <= MaxMessages
                           /\ m.capacity \in 0..MaxCapacity
    /\ \A r \in Rows : /\ r.id \in Nat /\ r.id >= 1 /\ r.id <= MaxMessages
                       /\ r.capacity \in 0..MaxCapacity
    /\ \A m \in Messages : Row(m) \in Rows /\ Row(m).id = m.id
BY DEF Messages, Rows, Row

\* The next message of the worker is the last of the outbox, if its commit was
\* not acknowledged, or it comes next.
LEMMA HeadPosition ==
    ASSUME OutboxInv, queue # <<>>
    PROVE  /\ Head(queue) = queue[1]
           /\ Head(queue) \in Messages
           /\ Len(queue) >= 1
           /\ \/ /\ Committed
                 /\ PositionOf(Head(queue)) = Len(stored)
                 /\ Emitted(Head(queue)) = stored
              \/ /\ ~Committed
                 /\ PositionOf(Head(queue)) = Len(stored) + 1
                 /\ Emitted(Head(queue)) = Append(stored, Row(Head(queue)))
                 /\ \A i \in 1..Len(stored) : stored[i].id < queue[1].id
<1> DEFINE h == Head(queue)
<1>1. /\ h = queue[1] /\ h \in Messages
      /\ Len(queue) \in Nat /\ Len(queue) >= 1
      /\ Len(stored) \in Nat /\ DOMAIN stored = 1..Len(stored)
      /\ \A i \in 1..Len(stored) : stored[i] \in Rows
    BY HeadTailProperties, LenProperties, ElementOfSeq DEF OutboxInv, Typed
<1>2. CASE Committed
    <2>1. /\ Len(stored) \in 1..Len(stored)
          /\ stored[Len(stored)].id = h.id
        BY <1>1, <1>2, EmptySeq DEF Committed, Row, OutboxInv, Typed
    <2>2. \A i \in DOMAIN stored : stored[i].id = h.id => i = Len(stored)
        BY <1>1, <2>1 DEF OutboxInv, Ordering, StoredInOrder, Rows
    <2>3. PositionOf(h) = Len(stored)
        BY <1>1, <2>1, <2>2 DEF PositionOf
    <2>4. Emitted(h) = stored
        BY <2>3, <1>1 DEF Emitted
    <2> QED BY <1>1, <1>2, <2>3, <2>4
<1>3. CASE ~Committed
    <2>1. \A i \in 1..Len(stored) : stored[i].id < queue[1].id
        <3>1. 1 \in 1..Len(queue)
            BY <1>1
        <3> QED BY <3>1, <1>3 DEF OutboxInv, Ordering, QueuedAfterStored
    <2>2. \A i \in DOMAIN stored : stored[i].id # h.id
        BY <1>1, <2>1 DEF Rows, Messages
    <2>3. PositionOf(h) = Len(stored) + 1
        BY <2>2 DEF PositionOf
    <2>4. Emitted(h) = Append(stored, Row(h))
        <3>1. Len(stored) + 1 > Len(stored)
            BY <1>1
        <3> QED BY <2>3, <3>1 DEF Emitted
    <2> QED BY <1>1, <1>3, <2>1, <2>3, <2>4
<1> QED BY <1>2, <1>3

\* Whatever the worker sends is applied to the projection next, or was applied
\* last.
LEMMA HeadComesNext ==
    ASSUME OutboxInv, queue # <<>>
    PROVE  /\ PositionOf(Head(queue)) = Len(Emitted(Head(queue)))
           /\ Reached \in Nat
           /\ PositionOf(Head(queue)) \in Nat
           /\ \/ PositionOf(Head(queue)) = Reached
              \/ PositionOf(Head(queue)) = Reached + 1
<1>1. /\ Len(stored) \in Nat
      /\ Row(Head(queue)) \in Rows
    BY HeadPosition, LenProperties DEF OutboxInv, Typed, Row, Rows, Messages
<1>2. Len(Append(stored, Row(Head(queue)))) = Len(stored) + 1
    BY <1>1, AppendProperties DEF OutboxInv, Typed
<1>3. Reached \in Nat
    BY <1>1 DEF Reached, OutboxInv, Typed
<1>4. \/ Reached = Len(stored)
      \/ Committed /\ Reached + 1 = Len(stored)
    BY <1>1 DEF Reached, OutboxInv, Ordering, ProjectionSound
<1> QED BY <1>1, <1>2, <1>3, <1>4, HeadPosition

\* The row of the next message keeps the outbox in order.
LEMMA EmittedInOrder ==
    ASSUME OutboxInv, queue # <<>>
    PROVE  LET s == Emitted(Head(queue))
           IN  /\ s \in Seq(Rows)
               /\ s # <<>>
               /\ Len(s) \in Nat /\ Len(s) >= 1
               /\ s[Len(s)] = Row(queue[1])
               /\ \A i, j \in 1..Len(s) : i < j => s[i].id < s[j].id
               /\ \A i \in 1..Len(s) : i <= s[i].id /\ s[i].id <= made
               /\ \A i \in 1..Len(s) : i < Len(s) => s[i].id < queue[1].id
<1> DEFINE r == Row(Head(queue))
<1>1. /\ Head(queue) = queue[1]
      /\ queue[1] \in Messages
      /\ r \in Rows /\ r.id = queue[1].id
      /\ Len(stored) \in Nat
      /\ stored \in Seq(Rows)
      /\ made \in Nat /\ queue[1].id \in Nat /\ queue[1].id >= 1
      /\ \A i \in 1..Len(stored) : stored[i] \in Rows /\ stored[i].id \in Nat
    <2>1. /\ Head(queue) = queue[1]
          /\ queue[1] \in Messages
          /\ made \in Nat
          /\ stored \in Seq(Rows)
        BY HeadPosition DEF OutboxInv, Typed
    <2>2. /\ queue[1].id \in Nat /\ queue[1].id >= 1
          /\ r \in Rows /\ r.id = queue[1].id
        BY <2>1 DEF Row, Rows, Messages
    <2>3. /\ Len(stored) \in Nat
          /\ \A i \in 1..Len(stored) : stored[i] \in Rows
        BY <2>1, LenProperties, ElementOfSeq
    <2> HIDE DEF r
    <2> QED BY <2>1, <2>2, <2>3, FieldTypes
<1>2. queue[1].id <= made
    BY HeadPosition, LenProperties DEF OutboxInv, Typed, Ordering, QueuedInOrder
<1>3. /\ \A i, j \in 1..Len(stored) : i < j => stored[i].id < stored[j].id
      /\ \A i \in 1..Len(stored) : i <= stored[i].id /\ stored[i].id <= made
    BY DEF OutboxInv, Ordering, StoredInOrder
<1>4. CASE Committed /\ Emitted(Head(queue)) = stored
    <2>1. /\ Len(stored) >= 1
          /\ stored[Len(stored)] = r
        BY <1>4, <1>1, EmptySeq DEF Committed
    <2> QED BY <1>1, <1>3, <1>4, <2>1 DEF Committed
<1>5. CASE /\ Emitted(Head(queue)) = Append(stored, r)
           /\ \A i \in 1..Len(stored) : stored[i].id < queue[1].id
    <2> DEFINE t == Append(stored, r)
    <2>1. /\ t \in Seq(Rows)
          /\ t # <<>>
          /\ Len(t) = Len(stored) + 1
          /\ \A i \in 1..Len(stored) : t[i] = stored[i]
          /\ t[Len(stored) + 1] = r
        BY <1>1, AppendProperties
    <2>2. \A i \in 1..Len(t) : i \in 1..Len(stored) \/ i = Len(stored) + 1
        BY <2>1, <1>1
    <2>3. Len(stored) + 1 <= queue[1].id
        <3>1. CASE Len(stored) = 0
            BY <3>1, <1>1
        <3>2. CASE Len(stored) # 0
            BY <3>2, <1>1, <1>3, <1>5
        <3> QED BY <3>1, <3>2
    <2>4. \A i, j \in 1..Len(t) : i < j => t[i].id < t[j].id
        BY <1>1, <1>3, <1>5, <2>1, <2>2
    <2>5. \A i \in 1..Len(t) : i <= t[i].id /\ t[i].id <= made
        BY <1>1, <1>2, <1>3, <2>1, <2>2, <2>3
    <2> HIDE DEF t
    <2>6. Emitted(Head(queue)) = t
        BY <1>5 DEF t
    <2>7. \A i \in 1..Len(t) : i < Len(t) => t[i].id < queue[1].id
        BY <1>1, <1>5, <2>1, <2>2
    <2> QED BY <1>1, <2>1, <2>4, <2>5, <2>6, <2>7
<1> QED BY <1>4, <1>5, HeadPosition

\* Messages with the next identities go to the end of the queue.
LEMMA EnqueueKeeps ==
    ASSUME OutboxInv, NEW messages \in Seq(Messages),
           \A i \in 1..Len(messages) : messages[i].id = made + i,
           Enqueue(messages), UNCHANGED <<stored, warm, cursor>>
    PROVE  /\ queue' \in Seq(Messages)
           /\ made' \in Nat
           /\ worker' \in {"none", "waiting", "expired", "retrying"}
           /\ made' = made + Len(messages)
           /\ Ordering'
<1>1. /\ queue \in Seq(Messages) /\ Len(queue) \in Nat
      /\ Len(messages) \in Nat
      /\ made \in Nat
      /\ worker \in {"none", "waiting", "expired", "retrying"}
      /\ stored \in Seq(Rows) /\ Len(stored) \in Nat
    BY LenProperties DEF OutboxInv, Typed
<1>2. /\ queue' \in Seq(Messages)
      /\ Len(queue') = Len(queue) + Len(messages)
      /\ \A i \in 1..Len(queue) : queue'[i] = queue[i]
      /\ \A i \in 1..Len(queue') :
            i > Len(queue) => queue'[i] = messages[i - Len(queue)]
    BY <1>1, ConcatProperties DEF Enqueue
<1>3. /\ made' = made + Len(messages) /\ made' \in Nat
      /\ worker' \in {"none", "waiting", "expired", "retrying"}
      /\ worker' = "none" => FALSE
      /\ worker' = "retrying" <=> worker = "retrying"
    BY <1>1 DEF Enqueue
<1>4. \A i \in 1..Len(queue') :
        IF i \in 1..Len(queue) THEN queue'[i].id = queue[i].id
        ELSE queue'[i].id = made + (i - Len(queue)) /\ i > Len(queue)
    <2> SUFFICES ASSUME NEW i \in 1..Len(queue'), i \notin 1..Len(queue)
                 PROVE  queue'[i].id = made + (i - Len(queue)) /\ i > Len(queue)
        BY <1>2
    <2>1. i > Len(queue) /\ i - Len(queue) \in 1..Len(messages)
        BY <1>1, <1>2
    <2> QED BY <1>2, <2>1
<1>5. /\ \A i, j \in 1..Len(queue) : i < j => queue[i].id < queue[j].id
      /\ \A j \in 1..Len(queue) : queue[j].id <= made
      /\ \A j \in 1..Len(queue) : queue[j].id \in Nat
    BY <1>1, ElementOfSeq, FieldTypes DEF OutboxInv, Ordering, QueuedInOrder
<1>6. QueuedInOrder'
    <2>1. ASSUME NEW j \in 1..Len(queue')
          PROVE  queue'[j].id <= made'
        <3>1. CASE j \in 1..Len(queue)
            <4>1. queue'[j].id = queue[j].id /\ queue[j].id <= made /\ queue[j].id \in Nat
                BY <1>4, <1>5, <3>1
            <4> QED BY <1>1, <1>3, <4>1
        <3>2. CASE j \notin 1..Len(queue)
            <4>1. queue'[j].id = made + (j - Len(queue))
                BY <1>4, <3>2
            <4>2. j \in Int /\ j <= Len(queue) + Len(messages)
                BY <1>1, <1>2
            <4> QED BY <1>1, <1>3, <4>1, <4>2
        <3> QED BY <3>1, <3>2
    <2>2. \A i, j \in 1..Len(queue') : i < j => queue'[i].id < queue'[j].id
        <3> SUFFICES ASSUME NEW i \in 1..Len(queue'), NEW j \in 1..Len(queue'), i < j
                     PROVE  queue'[i].id < queue'[j].id
            OBVIOUS
        <3>1. CASE j \in 1..Len(queue)
            BY <1>1, <1>2, <1>4, <1>5, <3>1
        <3>2. CASE j \notin 1..Len(queue) /\ i \in 1..Len(queue)
            <4>1. queue'[i].id = queue[i].id /\ queue[i].id <= made /\ queue[i].id \in Nat
                BY <1>4, <1>5, <3>2
            <4>2. queue'[j].id = made + (j - Len(queue)) /\ j > Len(queue)
                BY <1>4, <3>2
            <4> QED BY <1>1, <4>1, <4>2
        <3>3. CASE j \notin 1..Len(queue) /\ i \notin 1..Len(queue)
            BY <1>1, <1>2, <1>4, <3>3
        <3> QED BY <3>1, <3>2, <3>3
    <2> QED BY <2>1, <2>2 DEF QueuedInOrder
<1>7. WorkerMatchesQueue'
    <2>1. worker = "retrying" => Len(queue) > 0
        BY <1>1, EmptySeq DEF OutboxInv, Ordering, WorkerMatchesQueue
    <2>2. worker' = "retrying" => Len(queue') > 0
        BY <1>1, <1>2, <1>3, <2>1
    <2>3. worker' = "retrying" => queue' # <<>>
        BY <1>2, <2>2, EmptySeq
    <2> QED BY <1>3, <2>3 DEF WorkerMatchesQueue
<1>8. /\ stored' = stored /\ warm' = warm /\ cursor' = cursor
      /\ \A i \in 1..Len(stored) : stored[i].id <= made
      /\ \A i \in 1..Len(stored) : stored[i].id \in Nat
    BY <1>1, ElementOfSeq, FieldTypes DEF OutboxInv, Ordering, StoredInOrder
<1>9. Committed' <=> Committed
    <2>1. worker = "retrying" => 1 \in 1..Len(queue)
        BY <1>1, EmptySeq DEF OutboxInv, Ordering, WorkerMatchesQueue
    <2>2. worker = "retrying" => queue'[1] = queue[1]
        BY <1>2, <2>1
    <2> QED BY <1>3, <1>8, <2>2 DEF Committed, Row
<1>10. StoredInOrder'
    BY <1>1, <1>3, <1>8 DEF OutboxInv, Ordering, StoredInOrder
<1>11. QueuedAfterStored'
    <2> SUFFICES ASSUME NEW i \in 1..Len(stored), NEW j \in 1..Len(queue')
                 PROVE  \/ stored[i].id < queue'[j].id
                        \/ Committed /\ i = Len(stored) /\ j = 1
        BY <1>8, <1>9 DEF QueuedAfterStored
    <2>1. CASE j \in 1..Len(queue)
        BY <1>4, <2>1 DEF OutboxInv, Ordering, QueuedAfterStored
    <2>2. CASE j \notin 1..Len(queue)
        BY <1>1, <1>4, <1>8, <2>2
    <2> QED BY <2>1, <2>2
<1>12. ProjectionSound'
    BY <1>8, <1>9 DEF OutboxInv, Ordering, ProjectionSound
<1> QED BY <1>2, <1>3, <1>6, <1>7, <1>10, <1>11, <1>12 DEF Ordering

\* The messages that accept() makes.
AcceptedMessages(kind) ==
    IF ~routed /\ capacity # 0
    THEN <<CapacityNote(made + 1, capacity), [Note(kind) EXCEPT !.id = made + 2]>>
    ELSE <<Note(kind)>>

LEMMA AcceptedSound ==
    ASSUME Typed, NEW kind \in Kinds \ {"capacity"}, Room(2)
    PROVE  /\ AcceptedMessages(kind) \in Seq(Messages)
           /\ Len(AcceptedMessages(kind)) \in 1..2
           /\ \A i \in 1..Len(AcceptedMessages(kind)) :
                AcceptedMessages(kind)[i].id = made + i
<1>1. /\ made \in Nat /\ capacity \in 0..MaxCapacity
      /\ Len(fans) \in Nat
      /\ made + 2 <= MaxMessages
      /\ MaxMessages \in Nat /\ MaxCapacity \in Nat
    BY LenProperties, NotificationStreamAssumption DEF Typed, Room
<1> DEFINE a == CapacityNote(made + 1, capacity)
           b == [Note(kind) EXCEPT !.id = made + 2]
           c == Note(kind)
<1>2. /\ a \in Messages /\ a.id = made + 1
      /\ b \in Messages /\ b.id = made + 2
      /\ c \in Messages /\ c.id = made + 1
    BY <1>1 DEF CapacityNote, Note, Messages, Kinds
<1>3. AcceptedMessages(kind) = IF ~routed /\ capacity # 0 THEN <<a, b>> ELSE <<c>>
    BY DEF AcceptedMessages
<1> HIDE DEF a, b, c
<1>4. CASE ~routed /\ capacity # 0
    BY <1>1, <1>2, <1>3, <1>4
<1>5. CASE ~(~routed /\ capacity # 0)
    BY <1>1, <1>2, <1>3, <1>5
<1> QED BY <1>4, <1>5

LEMMA NoteOfCapacity ==
    ASSUME Typed, NEW v \in 0..MaxCapacity, made + 1 <= MaxMessages
    PROVE  /\ <<CapacityNote(made + 1, v)>> \in Seq(Messages)
           /\ Len(<<CapacityNote(made + 1, v)>>) = 1
           /\ \A i \in 1..1 : <<CapacityNote(made + 1, v)>>[i].id = made + i
           /\ <<CapacityNote(made + 1, v)>>[1].capacity = v
<1> DEFINE a == CapacityNote(made + 1, v)
<1>1. a \in Messages /\ a.id = made + 1 /\ a.capacity = v
    BY DEF CapacityNote, Messages, Kinds, Typed
<1> HIDE DEF a
<1>2. /\ <<a>> \in Seq(Messages) /\ Len(<<a>>) = 1 /\ <<a>>[1] = a
    BY <1>1
<1> QED BY <1>1, <1>2 DEF a

LEMMA AcceptKeeps ==
    ASSUME OutboxInv, NEW kind \in Kinds \ {"capacity"}, Accept(kind)
    PROVE  OutboxInv'
<1>1. /\ AcceptedMessages(kind) \in Seq(Messages)
      /\ Len(AcceptedMessages(kind)) \in 1..2
      /\ \A i \in 1..Len(AcceptedMessages(kind)) :
            AcceptedMessages(kind)[i].id = made + i
    BY AcceptedSound DEF OutboxInv, Accept
<1>2. Enqueue(AcceptedMessages(kind))
    BY DEF Accept, AcceptedMessages
<1>3. UNCHANGED <<stored, warm, cursor>>
    BY DEF Accept, manager
<1>4. /\ queue' \in Seq(Messages)
      /\ made' \in Nat
      /\ worker' \in {"none", "waiting", "expired", "retrying"}
      /\ made' = made + Len(AcceptedMessages(kind))
      /\ Ordering'
    BY <1>1, <1>2, <1>3, EnqueueKeeps
<1>5. made' + Len(fans') <= MaxMessages
    <2>1. Len(fans) \in Nat /\ made \in Nat /\ fans' = fans
        BY LenProperties DEF OutboxInv, Typed, Accept
    <2>2. made + Len(fans) + 2 <= MaxMessages
        BY DEF Accept, Room
    <2> QED BY <1>1, <1>4, <2>1, <2>2, NotificationStreamAssumption
<1>6. Typed'
    BY <1>3, <1>4, <1>5 DEF OutboxInv, Typed, Accept, manager, bounds
<1> QED BY <1>4, <1>6 DEF OutboxInv

\* What a step leaves alone.
LEMMA OrderingCarries ==
    ASSUME OutboxInv, UNCHANGED <<queue, made, stored, warm, cursor, worker>>
    PROVE  Ordering'
BY DEF OutboxInv, Ordering, WorkerMatchesQueue, QueuedInOrder, StoredInOrder,
       QueuedAfterStored, ProjectionSound, Committed, Row

LEMMA CapacityChangedKeeps ==
    ASSUME OutboxInv, CapacityChanged
    PROVE  OutboxInv'
<1>1. UNCHANGED <<queue, made, stored, warm, cursor, worker>>
    BY DEF CapacityChanged, manager
<1>2. /\ capacity' \in 0..MaxCapacity
      /\ capacity' = capacity + 1
      /\ made + Len(fans) + 1 <= MaxMessages
      /\ made \in Nat /\ fans \in Seq(0..MaxCapacity) /\ Len(fans) \in Nat
    BY LenProperties, NotificationStreamAssumption
       DEF CapacityChanged, Room, OutboxInv, Typed
<1>3. /\ fans' \in Seq(0..MaxCapacity)
      /\ Len(fans') <= Len(fans) + 1
      /\ Len(fans') \in Nat
    <2>1. CASE routed
        <3>1. fans' = Append(fans, capacity')
            BY <1>2, <2>1 DEF CapacityChanged
        <3> QED BY <1>2, <3>1, AppendProperties
    <2>2. CASE ~routed
        BY <1>2, <2>2 DEF CapacityChanged
    <2> QED BY <2>1, <2>2
<1>4. made' + Len(fans') <= MaxMessages
    BY <1>1, <1>2, <1>3, NotificationStreamAssumption
<1>5. Typed'
    BY <1>1, <1>2, <1>3, <1>4 DEF OutboxInv, Typed, CapacityChanged, manager, bounds
<1> QED BY <1>1, <1>5, OrderingCarries DEF OutboxInv

LEMMA FanOutKeeps ==
    ASSUME OutboxInv, FanOut
    PROVE  OutboxInv'
<1>1. /\ made \in Nat /\ fans \in Seq(0..MaxCapacity) /\ Len(fans) \in Nat
      /\ Head(fans) \in 0..MaxCapacity
      /\ fans' \in Seq(0..MaxCapacity)
      /\ Len(fans') = Len(fans) - 1
      /\ Len(fans') \in Nat
      /\ made + Len(fans) <= MaxMessages
    BY HeadTailProperties, LenProperties DEF FanOut, OutboxInv, Typed
<1>2. made + 1 <= MaxMessages
    BY <1>1, NotificationStreamAssumption
<1> DEFINE m == <<CapacityNote(made + 1, Head(fans))>>
<1>3. m \in Seq(Messages) /\ Len(m) = 1 /\ \A i \in 1..Len(m) : m[i].id = made + i
    BY <1>1, <1>2, NoteOfCapacity DEF OutboxInv
<1>4. Enqueue(m) /\ UNCHANGED <<stored, warm, cursor>>
    BY DEF FanOut, manager
<1> HIDE DEF m
<1>5. /\ queue' \in Seq(Messages)
      /\ made' \in Nat
      /\ worker' \in {"none", "waiting", "expired", "retrying"}
      /\ made' = made + Len(m)
      /\ Ordering'
    BY <1>3, <1>4, EnqueueKeeps
<1>6. made' + Len(fans') <= MaxMessages
    BY <1>1, <1>3, <1>5, NotificationStreamAssumption
<1>7. Typed'
    BY <1>1, <1>4, <1>5, <1>6 DEF OutboxInv, Typed, FanOut, manager, bounds
<1> QED BY <1>5, <1>7 DEF OutboxInv

LEMMA WatchKeeps ==
    ASSUME OutboxInv, NEW c \in Clients, Watch(c)
    PROVE  OutboxInv'
<1>1. /\ made \in Nat /\ fans' = fans /\ Len(fans) \in Nat
      /\ capacity \in 0..MaxCapacity
      /\ made + Len(fans) + 1 <= MaxMessages
    BY LenProperties DEF Watch, Room, OutboxInv, Typed
<1>2. made + 1 <= MaxMessages
    BY <1>1, NotificationStreamAssumption
<1> DEFINE m == <<CapacityNote(made + 1, capacity)>>
<1>3. m \in Seq(Messages) /\ Len(m) = 1 /\ \A i \in 1..Len(m) : m[i].id = made + i
    BY <1>1, <1>2, NoteOfCapacity DEF OutboxInv
<1>4. Enqueue(m) /\ UNCHANGED <<stored, warm, cursor>>
    BY DEF Watch, manager
<1> HIDE DEF m
<1>5. /\ queue' \in Seq(Messages)
      /\ made' \in Nat
      /\ worker' \in {"none", "waiting", "expired", "retrying"}
      /\ made' = made + Len(m)
      /\ Ordering'
    BY <1>3, <1>4, EnqueueKeeps
<1>6. made' + Len(fans') <= MaxMessages
    BY <1>1, <1>3, <1>5, NotificationStreamAssumption
<1>7. Typed'
    BY <1>4, <1>5, <1>6 DEF OutboxInv, Typed, Watch, manager, bounds
<1> QED BY <1>5, <1>7 DEF OutboxInv

\* The worker takes its message off the queue once it is in the outbox.
LEMMA SendKeeps ==
    ASSUME OutboxInv, Send
    PROVE  /\ OutboxInv'
           /\ warm'
           /\ cursor' = Len(stored')
           /\ cursor' \in {Reached, Reached + 1}
           /\ Reached \in Nat
           /\ stored' = Emitted(Head(queue))
<1> DEFINE s == Emitted(Head(queue))
<1>1. /\ queue # <<>>
      /\ queue' = Tail(queue)
      /\ stored' = s
      /\ worker' = "waiting"
      /\ warm' = TRUE
      /\ cursor' \in {Reached, PositionOf(Head(queue))}
      /\ PositionOf(Head(queue)) <= Reached => cursor' = Reached
      /\ ~(PositionOf(Head(queue)) <= Reached) => cursor' = PositionOf(Head(queue))
      /\ made' = made
    BY DEF Send, Sent
<1>2. /\ PositionOf(Head(queue)) = Len(s)
      /\ Reached \in Nat
      /\ PositionOf(Head(queue)) \in Nat
      /\ \/ PositionOf(Head(queue)) = Reached
         \/ PositionOf(Head(queue)) = Reached + 1
    BY <1>1, HeadComesNext
<1>3. /\ s \in Seq(Rows)
      /\ Len(s) \in Nat
      /\ \A i, j \in 1..Len(s) : i < j => s[i].id < s[j].id
      /\ \A i \in 1..Len(s) : i <= s[i].id /\ s[i].id <= made
      /\ s[Len(s)] = Row(queue[1])
      /\ \A i \in 1..Len(s) : i < Len(s) => s[i].id < queue[1].id
    BY <1>1, EmittedInOrder
<1> HIDE DEF s
<1>4. cursor' = Len(stored') /\ cursor' \in {Reached, Reached + 1} /\ cursor' \in Nat
    BY <1>1, <1>2
<1>5. /\ Len(queue) \in Nat /\ Len(queue) >= 1
      /\ queue' \in Seq(Messages)
      /\ Len(queue') = Len(queue) - 1
      /\ \A i \in 1..Len(queue') : queue'[i] = queue[i + 1] /\ i + 1 \in 1..Len(queue)
      /\ queue[1] \in Messages
    <2>1. /\ queue \in Seq(Messages) /\ queue # <<>>
          /\ Len(queue) \in Nat /\ Len(queue) >= 1
          /\ queue[1] \in Messages
        BY <1>1, HeadPosition, LenProperties DEF OutboxInv, Typed
    <2> QED BY <1>1, <2>1, HeadTailProperties
<1>6. QueuedInOrder'
    BY <1>1, <1>5 DEF OutboxInv, Ordering, QueuedInOrder
<1>7. WorkerMatchesQueue'
    BY <1>1 DEF WorkerMatchesQueue
<1>8. StoredInOrder'
    BY <1>1, <1>3 DEF StoredInOrder
<1>9. QueuedAfterStored'
    <2> SUFFICES ASSUME NEW i \in 1..Len(s), NEW j \in 1..Len(queue')
                 PROVE  s[i].id < queue'[j].id
        BY <1>1 DEF QueuedAfterStored
    <2>1. queue'[j] = queue[j + 1] /\ queue[1].id < queue[j + 1].id
        <3>1. j + 1 \in 1..Len(queue) /\ 1 \in 1..Len(queue) /\ 1 < j + 1
            BY <1>5
        <3> QED BY <1>5, <3>1 DEF OutboxInv, Ordering, QueuedInOrder
    <2>2. s[i].id <= queue[1].id
        <3>1. queue[1].id \in Nat /\ Row(queue[1]).id = queue[1].id
            BY <1>5, FieldTypes
        <3>2. s[i] \in Rows /\ s[i].id \in Nat
            BY <1>3, ElementOfSeq, FieldTypes
        <3>3. CASE i = Len(s)
            BY <3>1, <3>3, <1>3
        <3>4. CASE i # Len(s)
            <4>1. i < Len(s)
                BY <3>4, <1>3
            <4> QED BY <1>3, <3>1, <3>2, <4>1
        <3> QED BY <3>3, <3>4
    <2>3. /\ s[i].id \in Nat /\ queue[1].id \in Nat
          /\ j + 1 \in 1..Len(queue)
          /\ queue[j + 1].id \in Nat
        <3>1. queue[j + 1] \in Messages /\ s[i] \in Rows /\ j + 1 \in 1..Len(queue)
            BY <1>3, <1>5, ElementOfSeq DEF OutboxInv, Typed
        <3> QED BY <1>5, <3>1, FieldTypes
    <2> QED BY <2>1, <2>2, <2>3
<1>10. ProjectionSound'
    <2>1. warm'
        BY <1>1
    <2> QED BY <1>4, <2>1 DEF ProjectionSound
<1>11. Typed'
    <2>1. /\ UNCHANGED <<made, capacity, fans, dropped, bounds>>
          /\ terminal' \in BOOLEAN /\ routed' \in BOOLEAN /\ late' \in BOOLEAN
        BY DEF Send, Retire, OutboxInv, Typed
    <2> QED BY <1>1, <1>3, <1>4, <1>5, <2>1 DEF OutboxInv, Typed, bounds
<1> QED BY <1>1, <1>2, <1>4, <1>6, <1>7, <1>8, <1>9, <1>10, <1>11
        DEF OutboxInv, Ordering, s

\* What fails is tried again, and its row can be in the outbox meanwhile.
LEMMA SendFailsKeeps ==
    ASSUME OutboxInv, SendFails
    PROVE  /\ OutboxInv'
           /\ stored' \in {stored, Emitted(Head(queue))}
           /\ warm' => cursor' = Reached
           /\ warm => warm' /\ cursor' = cursor
<1> DEFINE s == Emitted(Head(queue))
<1>1. /\ queue # <<>>
      /\ worker' = "retrying"
      /\ stored' \in {stored, s}
      /\ UNCHANGED <<queue, made, capacity, fans, routed, late, terminal,
                     dropped, restarts>>
      /\ troubles' = troubles + 1 /\ troubles < MaxTroubles
      /\ warm' \in BOOLEAN
      /\ warm' => cursor' = Reached
      /\ ~warm' => ~warm /\ cursor' = cursor /\ stored' = stored
      /\ warm => warm' /\ cursor' = cursor
    <2>1. warm \in BOOLEAN
        BY DEF OutboxInv, Typed
    <2>2. CASE ~warm /\ UNCHANGED <<stored, warm, cursor>>
        BY <2>1, <2>2 DEF SendFails, Trouble
    <2>3. CASE stored' \in {stored, s} /\ warm' = TRUE /\ cursor' = Reached
        <3>1. warm => cursor' = cursor
            BY <2>3 DEF Reached
        <3> HIDE DEF s
        <3> QED BY <2>1, <2>3, <3>1 DEF SendFails, Trouble
    <2> QED BY <2>2, <2>3 DEF SendFails
<1>2. /\ s \in Seq(Rows)
      /\ s # <<>>
      /\ Len(s) \in Nat
      /\ \A i, j \in 1..Len(s) : i < j => s[i].id < s[j].id
      /\ \A i \in 1..Len(s) : i <= s[i].id /\ s[i].id <= made
      /\ s[Len(s)] = Row(queue[1])
      /\ \A i \in 1..Len(s) : i < Len(s) => s[i].id < queue[1].id
    BY <1>1, EmittedInOrder
<1>3. /\ Head(queue) = queue[1]
      /\ queue[1] \in Messages
      /\ queue \in Seq(Messages)
      /\ stored \in Seq(Rows)
      /\ Len(stored) \in Nat
      /\ Len(queue) \in Nat /\ Len(queue) >= 1
    BY <1>1, HeadPosition, LenProperties DEF OutboxInv, Typed
<1>4. /\ Reached \in Nat
      /\ Reached = Len(s) \/ Reached + 1 = Len(s)
    BY <1>1, HeadComesNext
<1>5. Len(stored) <= Len(s) /\ (s = stored \/ Len(s) = Len(stored) + 1)
    <2>1. Row(Head(queue)) \in Rows
        BY <1>3, FieldTypes
    <2> QED BY <1>1, <1>3, <2>1, HeadPosition, AppendProperties
<1>6. \/ Reached = Len(stored)
      \/ Committed /\ Reached + 1 = Len(stored) /\ s = stored
    <2>1. Committed => s = stored
        BY <1>1, HeadPosition
    <2> QED BY <2>1 DEF Reached, OutboxInv, Ordering, ProjectionSound
<1>7. stored' \in Seq(Rows) /\ StoredInOrder'
    BY <1>1, <1>2, <1>3 DEF OutboxInv, Ordering, StoredInOrder
<1>8. stored' = s => Committed'
    BY <1>1, <1>2 DEF Committed, Row
<1>9. Committed => Committed'
    <2>1. Committed => s = stored
        BY <1>1, HeadPosition
    <2> QED BY <2>1, <1>1, <1>8
<1> HIDE DEF s
<1>10. QueuedAfterStored'
    <2> SUFFICES ASSUME NEW i \in 1..Len(stored'), NEW j \in 1..Len(queue)
                 PROVE  \/ stored'[i].id < queue[j].id
                        \/ Committed' /\ i = Len(stored') /\ j = 1
        BY <1>1 DEF QueuedAfterStored
    <2>1. CASE stored' = stored
        BY <2>1, <1>9 DEF OutboxInv, Ordering, QueuedAfterStored
    <2>2. CASE stored' = s
        <3>1. /\ queue[1].id \in Nat /\ queue[j].id \in Nat /\ s[i].id \in Nat
              /\ Row(queue[1]).id = queue[1].id
            <4>1. queue[j] \in Messages /\ s[i] \in Rows
                BY <1>2, <1>3, <2>2, ElementOfSeq
            <4> QED BY <4>1, <1>3, FieldTypes
        <3>2. j # 1 => queue[1].id < queue[j].id
            BY <1>3 DEF OutboxInv, Ordering, QueuedInOrder
        <3>3. i = Len(s) \/ s[i].id < queue[1].id
            BY <1>2, <2>2
        <3>4. i = Len(s) => s[i].id = queue[1].id
            BY <1>2, <3>1
        <3>5. CASE j = 1
            BY <3>3, <3>5, <2>2, <1>8
        <3>6. CASE j # 1
            BY <3>1, <3>2, <3>3, <3>4, <3>6, <2>2
        <3> QED BY <3>5, <3>6
    <2> QED BY <2>1, <2>2, <1>1
<1>11. ProjectionSound'
    <2>0. ~warm' => cursor' = 0
        BY <1>1 DEF OutboxInv, Ordering, ProjectionSound
    <2> SUFFICES ASSUME warm'
                 PROVE  \/ cursor' = Len(stored')
                        \/ Committed' /\ cursor' + 1 = Len(stored')
        BY <2>0 DEF ProjectionSound
    <2>1. CASE stored' = stored
        BY <2>1, <1>1, <1>6, <1>9
    <2>2. CASE stored' = s
        BY <2>2, <1>1, <1>4, <1>8
    <2> QED BY <2>1, <2>2, <1>1
<1>12. Typed'
    <2>1. cursor' \in Nat
        BY <1>1, <1>4 DEF OutboxInv, Typed
    <2>2. troubles' \in 0..MaxTroubles
        BY <1>1, NotificationStreamAssumption DEF OutboxInv, Typed
    <2> QED BY <1>1, <1>7, <2>1, <2>2 DEF OutboxInv, Typed
<1>13. WorkerMatchesQueue' /\ QueuedInOrder'
    BY <1>1 DEF OutboxInv, Ordering, WorkerMatchesQueue, QueuedInOrder
<1> QED BY <1>1, <1>7, <1>10, <1>11, <1>12, <1>13 DEF OutboxInv, Ordering, s

LEMMA ExpireKeeps ==
    ASSUME OutboxInv, Expire \/ Expired
    PROVE  OutboxInv' /\ UNCHANGED <<stored, warm, cursor>>
<1>1. CASE Expire
    <2>1. /\ UNCHANGED <<queue, made, stored, warm, cursor>>
          /\ worker = "waiting" /\ worker' = "expired"
          /\ troubles' \in 0..MaxTroubles
        BY <1>1, NotificationStreamAssumption
           DEF Expire, Trouble, manager, OutboxInv, Typed
    <2>2. ~Committed
        BY <2>1 DEF Committed
    <2>3. Ordering'
        BY <2>1, <2>2 DEF OutboxInv, Ordering, WorkerMatchesQueue, QueuedInOrder,
            StoredInOrder, QueuedAfterStored, ProjectionSound
    <2>4. Typed'
        BY <1>1, <2>1 DEF OutboxInv, Typed, Expire
    <2> QED BY <2>1, <2>3, <2>4 DEF OutboxInv
<1>2. CASE Expired
    <2>1. /\ UNCHANGED <<made, stored, warm, cursor>>
          /\ queue' = <<>> /\ worker = "expired" /\ worker' = "none"
          /\ Len(queue') = 0
        BY <1>2 DEF Expired, manager
    <2>2. ~Committed
        BY <2>1 DEF Committed
    <2>3. Ordering'
        BY <2>1, <2>2 DEF OutboxInv, Ordering, WorkerMatchesQueue, QueuedInOrder,
            StoredInOrder, QueuedAfterStored, ProjectionSound
    <2>4. dropped' \subseteq 1..MaxMessages
        <3>1. \A i \in DOMAIN queue : queue[i].id \in 1..MaxMessages
            <4>1. \A i \in DOMAIN queue : queue[i] \in Messages
                BY LenProperties, ElementOfSeq DEF OutboxInv, Typed
            <4> QED BY <4>1 DEF Messages
        <3> QED BY <1>2, <3>1 DEF Expired, OutboxInv, Typed
    <2>5. queue' \in Seq(Messages) /\ terminal' \in BOOLEAN
        BY <1>2, <2>1 DEF OutboxInv, Typed, Expired
    <2>6. UNCHANGED <<capacity, fans, late, routed, bounds>>
        BY <1>2 DEF Expired
    <2>7. Typed'
        BY <2>1, <2>4, <2>5, <2>6 DEF OutboxInv, Typed, bounds
    <2> QED BY <2>1, <2>3, <2>7 DEF OutboxInv
<1> QED BY <1>1, <1>2

LEMMA ForgetKeeps ==
    ASSUME OutboxInv, Forget
    PROVE  OutboxInv'
<1>1. /\ UNCHANGED <<queue, worker, made, stored>>
      /\ warm' = FALSE /\ cursor' = 0
    BY DEF Forget, consumer
<1>2. Ordering'
    BY <1>1 DEF OutboxInv, Ordering, WorkerMatchesQueue, QueuedInOrder, StoredInOrder,
        QueuedAfterStored, ProjectionSound, Committed, Row
<1>3. UNCHANGED <<capacity, fans, routed, late, terminal, dropped, troubles, restarts>>
    BY DEF Forget, consumer, bounds
<1>4. Typed'
    BY <1>1, <1>3 DEF OutboxInv, Typed
<1> QED BY <1>2, <1>4 DEF OutboxInv

LEMMA RestartKeeps ==
    ASSUME OutboxInv, Restart
    PROVE  OutboxInv'
<1>1. /\ UNCHANGED <<made, stored, troubles>>
      /\ queue' = <<>> /\ worker' = "none" /\ Len(queue') = 0
      /\ warm' = FALSE /\ cursor' = 0
      /\ fans' = <<>> /\ Len(fans') = 0
      /\ capacity' = 0 /\ late' = FALSE /\ terminal' = FALSE /\ routed' = FALSE
    BY DEF Restart
<1>2. Ordering'
    BY <1>1 DEF OutboxInv, Ordering, WorkerMatchesQueue, QueuedInOrder, StoredInOrder,
        QueuedAfterStored, ProjectionSound
<1>3. dropped' \subseteq 1..MaxMessages
    <2>1. \A i \in DOMAIN queue : queue[i].id \in 1..MaxMessages
        <3>1. \A i \in DOMAIN queue : queue[i] \in Messages
            BY LenProperties, ElementOfSeq DEF OutboxInv, Typed
        <3> QED BY <3>1 DEF Messages
    <2> QED BY <2>1 DEF Restart, OutboxInv, Typed
<1>4. restarts' \in 0..MaxRestarts
    BY NotificationStreamAssumption DEF Restart, OutboxInv, Typed
<1>5. made + Len(fans') <= MaxMessages
    BY <1>1, LenProperties, NotificationStreamAssumption DEF OutboxInv, Typed
<1>6. queue' \in Seq(Messages) /\ fans' \in Seq(0..MaxCapacity) /\ capacity' \in 0..MaxCapacity
    BY <1>1, NotificationStreamAssumption
<1>7. Typed'
    BY <1>1, <1>3, <1>4, <1>5, <1>6 DEF OutboxInv, Typed
<1> QED BY <1>2, <1>7 DEF OutboxInv

\* A snapshot rebuilds the projection; the other steps of a stream leave what
\* is queued and stored alone.
LEMMA SnapshotKeeps ==
    ASSUME OutboxInv, NEW c \in Clients, Snapshot(c)
    PROVE  OutboxInv'
<1>1. /\ UNCHANGED <<queue, worker, made, stored>>
      /\ warm' = TRUE /\ cursor' = Reached
    BY DEF Snapshot, consumer
<1>2. Len(stored) \in Nat
    BY LenProperties DEF OutboxInv, Typed
<1>3. Committed' <=> Committed
    BY <1>1 DEF Committed, Row
<1>4. ProjectionSound'
    BY <1>1, <1>2, <1>3 DEF Reached, OutboxInv, Ordering, ProjectionSound, Typed
<1>5. Ordering'
    BY <1>1, <1>3, <1>4 DEF OutboxInv, Ordering, WorkerMatchesQueue, QueuedInOrder,
        StoredInOrder, QueuedAfterStored
<1>6. cursor' \in Nat
    BY <1>1, <1>2 DEF Reached, OutboxInv, Typed
<1>7. Typed'
    BY <1>1, <1>6 DEF OutboxInv, Typed, Snapshot, consumer, bounds
<1> QED BY <1>5, <1>7 DEF OutboxInv

LEMMA StreamStepKeeps ==
    ASSUME OutboxInv, NEW c \in Clients,
           \/ SnapshotFails(c) \/ TakePushed(c) \/ Replay(c) \/ SendPage(c)
           \/ Dismissed(c) \/ Leave(c)
    PROVE  /\ OutboxInv'
           /\ UNCHANGED <<queue, made, stored, warm, cursor, worker>>
<1>1. UNCHANGED <<queue, made, stored, warm, cursor, worker>>
    BY DEF SnapshotFails, TakePushed, Replay, SendPage, Dismissed, Leave, Close,
           consumer, manager
<1>2. UNCHANGED <<capacity, fans, dropped, terminal>>
    BY DEF SnapshotFails, TakePushed, Replay, SendPage, Dismissed, Leave, Close,
           consumer
<1>3. routed' \in BOOLEAN /\ late' \in BOOLEAN
    BY DEF SnapshotFails, TakePushed, Replay, SendPage, Dismissed, Leave, Close,
           consumer, Retire, OutboxInv, Typed
<1>4. troubles' \in 0..MaxTroubles /\ restarts' \in 0..MaxRestarts
    <2>1. restarts' = restarts /\ (troubles' = troubles \/ Trouble)
        BY DEF SnapshotFails, TakePushed, Replay, SendPage, Dismissed, Leave, Close,
            bounds
    <2> QED BY <2>1, NotificationStreamAssumption DEF Trouble, OutboxInv, Typed
<1>5. Typed'
    BY <1>1, <1>2, <1>3, <1>4 DEF OutboxInv, Typed
<1> QED BY <1>1, <1>5, OrderingCarries DEF OutboxInv

\* The outbox and the projection stay in the order of acceptance.
LEMMA OutboxInductive == Spec => []OutboxInv
<1>1. Init => OutboxInv
    <2> SUFFICES ASSUME Init
                 PROVE  OutboxInv
        OBVIOUS
    <2>1. Typed
        <3>1. /\ queue = <<>> /\ fans = <<>> /\ stored = <<>> /\ Len(fans) = 0
              /\ queue \in Seq(Messages) /\ stored \in Seq(Rows)
              /\ fans \in Seq(0..MaxCapacity)
            BY DEF Init
        <3>2. made = 0 /\ capacity = 0 /\ cursor = 0 /\ troubles = 0 /\ restarts = 0
            BY DEF Init
        <3>3. /\ made \in Nat /\ cursor \in Nat /\ capacity \in 0..MaxCapacity
              /\ troubles \in 0..MaxTroubles /\ restarts \in 0..MaxRestarts
              /\ made + Len(fans) <= MaxMessages
            BY <3>1, <3>2, NotificationStreamAssumption
        <3>4. /\ worker = "none" /\ routed = FALSE /\ late = FALSE /\ terminal = FALSE
              /\ warm = FALSE /\ dropped = {}
            BY DEF Init
        <3> QED BY <3>1, <3>3, <3>4 DEF Typed
    <2>2. Ordering
        BY DEF Init, Ordering, WorkerMatchesQueue, QueuedInOrder, StoredInOrder,
            QueuedAfterStored, ProjectionSound
    <2> QED BY <2>1, <2>2 DEF OutboxInv
<1>2. OutboxInv /\ [Next]_vars => OutboxInv'
    <2> SUFFICES ASSUME OutboxInv, [Next]_vars
                 PROVE  OutboxInv'
        OBVIOUS
    <2>1. CASE \E kind \in Kinds \ {"capacity"} : Accept(kind)
        BY <2>1, AcceptKeeps
    <2>2. CASE CapacityChanged
        BY <2>2, CapacityChangedKeeps
    <2>3. CASE FanOut
        BY <2>3, FanOutKeeps
    <2>4. CASE Worker
        BY <2>4, SendKeeps, SendFailsKeeps, ExpireKeeps DEF Worker
    <2>5. CASE Expire
        BY <2>5, ExpireKeeps
    <2>6. CASE Forget
        BY <2>6, ForgetKeeps
    <2>7. CASE \E c \in Clients : Watch(c) \/ Streams(c) \/ Leave(c)
        BY <2>7, WatchKeeps, SnapshotKeeps, StreamStepKeeps DEF Streams
    <2>8. CASE Restart
        BY <2>8, RestartKeeps
    <2>9. CASE UNCHANGED vars
        <3>1. UNCHANGED <<queue, made, stored, warm, cursor, worker>>
            BY <2>9 DEF vars, consumer, manager
        <3>2. Typed'
            BY <2>9 DEF vars, consumer, manager, bounds, OutboxInv, Typed
        <3> QED BY <3>1, <3>2, OrderingCarries DEF OutboxInv
    <2> QED BY <2>1, <2>2, <2>3, <2>4, <2>5, <2>6, <2>7, <2>8, <2>9 DEF Next
<1> QED BY <1>1, <1>2, PTL DEF Spec

\* The outbox holds the notifications of a task in the order they were
\* accepted, each once, and the projection lacks at most the message whose
\* commit was not acknowledged, whatever fails and is tried again.
\* (NotificationConsumer._consume, EventManager.send)
THEOREM OutboxIsInOrder == Spec => []OutboxInOrder
<1>1. OutboxInv => OutboxInOrder
    <2> SUFFICES ASSUME OutboxInv
                 PROVE  OutboxInOrder
        OBVIOUS
    <2>1. DOMAIN stored = 1..Len(stored)
        BY LenProperties DEF OutboxInv, Typed
    <2> QED BY <2>1 DEF OutboxInv, Ordering, StoredInOrder, ProjectionSound, Committed,
            OutboxInOrder, SavedInOrder, ProjectionIsOutbox
<1> QED BY <1>1, OutboxInductive, PTL

-----------------------------------------------------------------------------
(* The streams. *)

LEMMA IntervalIsSeq ==
    ASSUME NEW n \in Nat, NEW p \in Nat
    PROVE  LET s == [i \in 1..n |-> p + i]
           IN  /\ s \in Seq(Nat)
               /\ Len(s) = n
               /\ \A i \in 1..n : s[i] = p + i
<1> DEFINE s == [i \in 1..n |-> p + i]
<1>1. s \in [1..n -> Nat]
    OBVIOUS
<1>2. s \in Seq(Nat)
    BY <1>1, SeqDef
<1>3. DOMAIN s = 1..n
    OBVIOUS
<1>4. Len(s) = n
    BY <1>2, <1>3, LenProperties
<1> QED BY <1>2, <1>4

\* The generator's cursor is the number of positions after its snapshot.
LEMMA PositionIsReach ==
    ASSUME StreamTyped, NEW c \in Clients, SentInOrder(c)
    PROVE  /\ Position(c) = Reach(c)
           /\ Reach(c) \in Nat
           /\ base[c] \in Nat
           /\ got[c] \in Seq(Nat)
           /\ Len(got[c]) \in Nat
<1>1. /\ got[c] \in Seq(Nat)
      /\ Len(got[c]) \in Nat
      /\ base[c] \in Nat
    BY LenProperties DEF StreamTyped
<1>2. CASE got[c] = <<>>
    BY <1>1, <1>2 DEF Position, Reach
<1>3. CASE got[c] # <<>>
    <2>1. Len(got[c]) \in 1..Len(got[c])
        BY <1>1, <1>3, EmptySeq
    <2>2. Last(got[c]) = base[c] + Len(got[c])
        BY <2>1 DEF Last, SentInOrder
    <2> QED BY <1>1, <1>3, <2>2 DEF Position, Reach
<1> QED BY <1>2, <1>3

\* Arithmetic of what a connection has got.
LEMMA OneMore ==
    ASSUME NEW a \in Nat, NEW b \in Nat
    PROVE  a + (b + 1) = (a + b) + 1
OBVIOUS

\* Sending the next position, or one that was sent before, leaves no gap.
LEMMA SendDownKeeps ==
    ASSUME StreamTyped, NEW c \in Clients, SentInOrder(c),
           NEW i \in Nat, i <= Reach(c) + 1, i <= Len(stored), Len(stored) \in Nat,
           SendDown(c, i), UNCHANGED <<base, stored>>
    PROVE  /\ SentInOrder(c)'
           /\ got' \in [Clients -> Seq(Nat)]
           /\ \A d \in Clients \ {c} : got'[d] = got[d]
           /\ Reach(c)' = IF i <= Reach(c) THEN Reach(c) ELSE Reach(c) + 1
<1>1. /\ Position(c) = Reach(c)
      /\ Reach(c) \in Nat
      /\ base[c] \in Nat
      /\ got[c] \in Seq(Nat)
      /\ Len(got[c]) \in Nat
      /\ got \in [Clients -> Seq(Nat)]
    BY PositionIsReach DEF StreamTyped
<1>2. CASE i <= Reach(c)
    <2>1. got' = got
        BY <1>1, <1>2 DEF SendDown
    <2> QED BY <1>1, <1>2, <2>1 DEF SentInOrder, Reach
<1>3. CASE i = Reach(c) + 1
    <2> DEFINE g == Append(got[c], i)
    <2>1. /\ g \in Seq(Nat)
          /\ Len(g) = Len(got[c]) + 1
          /\ \A j \in 1..Len(got[c]) : g[j] = got[c][j]
          /\ g[Len(got[c]) + 1] = i
        BY <1>1, AppendProperties
    <2>2. got' = [got EXCEPT ![c] = g]
        BY <1>1, <1>3 DEF SendDown
    <2> HIDE DEF g
    <2>3. /\ got'[c] = g
          /\ got' \in [Clients -> Seq(Nat)]
          /\ \A d \in Clients \ {c} : got'[d] = got[d]
        BY <1>1, <2>1, <2>2
    <2>4. Reach(c)' = Reach(c) + 1
        <3>1. base'[c] = base[c] /\ Len(got'[c]) = Len(got[c]) + 1
            BY <2>1, <2>3
        <3>2. Reach(c)' = base[c] + (Len(got[c]) + 1)
            BY <3>1 DEF Reach
        <3>3. Reach(c) = base[c] + Len(got[c])
            BY DEF Reach
        <3>4. base[c] \in Nat /\ Len(got[c]) \in Nat
            BY <1>1
        <3> QED BY <3>2, <3>3, <3>4, OneMore
    <2>5. \A j \in 1..Len(g) : g[j] = base[c] + j
        <3>1. i = base[c] + (Len(got[c]) + 1)
            <4>1. Reach(c) = base[c] + Len(got[c])
                BY DEF Reach
            <4>2. base[c] \in Nat /\ Len(got[c]) \in Nat
                BY <1>1
            <4> QED BY <1>3, <4>1, <4>2
        <3>2. SUFFICES ASSUME NEW j \in 1..Len(g)
                       PROVE  g[j] = base[c] + j
            OBVIOUS
        <3>3. CASE j \in 1..Len(got[c])
            BY <2>1, <3>3 DEF SentInOrder
        <3>4. CASE j \notin 1..Len(got[c])
            <4>1. j = Len(got[c]) + 1
                BY <1>1, <2>1, <3>4
            <4> QED BY <2>1, <3>1, <4>1
        <3> QED BY <3>3, <3>4
    <2>6. SentInOrder(c)'
        BY <1>3, <2>3, <2>4, <2>5 DEF SentInOrder
    <2> QED BY <1>1, <1>3, <2>3, <2>4, <2>6
<1> QED BY <1>1, <1>2, <1>3

Follows(c) ==
    /\ SentInOrder(c)
    /\ PageComesNext(c)
    /\ PushedIsLatest(c)
    /\ RegisteredOrDismissed(c)

\* A connection that a step does not concern follows as before.
LEMMA FollowsCarries ==
    ASSUME StreamTyped, NEW d \in Clients, Follows(d),
           phase'[d] = phase[d], pushed'[d] = pushed[d], page'[d] = page[d],
           base'[d] = base[d], got'[d] = got[d],
           d \in registered' <=> d \in registered,
           d \in registered => cursor' = cursor,
           Len(stored) \in Nat, Len(stored') \in Nat, Len(stored) <= Len(stored')
    PROVE  Follows(d)'
<1>1. Reach(d)' = Reach(d) /\ Reach(d) \in Nat /\ Len(page[d]) \in Nat
    BY PositionIsReach, LenProperties DEF Follows, Reach, StreamTyped
<1>2. SentInOrder(d)'
    BY <1>1 DEF Follows, SentInOrder
<1>3. PageComesNext(d)'
    BY <1>1 DEF Follows, PageComesNext
<1>4. PushedIsLatest(d)'
    BY <1>1 DEF Follows, PushedIsLatest
<1>5. RegisteredOrDismissed(d)'
    BY DEF Follows, RegisteredOrDismissed, Streaming
<1> QED BY <1>2, <1>3, <1>4, <1>5 DEF Follows

\* The outbox only grows.
LEMMA EmittedGrows ==
    ASSUME OutboxInv, queue # <<>>
    PROVE  /\ Len(stored) \in Nat
           /\ Len(Emitted(Head(queue))) \in Nat
           /\ Len(stored) <= Len(Emitted(Head(queue)))
<1>1. Len(stored) \in Nat /\ Row(Head(queue)) \in Rows
    BY HeadPosition, FieldTypes, LenProperties DEF OutboxInv, Typed
<1> QED BY <1>1, HeadPosition, AppendProperties DEF OutboxInv, Typed

\* A step that leaves the connections alone, and the projection while there is
\* one of them.
LEMMA StreamsCarry ==
    ASSUME StreamInv, UNCHANGED <<registered, client>>,
           registered # {} => warm' /\ cursor' = cursor,
           Len(stored) \in Nat, Len(stored') \in Nat, Len(stored) <= Len(stored')
    PROVE  StreamInv'
<1>1. StreamTyped /\ StreamTyped'
    BY DEF StreamInv, StreamTyped, client
<1>2. ASSUME NEW d \in Clients
      PROVE  Follows(d)'
    <2>1. Follows(d)
        BY DEF StreamInv, Follows
    <2>2. d \in registered => cursor' = cursor
        OBVIOUS
    <2> QED BY <1>1, <2>1, <2>2, FollowsCarries DEF client
<1> QED BY <1>1, <1>2 DEF StreamInv, Follows

LEMMA SendFollows ==
    ASSUME OutboxInv, StreamInv, Send
    PROVE  StreamInv'
<1>1. /\ warm'
      /\ cursor' \in {Reached, Reached + 1}
      /\ Reached \in Nat /\ cursor \in Nat
      /\ stored' = Emitted(Head(queue))
      /\ UNCHANGED <<phase, page, base, got>>
      /\ registered # {} => Reached = cursor
    BY SendKeeps DEF Send, StreamInv, Reached, OutboxInv, Typed
<1>2. Len(stored) \in Nat /\ Len(stored') \in Nat /\ Len(stored) <= Len(stored')
    BY <1>1, EmittedGrows DEF Send
<1>3. CASE cursor' = Reached /\ UNCHANGED <<registered, pushed>>
    <2>1. UNCHANGED client
        BY <1>1, <1>3 DEF client
    <2> QED BY <1>1, <1>2, <1>3, <2>1, StreamsCarry
<1>4. CASE cursor' = Reached + 1 /\ Push(cursor')
    <2> DEFINE Full == {c \in registered : Len(pushed[c]) = QueueSize}
    <2>1. /\ registered' = registered \ Full
          /\ pushed' = [c \in Clients |->
                            IF c \in Full THEN <<Reconnect>>
                            ELSE IF c \in registered THEN Append(pushed[c], cursor')
                            ELSE pushed[c]]
        BY <1>4 DEF Push
    <2>2. ASSUME NEW d \in Clients
          PROVE  /\ pushed'[d] \in Seq(Nat)
                 /\ Follows(d)'
        <3>1. /\ Follows(d)
              /\ pushed[d] \in Seq(Nat) /\ Len(pushed[d]) \in Nat
              /\ page[d] \in Seq(Nat) /\ Len(page[d]) \in Nat
              /\ StreamTyped
            BY LenProperties DEF StreamInv, StreamTyped, Follows
        <3>2. Reach(d)' = Reach(d) /\ Reach(d) \in Nat
            BY <1>1, <3>1, PositionIsReach DEF Follows, Reach
        <3>3. SentInOrder(d)' /\ PageComesNext(d)'
            <4>1. got'[d] = got[d] /\ base'[d] = base[d] /\ page'[d] = page[d]
                BY <1>1
            <4>2. SentInOrder(d)'
                BY <1>2, <3>1, <3>2, <4>1 DEF Follows, SentInOrder
            <4>3. PageComesNext(d)'
                BY <1>2, <3>1, <3>2, <4>1 DEF Follows, PageComesNext
            <4> QED BY <4>2, <4>3
        <3>4. CASE d \in Full
            <4>1. pushed'[d] = <<Reconnect>> /\ d \notin registered' /\ d \in registered
                BY <2>1, <3>4
            <4>2. /\ <<Reconnect>> \in Seq(Nat)
                  /\ Len(<<Reconnect>>) = 1
                  /\ 1 <= QueueSize
                BY NotificationStreamAssumption DEF Reconnect
            <4>3. PushedIsLatest(d)' /\ RegisteredOrDismissed(d)'
                BY <1>1, <3>1, <4>1, <4>2
                   DEF Follows, PushedIsLatest, RegisteredOrDismissed, Streaming
            <4> QED BY <3>3, <4>1, <4>2, <4>3 DEF Follows
        <3>5. CASE d \in registered /\ d \notin Full
            <4>1. /\ pushed'[d] = Append(pushed[d], cursor')
                  /\ d \in registered'
                  /\ cursor' = cursor + 1
                BY <1>1, <1>4, <2>1, <3>5
            <4>2. /\ pushed'[d] \in Seq(Nat)
                  /\ Len(pushed'[d]) = Len(pushed[d]) + 1
                  /\ \A i \in 1..Len(pushed[d]) : pushed'[d][i] = pushed[d][i]
                  /\ pushed'[d][Len(pushed[d]) + 1] = cursor + 1
                BY <1>1, <3>1, <4>1, AppendProperties
            <4>3. /\ Len(pushed[d]) <= cursor
                  /\ \A i \in 1..Len(pushed[d]) :
                        pushed[d][i] + Len(pushed[d]) = cursor + i
                  /\ cursor <= Reach(d) + Len(pushed[d])
                BY <3>1, <3>5 DEF Follows, PushedIsLatest
            <4>4. \A i \in 1..Len(pushed[d]) : pushed[d][i] \in Nat
                BY <3>1, ElementOfSeq
            <4>5. \A i \in 1..Len(pushed'[d]) :
                    pushed'[d][i] + Len(pushed'[d]) = cursor' + i
                <5> SUFFICES ASSUME NEW i \in 1..Len(pushed'[d])
                             PROVE  pushed'[d][i] + Len(pushed'[d]) = cursor' + i
                    OBVIOUS
                <5>1. CASE i \in 1..Len(pushed[d])
                    <6>1. /\ pushed'[d][i] = pushed[d][i] /\ pushed[d][i] \in Nat
                          /\ pushed[d][i] + Len(pushed[d]) = cursor + i
                        BY <4>2, <4>3, <4>4, <5>1
                    <6>2. Len(pushed'[d]) = Len(pushed[d]) + 1 /\ cursor' = cursor + 1
                        BY <4>1, <4>2
                    <6>3. Len(pushed[d]) \in Nat /\ cursor \in Nat /\ i \in Nat
                        BY <1>1, <3>1
                    <6> QED BY <6>1, <6>2, <6>3
                <5>2. CASE i \notin 1..Len(pushed[d])
                    <6>1. i = Len(pushed[d]) + 1
                        BY <3>1, <4>2, <5>2
                    <6> QED BY <1>1, <3>1, <4>1, <4>2, <6>1
                <5> QED BY <5>1, <5>2
            <4>6. PushedIsLatest(d)'
                <5>1. /\ Len(pushed'[d]) <= cursor'
                      /\ cursor' <= Reach(d)' + Len(pushed'[d])
                    BY <1>1, <3>1, <3>2, <4>1, <4>2, <4>3
                <5> QED BY <4>5, <5>1 DEF PushedIsLatest
            <4>7. Len(pushed'[d]) <= QueueSize
                BY <3>1, <3>5, <4>2, NotificationStreamAssumption
                   DEF Follows, RegisteredOrDismissed
            <4>8. RegisteredOrDismissed(d)'
                BY <1>1, <3>1, <3>5, <4>1, <4>7
                   DEF Follows, RegisteredOrDismissed, Streaming
            <4> QED BY <3>3, <4>2, <4>6, <4>8 DEF Follows
        <3>6. CASE d \notin registered
            <4>1. pushed'[d] = pushed[d] /\ d \notin registered'
                BY <2>1, <3>6
            <4>2. PushedIsLatest(d)' /\ RegisteredOrDismissed(d)'
                BY <1>1, <3>1, <3>6, <4>1
                   DEF Follows, PushedIsLatest, RegisteredOrDismissed, Streaming
            <4> QED BY <3>1, <3>3, <4>1, <4>2 DEF Follows
        <3> QED BY <3>4, <3>5, <3>6
    <2>3. StreamTyped'
        <3>1. pushed' \in [Clients -> Seq(Nat)]
            BY <2>1, <2>2
        <3>2. registered' \subseteq Clients
            BY <2>1 DEF StreamInv, StreamTyped
        <3> QED BY <1>1, <3>1, <3>2 DEF StreamInv, StreamTyped
    <2> QED BY <1>1, <2>2, <2>3 DEF StreamInv, Follows
<1> QED BY <1>1, <1>3, <1>4, HeadComesNext DEF Send, Sent

LEMMA OneLess ==
    ASSUME NEW p \in Nat, NEW n \in Nat, NEW k \in Nat, NEW i \in Nat,
           p + n = k + (i + 1)
    PROVE  p + (n - 1) = k + i
OBVIOUS

\* A connection that does not stream after a step follows, whatever became of
\* its snapshot.
LEMMA IdleFollows ==
    ASSUME NEW c \in Clients, ~Streaming(c)', c \notin registered',
           pushed'[c] = <<>>, page'[c] = <<>>, got'[c] = <<>>,
           base'[c] \in Nat, base'[c] <= Len(stored'), Len(stored') \in Nat
    PROVE  Follows(c)'
<1>1. Len(pushed'[c]) = 0 /\ Len(page'[c]) = 0 /\ Len(got'[c]) = 0
    OBVIOUS
<1>2. Reach(c)' = base'[c]
    BY <1>1 DEF Reach
<1>3. SentInOrder(c)'
    BY <1>1, <1>2 DEF SentInOrder
<1>4. PageComesNext(c)'
    BY <1>1, <1>2 DEF PageComesNext
<1>5. PushedIsLatest(c)'
    BY DEF PushedIsLatest
<1>6. RegisteredOrDismissed(c)'
    BY <1>1, NotificationStreamAssumption DEF RegisteredOrDismissed
<1> QED BY <1>3, <1>4, <1>5, <1>6 DEF Follows

LEMMA WatchFollows ==
    ASSUME OutboxInv, StreamInv, NEW c \in Clients, Watch(c)
    PROVE  StreamInv'
<1>1. /\ phase[c] = "off" /\ phase' = [phase EXCEPT ![c] = "watching"]
      /\ UNCHANGED <<manager, pushed, page, base, got>>
      /\ UNCHANGED <<stored, warm, cursor, registered>>
      /\ Len(stored) \in Nat
      /\ StreamTyped
    BY LenProperties DEF Watch, OutboxInv, Typed, StreamInv, manager
<1>2. StreamTyped'
    BY <1>1 DEF StreamTyped
<1>3. ASSUME NEW d \in Clients
      PROVE  Follows(d)'
    <2>1. Follows(d)
        BY DEF StreamInv, Follows
    <2>2. CASE d # c
        <3>1. phase'[d] = phase[d]
            BY <1>1, <2>2 DEF StreamTyped
        <3> QED BY <1>1, <2>1, <3>1, FollowsCarries
    <2>3. CASE d = c
        <3>1. ~Streaming(d) /\ phase[d] # "replaying" /\ phase'[d] = "watching"
            BY <1>1, <2>3 DEF Streaming, StreamTyped
        <3>2. /\ d \notin registered
              /\ pushed[d] = <<>> /\ page[d] = <<>> /\ got[d] = <<>>
              /\ base[d] <= Len(stored) /\ base[d] \in Nat
            <4>1. /\ d \notin registered
                  /\ pushed[d] = <<>> /\ page[d] = <<>> /\ got[d] = <<>>
                BY <2>1, <3>1 DEF Follows, RegisteredOrDismissed
            <4>2. Reach(d) = base[d] /\ base[d] \in Nat
                BY <1>1, <4>1 DEF Reach, StreamTyped
            <4> QED BY <2>1, <4>1, <4>2 DEF Follows, SentInOrder
        <3>3. ~Streaming(d)'
            BY <3>1 DEF Streaming
        <3>4. /\ d \notin registered' /\ pushed'[d] = <<>> /\ page'[d] = <<>>
              /\ got'[d] = <<>> /\ base'[d] \in Nat /\ base'[d] <= Len(stored')
              /\ Len(stored') \in Nat
            BY <1>1, <3>2
        <3> QED BY <3>3, <3>4, IdleFollows
    <2> QED BY <2>2, <2>3
<1> QED BY <1>1, <1>2, <1>3 DEF StreamInv, Follows

LEMMA SnapshotFollows ==
    ASSUME OutboxInv, StreamInv, NEW c \in Clients, Snapshot(c)
    PROVE  StreamInv'
<1>1. /\ phase' = [phase EXCEPT ![c] = "top"]
      /\ registered' = registered \cup {c}
      /\ warm' = TRUE /\ cursor' = Reached /\ stored' = stored
      /\ base' = [base EXCEPT ![c] = Reached]
      /\ got' = [got EXCEPT ![c] = <<>>]
      /\ pushed' = [pushed EXCEPT ![c] = <<>>]
      /\ page' = [page EXCEPT ![c] = <<>>]
      /\ Len(stored) \in Nat
      /\ StreamTyped
    BY LenProperties DEF Snapshot, OutboxInv, Typed, StreamInv
<1>2. Reached \in Nat /\ Reached <= Len(stored)
    BY <1>1 DEF Reached, OutboxInv, Typed, Ordering, ProjectionSound
<1>3. StreamTyped'
    <2>1. <<>> \in Seq(Nat)
        OBVIOUS
    <2> QED BY <1>1, <1>2, <2>1 DEF StreamTyped
<1>4. ASSUME NEW d \in Clients
      PROVE  Follows(d)'
    <2>1. Follows(d)
        BY DEF StreamInv, Follows
    <2>2. CASE d # c
        <3>1. /\ phase'[d] = phase[d] /\ pushed'[d] = pushed[d] /\ page'[d] = page[d]
              /\ base'[d] = base[d] /\ got'[d] = got[d]
              /\ d \in registered' <=> d \in registered
            BY <1>1, <2>2 DEF StreamTyped
        <3>2. d \in registered => cursor' = cursor
            BY <1>1 DEF StreamInv, Reached
        <3> QED BY <1>1, <2>1, <3>1, <3>2, FollowsCarries
    <2>3. CASE d = c
        <3>1. /\ phase'[d] = "top" /\ d \in registered'
              /\ pushed'[d] = <<>> /\ page'[d] = <<>> /\ got'[d] = <<>>
              /\ base'[d] = Reached
              /\ Len(pushed'[d]) = 0 /\ Len(page'[d]) = 0 /\ Len(got'[d]) = 0
            BY <1>1, <2>3 DEF StreamTyped
        <3>2. Reach(d)' = Reached
            BY <1>2, <3>1 DEF Reach
        <3>3. SentInOrder(d)' /\ PageComesNext(d)'
            BY <1>1, <1>2, <3>1, <3>2 DEF SentInOrder, PageComesNext
        <3>4. PushedIsLatest(d)'
            BY <1>1, <1>2, <3>1, <3>2 DEF PushedIsLatest
        <3>5. RegisteredOrDismissed(d)'
            BY <3>1, NotificationStreamAssumption DEF RegisteredOrDismissed, Streaming
        <3> QED BY <3>3, <3>4, <3>5 DEF Follows
    <2> QED BY <2>2, <2>3
<1> QED BY <1>1, <1>3, <1>4 DEF StreamInv, Follows

LEMMA SnapshotFailsFollows ==
    ASSUME OutboxInv, StreamInv, NEW c \in Clients, SnapshotFails(c)
    PROVE  StreamInv'
<1>1. /\ phase[c] = "watching" /\ phase' = [phase EXCEPT ![c] = "off"]
      /\ UNCHANGED <<stored, warm, cursor, registered, pushed, page, base, got>>
      /\ Len(stored) \in Nat
      /\ StreamTyped
    BY LenProperties DEF SnapshotFails, OutboxInv, Typed, StreamInv, manager
<1>2. StreamTyped'
    BY <1>1 DEF StreamTyped
<1>3. ASSUME NEW d \in Clients
      PROVE  Follows(d)'
    <2>1. Follows(d)
        BY DEF StreamInv, Follows
    <2>2. CASE d # c
        <3>1. phase'[d] = phase[d]
            BY <1>1, <2>2 DEF StreamTyped
        <3> QED BY <1>1, <2>1, <3>1, FollowsCarries
    <2>3. CASE d = c
        <3>1. ~Streaming(d) /\ phase[d] # "replaying" /\ phase'[d] = "off"
            BY <1>1, <2>3 DEF Streaming, StreamTyped
        <3>2. ~Streaming(d)'
            BY <3>1 DEF Streaming
        <3>3. /\ d \notin registered
              /\ pushed[d] = <<>> /\ page[d] = <<>> /\ got[d] = <<>>
            BY <2>1, <3>1 DEF Follows, RegisteredOrDismissed
        <3>4. Reach(d) = base[d] /\ base[d] \in Nat
            BY <1>1, <3>3 DEF Reach, StreamTyped
        <3>5. base[d] <= Len(stored)
            BY <2>1, <3>4 DEF Follows, SentInOrder
        <3>6. /\ d \notin registered' /\ pushed'[d] = <<>> /\ page'[d] = <<>>
              /\ got'[d] = <<>> /\ base'[d] \in Nat /\ base'[d] <= Len(stored')
              /\ Len(stored') \in Nat
            BY <1>1, <3>3, <3>4, <3>5
        <3> QED BY <3>2, <3>6, IdleFollows
    <2> QED BY <2>2, <2>3
<1> QED BY <1>1, <1>2, <1>3 DEF StreamInv, Follows

\* A position that was pushed is the next one or was replayed before.
LEMMA TakePushedFollows ==
    ASSUME OutboxInv, StreamInv, NEW c \in Clients, TakePushed(c)
    PROVE  StreamInv'
<1> DEFINE h == Head(pushed[c])
<1>1. /\ phase[c] = "top" /\ pushed[c] # <<>> /\ h # Reconnect
      /\ pushed' = [pushed EXCEPT ![c] = Tail(pushed[c])]
      /\ SendDown(c, h)
      /\ UNCHANGED <<stored, warm, cursor, registered, phase, page, base>>
    BY DEF TakePushed, manager
<1>2. /\ Len(stored) \in Nat /\ cursor \in Nat
      /\ StreamTyped
      /\ pushed[c] \in Seq(Nat) /\ Len(pushed[c]) \in Nat /\ Len(pushed[c]) >= 1
      /\ h = pushed[c][1] /\ h \in Nat
      /\ Tail(pushed[c]) \in Seq(Nat)
      /\ Len(Tail(pushed[c])) = Len(pushed[c]) - 1
      /\ \A i \in 1..Len(Tail(pushed[c])) : Tail(pushed[c])[i] = pushed[c][i + 1]
    <2>1. /\ Len(stored) \in Nat /\ cursor \in Nat
          /\ StreamTyped
          /\ pushed[c] \in Seq(Nat)
        BY LenProperties DEF OutboxInv, Typed, StreamInv, StreamTyped
    <2> QED BY <1>1, <2>1, HeadTailProperties, LenProperties, EmptySeq
<1>3. Follows(c)
    BY DEF StreamInv, Follows
<1>4. c \in registered
    <2>1. Streaming(c)
        BY <1>1 DEF Streaming
    <2>2. Head(<<Reconnect>>) = Reconnect
        OBVIOUS
    <2> QED BY <1>1, <1>3, <2>1, <2>2 DEF Follows, RegisteredOrDismissed
<1>5. /\ h + Len(pushed[c]) = cursor + 1
      /\ cursor <= Reach(c) + Len(pushed[c])
      /\ Reach(c) \in Nat
      /\ Len(pushed[c]) <= cursor
      /\ cursor <= Len(stored)
    <2>1. /\ 1 \in 1..Len(pushed[c])
          /\ Reach(c) \in Nat
        BY <1>2, <1>3, PositionIsReach DEF Follows
    <2>2. warm /\ cursor <= Len(stored)
        BY <1>2, <1>4 DEF StreamInv, OutboxInv, Ordering, ProjectionSound
    <2> QED BY <1>2, <1>3, <1>4, <2>1, <2>2 DEF Follows, PushedIsLatest
<1>6. h <= Reach(c) + 1 /\ h <= Len(stored)
    BY <1>2, <1>5
<1> HIDE DEF h
<1>7. /\ SentInOrder(c)'
      /\ got' \in [Clients -> Seq(Nat)]
      /\ \A d \in Clients \ {c} : got'[d] = got[d]
      /\ Reach(c)' = IF h <= Reach(c) THEN Reach(c) ELSE Reach(c) + 1
    <2>1. UNCHANGED <<base, stored>>
        BY <1>1
    <2> QED BY <1>1, <1>2, <1>3, <1>6, <2>1, SendDownKeeps DEF Follows
<1>8. StreamTyped'
    BY <1>1, <1>2, <1>7 DEF StreamTyped
<1>9. Follows(c)'
    <2>1. /\ pushed'[c] = Tail(pushed[c]) /\ page'[c] = page[c] /\ phase'[c] = "top"
          /\ c \in registered' /\ page[c] = <<>> /\ cursor' = cursor
          /\ Len(page'[c]) = 0
        BY <1>1, <1>2, <1>3, <1>4 DEF StreamTyped, Follows, RegisteredOrDismissed
    <2>2. PageComesNext(c)'
        <3>1. Reach(c)' <= Len(stored') /\ Reach(c)' \in Nat
            BY <1>5, <1>7 DEF SentInOrder
        <3> QED BY <2>1, <3>1 DEF PageComesNext
    <2>3. PushedIsLatest(c)'
        <3>1. Len(pushed'[c]) = Len(pushed[c]) - 1
            BY <1>2, <2>1
        <3>2. Len(pushed'[c]) <= cursor
            BY <1>2, <1>5, <3>1
        <3>3. cursor <= Reach(c)' + Len(pushed'[c])
            <4>1. /\ Len(pushed[c]) \in Nat /\ cursor \in Nat /\ Reach(c) \in Nat
                  /\ h \in Nat /\ h + Len(pushed[c]) = cursor + 1
                  /\ cursor <= Reach(c) + Len(pushed[c])
                BY <1>2, <1>5
            <4>2. CASE h <= Reach(c)
                <5>1. Reach(c)' = Reach(c)
                    BY <1>7, <4>2
                <5> QED BY <3>1, <4>1, <4>2, <5>1
            <4>3. CASE ~(h <= Reach(c))
                <5>1. Reach(c)' = Reach(c) + 1
                    BY <1>7, <4>3
                <5> QED BY <3>1, <4>1, <5>1
            <4> QED BY <4>2, <4>3
        <3>4. ASSUME NEW i \in 1..Len(pushed'[c])
              PROVE  pushed'[c][i] + Len(pushed'[c]) = cursor + i
            <4>1. i + 1 \in 1..Len(pushed[c]) /\ pushed'[c][i] = pushed[c][i + 1]
                BY <1>2, <2>1, <3>1
            <4>2. pushed[c][i + 1] + Len(pushed[c]) = cursor + (i + 1)
                BY <1>3, <1>4, <4>1 DEF Follows, PushedIsLatest
            <4>3. pushed[c][i + 1] \in Nat /\ Len(pushed[c]) \in Nat /\ i \in Nat /\ cursor \in Nat
                BY <1>2, <4>1, ElementOfSeq
            <4>4. pushed[c][i + 1] + (Len(pushed[c]) - 1) = cursor + i
                BY <4>2, <4>3, OneLess
            <4> QED BY <3>1, <4>1, <4>4
        <3> QED BY <2>1, <3>2, <3>3, <3>4 DEF PushedIsLatest
    <2>4. RegisteredOrDismissed(c)'
        <3>1. Len(pushed'[c]) <= QueueSize
            BY <1>2, <1>3, <2>1, NotificationStreamAssumption
               DEF Follows, RegisteredOrDismissed
        <3> QED BY <2>1, <3>1 DEF RegisteredOrDismissed, Streaming
    <2> QED BY <1>7, <2>2, <2>3, <2>4 DEF Follows
<1>10. ASSUME NEW d \in Clients, d # c
       PROVE  Follows(d)'
    <2>1. Follows(d)
        BY DEF StreamInv, Follows
    <2>2. pushed'[d] = pushed[d] /\ got'[d] = got[d]
        BY <1>1, <1>2, <1>7, <1>10 DEF StreamTyped
    <2> QED BY <1>1, <1>2, <2>1, <2>2, FollowsCarries
<1> QED BY <1>1, <1>8, <1>9, <1>10 DEF StreamInv, Follows

\* A page is what comes next in the outbox when nothing was pushed.
LEMMA ReplayFollows ==
    ASSUME OutboxInv, StreamInv, NEW c \in Clients, Replay(c)
    PROVE  StreamInv'
<1> DEFINE rest == Len(stored) - Position(c)
           n    == IF rest < PageSize THEN rest ELSE PageSize
           p    == [i \in 1..n |-> Position(c) + i]
<1>1. /\ phase[c] = "top" /\ pushed[c] = <<>>
      /\ Position(c) < Len(stored)
      /\ page' = [page EXCEPT ![c] = p]
      /\ phase' = [phase EXCEPT ![c] = "replaying"]
      /\ UNCHANGED <<stored, warm, cursor, registered, pushed, base, got>>
    BY DEF Replay, manager
<1>2. /\ Len(stored) \in Nat /\ StreamTyped /\ Follows(c)
    BY LenProperties DEF OutboxInv, Typed, StreamInv, Follows
<1>3. /\ Position(c) = Reach(c)
      /\ Reach(c) \in Nat
    BY <1>2, PositionIsReach DEF Follows
<1>4. n \in Nat /\ n <= Len(stored) - Reach(c)
    BY <1>1, <1>2, <1>3, NotificationStreamAssumption
<1>5. /\ p \in Seq(Nat)
      /\ Len(p) = n
      /\ \A i \in 1..n : p[i] = Reach(c) + i
    <2>1. p = [i \in 1..n |-> Reach(c) + i]
        BY <1>3
    <2> HIDE DEF n
    <2> QED BY <1>3, <1>4, <2>1, IntervalIsSeq
<1> HIDE DEF rest, n, p
<1>6. StreamTyped'
    BY <1>1, <1>2, <1>5 DEF StreamTyped
<1>7. Follows(c)'
    <2>1. page'[c] = p /\ phase'[c] = "replaying" /\ pushed'[c] = <<>>
        BY <1>1, <1>2 DEF StreamTyped
    <2>2. Reach(c)' = Reach(c)
        BY <1>1 DEF Reach
    <2>3. SentInOrder(c)'
        BY <1>1, <1>2, <2>2 DEF Follows, SentInOrder
    <2>4. PageComesNext(c)'
        BY <1>1, <1>2, <1>3, <1>4, <1>5, <2>1, <2>2 DEF PageComesNext
    <2>5. PushedIsLatest(c)'
        BY <1>1, <1>2, <2>1, <2>2 DEF Follows, PushedIsLatest
    <2>6. RegisteredOrDismissed(c)'
        BY <1>1, <1>2, <2>1 DEF Follows, RegisteredOrDismissed, Streaming
    <2> QED BY <2>3, <2>4, <2>5, <2>6 DEF Follows
<1>8. ASSUME NEW d \in Clients, d # c
      PROVE  Follows(d)'
    <2>1. Follows(d)
        BY DEF StreamInv, Follows
    <2>2. page'[d] = page[d] /\ phase'[d] = phase[d]
        BY <1>1, <1>2, <1>8 DEF StreamTyped
    <2> QED BY <1>1, <1>2, <2>1, <2>2, FollowsCarries
<1> QED BY <1>1, <1>6, <1>7, <1>8 DEF StreamInv, Follows

LEMMA SendPageFollows ==
    ASSUME OutboxInv, StreamInv, NEW c \in Clients, SendPage(c)
    PROVE  StreamInv'
<1>1. /\ phase[c] = "replaying"
      /\ UNCHANGED <<stored, warm, cursor, registered, pushed, base>>
      /\ Len(stored) \in Nat /\ StreamTyped /\ Follows(c)
    BY LenProperties DEF SendPage, manager, OutboxInv, Typed, StreamInv, Follows
<1>2. CASE page[c] = <<>>
    <2>1. phase' = [phase EXCEPT ![c] = "top"] /\ UNCHANGED <<page, got>>
        BY <1>2 DEF SendPage
    <2>2. StreamTyped'
        BY <1>1, <2>1 DEF StreamTyped
    <2>3. Follows(c)'
        <3>1. phase'[c] = "top"
            BY <1>1, <2>1 DEF StreamTyped
        <3>2. Reach(c)' = Reach(c)
            BY <1>1, <2>1 DEF Reach
        <3>3. SentInOrder(c)' /\ PageComesNext(c)'
            BY <1>1, <2>1, <3>2 DEF Follows, SentInOrder, PageComesNext
        <3>4. PushedIsLatest(c)'
            BY <1>1, <2>1, <3>2 DEF Follows, PushedIsLatest
        <3>5. RegisteredOrDismissed(c)'
            BY <1>1, <1>2, <2>1, <3>1 DEF Follows, RegisteredOrDismissed, Streaming
        <3> QED BY <3>3, <3>4, <3>5 DEF Follows
    <2>4. ASSUME NEW d \in Clients, d # c
          PROVE  Follows(d)'
        <3>1. Follows(d)
            BY DEF StreamInv, Follows
        <3>2. phase'[d] = phase[d]
            BY <1>1, <2>1, <2>4 DEF StreamTyped
        <3> QED BY <1>1, <2>1, <3>1, <3>2, FollowsCarries
    <2> QED BY <1>1, <2>2, <2>3, <2>4 DEF StreamInv, Follows
<1>3. CASE page[c] # <<>>
    <2> DEFINE h == Head(page[c])
               t == Tail(page[c])
    <2>1. /\ page' = [page EXCEPT ![c] = t]
          /\ SendDown(c, h)
          /\ phase' = phase
        BY <1>3 DEF SendPage
    <2>2. /\ page[c] \in Seq(Nat) /\ Len(page[c]) \in Nat /\ Len(page[c]) >= 1
          /\ h = page[c][1] /\ h \in Nat
          /\ t \in Seq(Nat)
          /\ Len(t) = Len(page[c]) - 1
          /\ \A i \in 1..Len(t) : t[i] = page[c][i + 1]
        <3>1. page[c] \in Seq(Nat)
            BY <1>1 DEF StreamTyped
        <3> QED BY <1>3, <3>1, HeadTailProperties, LenProperties, EmptySeq
    <2>3. /\ Reach(c) \in Nat
          /\ h = Reach(c) + 1
          /\ h <= Len(stored)
          /\ Reach(c) + Len(page[c]) <= Len(stored)
        <3>1. Reach(c) \in Nat /\ 1 \in 1..Len(page[c])
            BY <1>1, <2>2, PositionIsReach DEF Follows
        <3> QED BY <1>1, <2>2, <3>1 DEF Follows, PageComesNext
    <2> HIDE DEF h, t
    <2>4. /\ SentInOrder(c)'
          /\ got' \in [Clients -> Seq(Nat)]
          /\ \A d \in Clients \ {c} : got'[d] = got[d]
          /\ Reach(c)' = Reach(c) + 1
        <3>1. UNCHANGED <<base, stored>>
            BY <1>1
        <3>2. ~(h <= Reach(c))
            BY <2>3
        <3> QED BY <1>1, <2>1, <2>2, <2>3, <3>1, <3>2, SendDownKeeps DEF Follows
    <2>5. StreamTyped'
        BY <1>1, <2>1, <2>2, <2>4 DEF StreamTyped
    <2>6. page'[c] = t
        BY <1>1, <2>1 DEF StreamTyped
    <2>7. PageComesNext(c)'
        <3>1. Reach(c)' + Len(t) <= Len(stored)
            BY <1>1, <2>2, <2>3, <2>4
        <3>2. ASSUME NEW i \in 1..Len(t)
              PROVE  t[i] = Reach(c)' + i
            <4>1. i + 1 \in 1..Len(page[c]) /\ t[i] = page[c][i + 1] /\ i \in Nat
                BY <2>2
            <4>2. page[c][i + 1] = Reach(c) + (i + 1)
                BY <1>1, <4>1 DEF Follows, PageComesNext
            <4> QED BY <2>3, <2>4, <4>1, <4>2
        <3> QED BY <1>1, <2>6, <3>1, <3>2 DEF PageComesNext
    <2>8. PushedIsLatest(c)'
        <3>1. Len(pushed[c]) \in Nat /\ cursor \in Nat
            BY <1>1, LenProperties DEF StreamTyped, OutboxInv, Typed
        <3>2. c \in registered => cursor <= Reach(c)' + Len(pushed[c])
            BY <1>1, <2>3, <2>4, <3>1 DEF Follows, PushedIsLatest
        <3> QED BY <1>1, <3>2 DEF Follows, PushedIsLatest
    <2>9. RegisteredOrDismissed(c)'
        BY <1>1, <2>1 DEF Follows, RegisteredOrDismissed, Streaming
    <2>10. ASSUME NEW d \in Clients, d # c
           PROVE  Follows(d)'
        <3>1. Follows(d)
            BY DEF StreamInv, Follows
        <3>2. page'[d] = page[d] /\ got'[d] = got[d]
            BY <1>1, <2>1, <2>4, <2>10 DEF StreamTyped
        <3> QED BY <1>1, <2>1, <3>1, <3>2, FollowsCarries
    <2> QED BY <1>1, <2>4, <2>5, <2>7, <2>8, <2>9, <2>10 DEF StreamInv, Follows
<1> QED BY <1>2, <1>3

LEMMA CloseFollows ==
    ASSUME OutboxInv, StreamInv, NEW c \in Clients, Close(c)
    PROVE  StreamInv'
<1>1. /\ phase' = [phase EXCEPT ![c] = "off"]
      /\ pushed' = [pushed EXCEPT ![c] = <<>>]
      /\ page' = [page EXCEPT ![c] = <<>>]
      /\ base' = [base EXCEPT ![c] = 0]
      /\ got' = [got EXCEPT ![c] = <<>>]
      /\ registered' = registered \ {c}
      /\ UNCHANGED <<stored, warm, cursor>>
      /\ Len(stored) \in Nat /\ StreamTyped
    BY LenProperties DEF Close, OutboxInv, Typed, StreamInv
<1>2. StreamTyped'
    <2>1. <<>> \in Seq(Nat)
        OBVIOUS
    <2> QED BY <1>1, <2>1 DEF StreamTyped
<1>3. Follows(c)'
    <2>1. /\ phase'[c] = "off" /\ pushed'[c] = <<>> /\ page'[c] = <<>>
          /\ base'[c] = 0 /\ got'[c] = <<>> /\ c \notin registered'
        BY <1>1 DEF StreamTyped
    <2>2. ~Streaming(c)'
        BY <2>1 DEF Streaming
    <2> QED BY <1>1, <2>1, <2>2, IdleFollows
<1>4. ASSUME NEW d \in Clients, d # c
      PROVE  Follows(d)'
    <2>1. Follows(d)
        BY DEF StreamInv, Follows
    <2>2. /\ phase'[d] = phase[d] /\ pushed'[d] = pushed[d] /\ page'[d] = page[d]
          /\ base'[d] = base[d] /\ got'[d] = got[d]
          /\ d \in registered' <=> d \in registered
        BY <1>1, <1>4 DEF StreamTyped
    <2> QED BY <1>1, <2>1, <2>2, FollowsCarries
<1> QED BY <1>1, <1>2, <1>3, <1>4 DEF StreamInv, Follows

LEMMA RestartFollows ==
    ASSUME OutboxInv, Restart
    PROVE  StreamInv'
<1>1. /\ phase' = [c \in Clients |-> "off"]
      /\ pushed' = [c \in Clients |-> <<>>]
      /\ page' = [c \in Clients |-> <<>>]
      /\ base' = [c \in Clients |-> 0]
      /\ got' = [c \in Clients |-> <<>>]
      /\ registered' = {}
      /\ stored' = stored /\ Len(stored) \in Nat
    BY LenProperties DEF Restart, OutboxInv, Typed
<1>2. StreamTyped'
    <2>1. <<>> \in Seq(Nat)
        OBVIOUS
    <2> QED BY <1>1, <2>1 DEF StreamTyped
<1>3. ASSUME NEW c \in Clients
      PROVE  Follows(c)'
    BY <1>1, IdleFollows DEF Streaming
<1> QED BY <1>1, <1>2, <1>3 DEF StreamInv, Follows

\* Every stream follows the outbox without a gap.
LEMMA StreamsInductive == Spec => []StreamInv
<1>1. Init => StreamInv
    <2> SUFFICES ASSUME Init
                 PROVE  StreamInv
        OBVIOUS
    <2>1. StreamTyped
        BY DEF Init, StreamTyped
    <2>2. ASSUME NEW c \in Clients
          PROVE  Follows(c)
        <3>1. /\ phase[c] = "off" /\ c \notin registered /\ base[c] = 0
              /\ pushed[c] = <<>> /\ page[c] = <<>> /\ got[c] = <<>>
              /\ Len(pushed[c]) = 0 /\ Len(page[c]) = 0 /\ Len(got[c]) = 0
              /\ Len(stored) = 0
            BY DEF Init
        <3>2. Reach(c) = 0
            BY <3>1 DEF Reach
        <3> QED BY <3>1, <3>2, NotificationStreamAssumption DEF Follows, SentInOrder,
                PageComesNext, PushedIsLatest, RegisteredOrDismissed, Streaming
    <2> QED BY <2>1, <2>2 DEF Init, StreamInv, Follows
<1>2. OutboxInv /\ StreamInv /\ [Next]_vars => StreamInv'
    <2> SUFFICES ASSUME OutboxInv, StreamInv, [Next]_vars
                 PROVE  StreamInv'
        OBVIOUS
    <2>1. Len(stored) \in Nat
        BY LenProperties DEF OutboxInv, Typed
    <2>2. CASE \/ \E kind \in Kinds \ {"capacity"} : Accept(kind)
               \/ CapacityChanged \/ FanOut \/ Expire \/ Expired
        <3>1. UNCHANGED <<stored, warm, cursor, registered, client>>
            BY <2>2 DEF Accept, CapacityChanged, FanOut, Expire, Expired, manager
        <3> QED BY <2>1, <3>1, StreamsCarry DEF StreamInv
    <2>3. CASE Send
        BY <2>3, SendFollows
    <2>4. CASE SendFails
        <3>1. UNCHANGED <<registered, client>> /\ queue # <<>>
            BY <2>4 DEF SendFails
        <3>2. /\ stored' \in {stored, Emitted(Head(queue))}
              /\ warm => warm' /\ cursor' = cursor
            BY <2>4, SendFailsKeeps
        <3>3. Len(stored') \in Nat /\ Len(stored) <= Len(stored')
            BY <2>1, <3>1, <3>2, EmittedGrows
        <3> QED BY <2>1, <3>1, <3>2, <3>3, StreamsCarry DEF StreamInv
    <2>5. CASE Forget
        <3>1. UNCHANGED <<stored, registered, client>> /\ registered = {}
            BY <2>5 DEF Forget
        <3> QED BY <2>1, <3>1, StreamsCarry
    <2>6. CASE \E c \in Clients : Watch(c) \/ Streams(c) \/ Leave(c)
        BY <2>6, WatchFollows, SnapshotFollows, SnapshotFailsFollows, TakePushedFollows,
           ReplayFollows, SendPageFollows, CloseFollows
           DEF Streams, Dismissed, Leave
    <2>7. CASE Restart
        BY <2>7, RestartFollows
    <2>8. CASE UNCHANGED vars
        <3>1. UNCHANGED <<stored, warm, cursor, registered, client>>
            BY <2>8 DEF vars, manager
        <3> QED BY <2>1, <3>1, StreamsCarry DEF StreamInv
    <2> QED BY <2>2, <2>3, <2>4, <2>5, <2>6, <2>7, <2>8 DEF Next, Worker
<1> QED BY <1>1, <1>2, OutboxInductive, PTL DEF Spec

\* A stream sends every message after its snapshot, in order and once, although
\* each can reach it by a push, by a replay or by both, and although a queue
\* that overflows loses what it held.  (event_generator, send)
THEOREM NoStreamHasGap == Spec => []StreamsHaveNoGap
<1>1. StreamInv => StreamsHaveNoGap
    <2> SUFFICES ASSUME StreamInv, NEW c \in Clients
                 PROVE  got[c] = [i \in 1..Len(got[c]) |-> base[c] + i]
        BY DEF StreamsHaveNoGap
    <2>1. /\ got[c] \in Seq(Nat) /\ Len(got[c]) \in Nat
          /\ got[c] \in [1..Len(got[c]) -> Nat]
          /\ \A i \in 1..Len(got[c]) : got[c][i] = base[c] + i
        BY LenProperties DEF StreamInv, StreamTyped, SentInOrder
    <2> QED BY <2>1
<1> QED BY <1>1, StreamsInductive, PTL

-----------------------------------------------------------------------------
(* The capacity and who is told it. *)

LEMMA EnqueuedIsConcat ==
    ASSUME Typed, NEW messages \in Seq(Messages), Enqueue(messages)
    PROVE  /\ Len(queue) \in Nat /\ Len(messages) \in Nat /\ Len(queue') \in Nat
           /\ Len(queue') = Len(queue) + Len(messages)
           /\ \A i \in 1..Len(queue) : queue'[i] = queue[i]
           /\ \A i \in 1..Len(messages) : queue'[Len(queue) + i] = messages[i]
           /\ \A i \in 1..Len(queue') :
                i \in 1..Len(queue) \/ i - Len(queue) \in 1..Len(messages)
<1>1. /\ queue \in Seq(Messages) /\ Len(queue) \in Nat /\ Len(messages) \in Nat
      /\ queue' = queue \o messages
    BY LenProperties DEF Typed, Enqueue
<1>2. /\ Len(queue') = Len(queue) + Len(messages)
      /\ \A i \in 1..Len(queue) + Len(messages) :
            queue'[i] = IF i <= Len(queue) THEN queue[i] ELSE messages[i - Len(queue)]
    BY <1>1, ConcatProperties
<1>3. \A i \in 1..Len(queue) : queue'[i] = queue[i]
    BY <1>1, <1>2
<1>4. ASSUME NEW i \in 1..Len(messages)
      PROVE  queue'[Len(queue) + i] = messages[i]
    <2>1. /\ Len(queue) + i \in 1..Len(queue) + Len(messages)
          /\ ~(Len(queue) + i <= Len(queue))
          /\ (Len(queue) + i) - Len(queue) = i
        BY <1>1
    <2> QED BY <1>2, <2>1
<1>5. \A i \in 1..Len(queue') :
        i \in 1..Len(queue) \/ i - Len(queue) \in 1..Len(messages)
    BY <1>1, <1>2
<1> QED BY <1>1, <1>2, <1>3, <1>4, <1>5

\* A capacity at the end of what is queued is the last one.
LEMMA EnqueuedShows ==
    ASSUME Typed, NEW messages \in Seq(Messages), Enqueue(messages),
           NEW k \in 1..Len(messages),
           \A i \in 1..Len(messages) : k < i => messages[i].capacity = 0
    PROVE  ShownIn(messages[k].capacity, queue', stored')
<1> DEFINE j == Len(queue) + k
<1>1. /\ Len(queue) \in Nat /\ Len(messages) \in Nat
      /\ Len(queue') = Len(queue) + Len(messages)
      /\ \A i \in 1..Len(messages) : queue'[Len(queue) + i] = messages[i]
    BY EnqueuedIsConcat
<1>2. j \in 1..Len(queue') /\ queue'[j] = messages[k]
    BY <1>1
<1>3. ASSUME NEW i \in 1..Len(queue'), j < i
      PROVE  queue'[i].capacity = 0
    <2>1. /\ i - Len(queue) \in 1..Len(messages)
          /\ k < i - Len(queue)
          /\ Len(queue) + (i - Len(queue)) = i
        BY <1>1, <1>3
    <2> QED BY <1>1, <2>1
<1> HIDE DEF j
<1> QED BY <1>2, <1>3 DEF ShownIn

\* Messages without a capacity do not change what is shown in the end.
LEMMA EnqueuedKeepsShowing ==
    ASSUME Typed, NEW messages \in Seq(Messages), Enqueue(messages),
           stored' = stored,
           \A i \in 1..Len(messages) : messages[i].capacity = 0,
           NEW v, Shows(v)
    PROVE  Shows(v)'
<1>1. /\ Len(queue) \in Nat /\ Len(messages) \in Nat
      /\ Len(queue') = Len(queue) + Len(messages)
      /\ \A i \in 1..Len(queue) : queue'[i] = queue[i]
      /\ \A i \in 1..Len(messages) : queue'[Len(queue) + i] = messages[i]
    BY EnqueuedIsConcat
<1>2. ASSUME NEW i \in 1..Len(queue'), i \notin 1..Len(queue)
      PROVE  queue'[i].capacity = 0
    <2>1. /\ i - Len(queue) \in 1..Len(messages)
          /\ Len(queue) + (i - Len(queue)) = i
        BY <1>1, <1>2
    <2> QED BY <1>1, <2>1
<1>3. CASE \E j \in 1..Len(queue) :
            /\ queue[j].capacity = v
            /\ \A k \in 1..Len(queue) : j < k => queue[k].capacity = 0
    <2>1. PICK j \in 1..Len(queue) :
            /\ queue[j].capacity = v
            /\ \A k \in 1..Len(queue) : j < k => queue[k].capacity = 0
        BY <1>3
    <2>2. j \in 1..Len(queue') /\ queue'[j].capacity = v
        BY <1>1, <2>1
    <2>3. \A k \in 1..Len(queue') : j < k => queue'[k].capacity = 0
        BY <1>1, <1>2, <2>1
    <2> QED BY <2>2, <2>3 DEF Shows, ShownIn
<1>4. CASE /\ \A k \in 1..Len(queue) : queue[k].capacity = 0
           /\ \E i \in 1..Len(stored) :
                /\ stored[i].capacity = v
                /\ \A k \in 1..Len(stored) : i < k => stored[k].capacity = 0
    <2>1. \A k \in 1..Len(queue') : queue'[k].capacity = 0
        BY <1>1, <1>2, <1>4
    <2> QED BY <1>4, <2>1 DEF Shows, ShownIn
<1> QED BY <1>3, <1>4 DEF Shows, ShownIn

LEMMA EmittedRows ==
    ASSUME OutboxInv, queue # <<>>
    PROVE  LET s == Emitted(Head(queue))
           IN  /\ Len(stored) \in Nat /\ Len(s) \in Nat /\ Len(s) >= 1
               /\ s[Len(s)].capacity = queue[1].capacity
               /\ s = stored \/ Len(s) = Len(stored) + 1
               /\ \A i \in 1..Len(stored) : s[i] = stored[i]
<1> DEFINE r == Row(Head(queue))
<1>1. /\ Head(queue) = queue[1]
      /\ r \in Rows /\ r.capacity = queue[1].capacity
      /\ stored \in Seq(Rows) /\ Len(stored) \in Nat
    BY HeadPosition, FieldTypes, LenProperties DEF OutboxInv, Typed, Row
<1>2. CASE Committed /\ Emitted(Head(queue)) = stored
    <2>1. Len(stored) >= 1
        BY <1>1, <1>2, EmptySeq DEF Committed
    <2> QED BY <1>1, <1>2, <2>1 DEF Committed
<1>3. CASE Emitted(Head(queue)) = Append(stored, r)
    <2>1. /\ Len(Append(stored, r)) = Len(stored) + 1
          /\ \A i \in 1..Len(stored) : Append(stored, r)[i] = stored[i]
          /\ Append(stored, r)[Len(stored) + 1] = r
        BY <1>1, AppendProperties
    <2> HIDE DEF r
    <2> QED BY <1>1, <1>3, <2>1
<1> QED BY <1>2, <1>3, HeadPosition

\* Saving a message, acknowledged or not, keeps what is shown in the end.
LEMMA SavedKeepsShowing ==
    ASSUME OutboxInv, queue # <<>>, stored' \in {stored, Emitted(Head(queue))},
           \/ queue' = queue
           \/ queue' = Tail(queue) /\ stored' = Emitted(Head(queue)),
           NEW v, v # 0, Shows(v)
    PROVE  Shows(v)'
<1> DEFINE s == Emitted(Head(queue))
<1>1. /\ Len(stored) \in Nat /\ Len(s) \in Nat /\ Len(s) >= 1
      /\ s[Len(s)].capacity = queue[1].capacity
      /\ s = stored \/ Len(s) = Len(stored) + 1
      /\ \A i \in 1..Len(stored) : s[i] = stored[i]
    BY EmittedRows
<1> DEFINE Taken == /\ Len(queue') = Len(queue) - 1
                     /\ \A i \in 1..Len(queue') :
                            queue'[i] = queue[i + 1] /\ i + 1 \in 1..Len(queue)
<1>2. /\ Len(queue) \in Nat /\ Len(queue) >= 1
      /\ queue' = queue \/ (Taken /\ stored' = s)
    <2>1. queue \in Seq(Messages) /\ Len(queue) \in Nat /\ Len(queue) >= 1
        BY HeadPosition, LenProperties DEF OutboxInv, Typed
    <2>2. CASE queue' = Tail(queue) /\ stored' = s
        <3>1. /\ Len(Tail(queue)) = Len(queue) - 1
              /\ \A i \in 1..Len(Tail(queue)) : Tail(queue)[i] = queue[i + 1]
            BY <2>1, HeadTailProperties
        <3>2. /\ Len(queue') = Len(queue) - 1
              /\ \A i \in 1..Len(queue') : queue'[i] = queue[i + 1]
            BY <2>2, <3>1
        <3>3. \A i \in 1..Len(queue') : i + 1 \in 1..Len(queue)
            BY <2>1, <3>2
        <3> QED BY <2>1, <2>2, <3>2, <3>3
    <2> QED BY <2>1, <2>2
<1>3. 1 \in 1..Len(queue)
    BY <1>2
<1> HIDE DEF s
<1>4. CASE \E j \in 1..Len(queue) :
            /\ queue[j].capacity = v
            /\ \A k \in 1..Len(queue) : j < k => queue[k].capacity = 0
    <2>1. PICK j \in 1..Len(queue) :
            /\ queue[j].capacity = v
            /\ \A k \in 1..Len(queue) : j < k => queue[k].capacity = 0
        BY <1>4
    <2>2. CASE queue' = queue
        BY <2>1, <2>2 DEF Shows, ShownIn
    <2>3. CASE Taken /\ stored' = s /\ j = 1
        <3>1. \A k \in 1..Len(queue') : queue'[k].capacity = 0
            <4>1. ASSUME NEW k \in 1..Len(queue')
                  PROVE  queue'[k].capacity = 0
                <5>1. queue'[k] = queue[k + 1] /\ k + 1 \in 1..Len(queue) /\ 1 < k + 1
                    BY <2>3
                <5> QED BY <2>1, <2>3, <5>1
            <4> QED BY <4>1
        <3>2. /\ Len(s) \in 1..Len(s) /\ s[Len(s)].capacity = v
              /\ \A k \in 1..Len(s) : ~(Len(s) < k)
            BY <1>1, <2>1, <2>3
        <3> QED BY <2>3, <3>1, <3>2 DEF Shows, ShownIn
    <2>4. CASE Taken /\ j # 1
        <3>1. /\ j - 1 \in 1..Len(queue') /\ (j - 1) + 1 = j
              /\ queue'[j - 1] = queue[(j - 1) + 1]
            BY <1>2, <2>4
        <3>2. ASSUME NEW k \in 1..Len(queue'), j - 1 < k
              PROVE  queue'[k].capacity = 0
            <4>1. queue'[k] = queue[k + 1] /\ k + 1 \in 1..Len(queue) /\ j < k + 1
                BY <1>2, <2>4, <3>2
            <4> QED BY <2>1, <4>1
        <3>3. queue'[j - 1].capacity = v
            BY <2>1, <3>1
        <3> QED BY <3>1, <3>2, <3>3 DEF Shows, ShownIn
    <2> QED BY <1>2, <2>2, <2>3, <2>4
<1>5. CASE /\ \A k \in 1..Len(queue) : queue[k].capacity = 0
           /\ \E i \in 1..Len(stored) :
                /\ stored[i].capacity = v
                /\ \A k \in 1..Len(stored) : i < k => stored[k].capacity = 0
    <2>1. PICK i \in 1..Len(stored) :
                /\ stored[i].capacity = v
                /\ \A k \in 1..Len(stored) : i < k => stored[k].capacity = 0
        BY <1>5
    <2>2. \A k \in 1..Len(queue') : queue'[k].capacity = 0
        <3>1. CASE queue' = queue
            BY <1>5, <3>1
        <3>2. CASE Taken
            <4>1. ASSUME NEW k \in 1..Len(queue')
                  PROVE  queue'[k].capacity = 0
                <5>1. queue'[k] = queue[k + 1] /\ k + 1 \in 1..Len(queue)
                    BY <3>2
                <5> QED BY <1>5, <5>1
            <4> QED BY <4>1
        <3> QED BY <1>2, <3>1, <3>2
    <2>3. CASE stored' = stored
        BY <2>1, <2>2, <2>3 DEF Shows, ShownIn
    <2>4. CASE stored' = s /\ Len(s) = Len(stored) + 1
        <3>1. queue[1].capacity = 0
            BY <1>3, <1>5
        <3>2. i \in 1..Len(s) /\ s[i].capacity = v
            BY <1>1, <2>1, <2>4
        <3>3. ASSUME NEW k \in 1..Len(s), i < k
              PROVE  s[k].capacity = 0
            <4>1. CASE k \in 1..Len(stored)
                BY <1>1, <2>1, <3>3, <4>1
            <4>2. CASE k \notin 1..Len(stored)
                <5>1. k = Len(s)
                    BY <1>1, <2>4, <4>2
                <5> QED BY <1>1, <3>1, <5>1
            <4> QED BY <4>1, <4>2
        <3> QED BY <2>2, <2>4, <3>2, <3>3 DEF Shows, ShownIn
    <2> QED BY <1>1, <2>3, <2>4 DEF s
<1> QED BY <1>4, <1>5 DEF Shows, ShownIn

\* Every connection that is open is counted, so that closing one leaves the
\* count a natural number.
LEMMA ObserversStep ==
    ASSUME StreamTyped, ObserversCounted, [Next]_vars
    PROVE  ObserversCounted'
<1>1. /\ observers \in Nat /\ IsFiniteSet(Open) /\ Cardinality(Open) \in Nat
      /\ Cardinality(Open) <= observers
      /\ phase \in [Clients -> {"off", "watching", "top", "replaying"}]
    BY FS_CardinalityType DEF ObserversCounted, StreamTyped
<1>2. CASE Open' = Open /\ observers' = observers
    BY <1>1, <1>2 DEF ObserversCounted
<1>3. ASSUME NEW c \in Clients, phase[c] = "off",
             phase' = [phase EXCEPT ![c] = "watching"], observers' = observers + 1
      PROVE  ObserversCounted'
    <2>1. Open' = Open \cup {c} /\ c \notin Open
        BY <1>1, <1>3 DEF Open
    <2>2. IsFiniteSet(Open') /\ Cardinality(Open') = Cardinality(Open) + 1
        BY <1>1, <2>1, FS_AddElement
    <2> QED BY <1>1, <1>3, <2>2 DEF ObserversCounted
<1>4. ASSUME NEW c \in Clients, phase[c] # "off",
             phase' = [phase EXCEPT ![c] = "off"],
             observers' \in {observers, observers - 1}
      PROVE  ObserversCounted'
    <2>1. Open' = Open \ {c} /\ c \in Open
        BY <1>1, <1>4 DEF Open
    <2>2. /\ IsFiniteSet(Open') /\ Cardinality(Open') = Cardinality(Open) - 1
          /\ Cardinality(Open') \in Nat
        BY <1>1, <2>1, FS_RemoveElement, FS_CardinalityType
    <2> QED BY <1>1, <1>4, <2>2 DEF ObserversCounted
<1>5. ASSUME NEW c \in Clients, phase[c] # "off", observers' = observers,
             NEW p \in {"top", "replaying"}, phase' = [phase EXCEPT ![c] = p]
      PROVE  ObserversCounted'
    <2>1. Open' = Open
        BY <1>1, <1>5 DEF Open
    <2> QED BY <1>2, <1>5, <2>1
<1>6. CASE UNCHANGED <<phase, observers>>
    BY <1>2, <1>6 DEF Open
<1>7. CASE \E kind \in Kinds \ {"capacity"} : Accept(kind)
    BY <1>6, <1>7 DEF Accept, client
<1>8. CASE CapacityChanged \/ FanOut \/ Worker \/ Expire
    BY <1>6, <1>8
       DEF CapacityChanged, FanOut, Worker, Send, SendFails, Expired, Expire, client
<1>9. CASE Forget
    BY <1>6, <1>9 DEF Forget, consumer, client
<1>10. ASSUME NEW c \in Clients, Watch(c)
       PROVE  ObserversCounted'
    BY <1>3, <1>10 DEF Watch
<1>11. ASSUME NEW c \in Clients, Snapshot(c) \/ SnapshotFails(c) \/ Replay(c)
       PROVE  ObserversCounted'
    BY <1>4, <1>5, <1>11 DEF Snapshot, SnapshotFails, Replay, consumer
<1>12. ASSUME NEW c \in Clients, TakePushed(c) \/ SendPage(c)
       PROVE  ObserversCounted'
    BY <1>5, <1>6, <1>12 DEF TakePushed, SendPage, consumer
<1>13. ASSUME NEW c \in Clients, Dismissed(c) \/ Leave(c)
       PROVE  ObserversCounted'
    BY <1>4, <1>13 DEF Dismissed, Leave, Close, Streaming
<1>14. CASE Restart
    <2>1. observers' = 0 /\ Open' = {}
        BY <1>14 DEF Restart, Open
    <2> QED BY <2>1, FS_EmptySet DEF ObserversCounted
<1>15. CASE UNCHANGED vars
    BY <1>6, <1>15 DEF vars, consumer, client
<1> QED BY <1>7, <1>8, <1>9, <1>10, <1>11, <1>12, <1>13, <1>14, <1>15
        DEF Next, Streams

\* A route goes only with the last observer, and then nobody is counted.
LEMMA WatchedStep ==
    ASSUME Typed, ObserversCounted, WatchedIsRouted, [Next]_vars
    PROVE  WatchedIsRouted'
<1> USE DEF WatchedIsRouted
<1>1. CASE \E kind \in Kinds \ {"capacity"} : Accept(kind)
    BY <1>1 DEF Accept
<1>2. CASE CapacityChanged \/ FanOut \/ SendFails \/ Expired \/ Expire
    BY <1>2 DEF CapacityChanged, FanOut, SendFails, Expired, Expire
<1>3. CASE Send
    BY <1>3 DEF Send, Retire
<1>4. CASE Forget
    BY <1>4 DEF Forget, consumer
<1>5. ASSUME NEW c \in Clients, Watch(c)
      PROVE  WatchedIsRouted'
    BY <1>5 DEF Watch
<1>6. ASSUME NEW c \in Clients,
             \/ Snapshot(c) \/ SnapshotFails(c) \/ TakePushed(c)
             \/ Replay(c) \/ SendPage(c)
      PROVE  WatchedIsRouted'
    BY <1>6 DEF Snapshot, SnapshotFails, TakePushed, Replay, SendPage, consumer
<1>7. ASSUME NEW c \in Clients, Dismissed(c) \/ Leave(c)
      PROVE  WatchedIsRouted'
    <2>1. /\ observers' = observers - 1
          /\ Streaming(c)
          /\ routed' = (routed /\ ~(terminal /\ observers - 1 = 0))
        BY <1>7 DEF Dismissed, Leave, Close, Retire, Streaming
    <2>2. observers # 0
        <3>1. c \in Open /\ IsFiniteSet(Open)
            BY <2>1 DEF Open, Streaming, ObserversCounted
        <3>2. Cardinality(Open) # 0
            BY <3>1, FS_EmptySet
        <3> QED BY <3>1, <3>2, FS_CardinalityType DEF ObserversCounted
    <2> QED BY <2>1, <2>2
<1>8. CASE Restart
    BY <1>8 DEF Restart
<1>9. CASE UNCHANGED vars
    BY <1>9 DEF vars, consumer
<1> QED BY <1>1, <1>2, <1>3, <1>4, <1>5, <1>6, <1>7, <1>8, <1>9
        DEF Next, Streams, Worker

\* What the capacity's messages depend on, where a step leaves it alone.
LEMMA ToldCarries ==
    ASSUME FansAreCurrent, ToldOrUnderWay,
           UNCHANGED <<capacity, fans, routed, late, dropped>>,
           \A v : v # 0 /\ Shows(v) => Shows(v)'
    PROVE  FansAreCurrent' /\ ToldOrUnderWay'
BY DEF FansAreCurrent, ToldOrUnderWay

\* A route that goes while a capacity is still to be queued is late.
LEMMA RetireKeepsTold ==
    ASSUME Typed, FansAreCurrent, ToldOrUnderWay,
           NEW ends \in BOOLEAN, NEW watching, Retire(ends, watching),
           UNCHANGED <<capacity, fans, dropped>>,
           \A v : v # 0 /\ Shows(v) => Shows(v)'
    PROVE  FansAreCurrent' /\ ToldOrUnderWay'
<1>1. /\ routed' => routed
      /\ late' = (late \/ (routed /\ ~routed' /\ fans # <<>>))
      /\ routed \in BOOLEAN /\ late \in BOOLEAN /\ routed' \in BOOLEAN
    BY DEF Retire, Typed
<1>2. FansAreCurrent'
    BY <1>1 DEF FansAreCurrent
<1>3. ToldOrUnderWay'
    BY <1>1 DEF ToldOrUnderWay
<1> QED BY <1>2, <1>3

LEMMA AcceptTells ==
    ASSUME Typed, FansAreCurrent, ToldOrUnderWay,
           NEW kind \in Kinds \ {"capacity"}, Accept(kind)
    PROVE  FansAreCurrent' /\ ToldOrUnderWay'
<1> DEFINE m == AcceptedMessages(kind)
<1>1. /\ Enqueue(m) /\ Room(2)
      /\ routed' = TRUE
      /\ UNCHANGED <<capacity, fans, late, dropped, stored>>
    BY DEF Accept, AcceptedMessages, manager
<1>2. m \in Seq(Messages)
    BY <1>1, AcceptedSound
<1>3. CASE ~routed /\ capacity # 0
    <2>1. m = <<CapacityNote(made + 1, capacity), [Note(kind) EXCEPT !.id = made + 2]>>
        BY <1>3 DEF AcceptedMessages
    <2>2. /\ Len(m) = 2 /\ m[1].capacity = capacity /\ m[2].capacity = 0
        BY <2>1 DEF CapacityNote, Note
    <2> HIDE DEF m
    <2>3. 1 \in 1..Len(m) /\ \A i \in 1..Len(m) : 1 < i => m[i].capacity = 0
        BY <2>2
    <2>4. ShownIn(m[1].capacity, queue', stored')
        BY <1>1, <1>2, <2>3, EnqueuedShows
    <2>5. Shows(capacity)'
        BY <1>1, <2>2, <2>4 DEF Shows
    <2> QED BY <1>1, <1>3, <2>5 DEF FansAreCurrent, ToldOrUnderWay
<1>4. CASE ~(~routed /\ capacity # 0)
    <2>1. m = <<Note(kind)>>
        BY <1>4 DEF AcceptedMessages
    <2>2. Len(m) = 1 /\ m[1].capacity = 0
        BY <2>1 DEF Note
    <2> HIDE DEF m
    <2>3. \A i \in 1..Len(m) : m[i].capacity = 0
        BY <2>2
    <2>4. \A v : v # 0 /\ Shows(v) => Shows(v)'
        BY <1>1, <1>2, <2>3, EnqueuedKeepsShowing
    <2> QED BY <1>1, <1>4, <2>4 DEF FansAreCurrent, ToldOrUnderWay
<1> QED BY <1>3, <1>4

LEMMA CapacityChangedTells ==
    ASSUME Typed, FansAreCurrent, ToldOrUnderWay, CapacityChanged
    PROVE  FansAreCurrent' /\ ToldOrUnderWay'
<1>1. /\ capacity' = capacity + 1 /\ capacity \in Nat
      /\ UNCHANGED <<routed, late, dropped>>
      /\ fans \in Seq(0..MaxCapacity) /\ Len(fans) \in Nat
      /\ capacity' \in 0..MaxCapacity
    BY LenProperties, NotificationStreamAssumption DEF CapacityChanged, Typed
<1>2. CASE routed
    <2>1. fans' = Append(fans, capacity')
        BY <1>1, <1>2 DEF CapacityChanged
    <2>2. /\ fans' # <<>> /\ Len(fans') = Len(fans) + 1
          /\ fans'[Len(fans) + 1] = capacity'
        BY <1>1, <2>1, AppendProperties
    <2> QED BY <1>1, <1>2, <2>2 DEF FansAreCurrent, ToldOrUnderWay
<1>3. CASE ~routed
    <2>1. fans' = fans
        BY <1>3 DEF CapacityChanged
    <2> QED BY <1>1, <1>3, <2>1 DEF FansAreCurrent, ToldOrUnderWay
<1> QED BY <1>2, <1>3

LEMMA FanOutTells ==
    ASSUME OutboxInv, FansAreCurrent, ToldOrUnderWay, FanOut
    PROVE  FansAreCurrent' /\ ToldOrUnderWay'
<1>1. /\ fans # <<>> /\ fans' = Tail(fans)
      /\ fans \in Seq(0..MaxCapacity)
      /\ UNCHANGED <<capacity, routed, late, dropped, stored>>
      /\ Typed
    BY DEF FanOut, OutboxInv, Typed, manager
<1>2. /\ Head(fans) = fans[1] /\ fans[1] \in 0..MaxCapacity
      /\ Len(fans) \in Nat /\ Len(fans) >= 1
      /\ fans' \in Seq(0..MaxCapacity)
      /\ Len(fans') = Len(fans) - 1
      /\ \A i \in 1..Len(fans') : fans'[i] = fans[i + 1]
    <2>1. Len(fans) \in Nat /\ Len(fans) >= 1 /\ Head(fans) = fans[1]
        BY <1>1, LenProperties, EmptySeq
    <2>2. fans[1] \in 0..MaxCapacity
        <3>1. 1 \in 1..Len(fans)
            BY <2>1
        <3> QED BY <1>1, <3>1, ElementOfSeq
    <2>3. /\ Tail(fans) \in Seq(0..MaxCapacity)
          /\ Len(Tail(fans)) = Len(fans) - 1
          /\ \A i \in 1..Len(Tail(fans)) : Tail(fans)[i] = fans[i + 1]
        BY <1>1, HeadTailProperties
    <2> QED BY <1>1, <2>1, <2>2, <2>3
<1>3. FansAreCurrent'
    <2>1. CASE fans' # <<>>
        <3>1. /\ Len(fans') \in 1..Len(fans') /\ Len(fans') + 1 = Len(fans)
            BY <1>2, <2>1, EmptySeq
        <3>2. fans'[Len(fans')] = fans[Len(fans)]
            BY <1>2, <3>1
        <3> QED BY <1>1, <3>2 DEF FansAreCurrent
    <2>2. CASE fans' = <<>>
        BY <2>2 DEF FansAreCurrent
    <2> QED BY <2>1, <2>2
<1>4. ToldOrUnderWay'
    <2> SUFFICES ASSUME fans' = <<>>, capacity # 0, ~late
                 PROVE  Shows(capacity)'
        BY <1>1 DEF ToldOrUnderWay
    <2>1. Len(fans) = 1 /\ fans[1] = capacity
        <3>1. Len(fans') = 0
            OBVIOUS
        <3>2. Len(fans) = 1
            BY <1>2, <3>1
        <3> QED BY <1>1, <3>2 DEF FansAreCurrent
    <2> DEFINE m == <<CapacityNote(made + 1, Head(fans))>>
    <2>2. made + 1 <= MaxMessages
        BY <1>1, <2>1, NotificationStreamAssumption DEF Typed
    <2>3. m \in Seq(Messages) /\ Len(m) = 1 /\ m[1].capacity = capacity
        BY <1>1, <1>2, <2>1, <2>2, NoteOfCapacity
    <2>4. Enqueue(m)
        BY DEF FanOut
    <2> HIDE DEF m
    <2>5. 1 \in 1..Len(m) /\ \A i \in 1..Len(m) : 1 < i => m[i].capacity = 0
        BY <2>3
    <2>6. ShownIn(m[1].capacity, queue', stored')
        BY <1>1, <2>3, <2>4, <2>5, EnqueuedShows
    <2> QED BY <2>3, <2>6, <1>1 DEF Shows
<1> QED BY <1>3, <1>4

LEMMA WatchTells ==
    ASSUME OutboxInv, FansAreCurrent, ToldOrUnderWay, NEW c \in Clients, Watch(c)
    PROVE  FansAreCurrent' /\ ToldOrUnderWay'
<1>1. /\ UNCHANGED <<capacity, fans, late, dropped, stored>>
      /\ routed' = TRUE
      /\ Typed /\ capacity \in 0..MaxCapacity /\ made \in Nat /\ Len(fans) \in Nat
      /\ made + Len(fans) + 1 <= MaxMessages
    BY LenProperties DEF Watch, OutboxInv, Typed, manager, Room
<1>2. made + 1 <= MaxMessages
    BY <1>1, NotificationStreamAssumption
<1> DEFINE m == <<CapacityNote(made + 1, capacity)>>
<1>3. m \in Seq(Messages) /\ Len(m) = 1 /\ m[1].capacity = capacity
    BY <1>1, <1>2, NoteOfCapacity
<1>4. Enqueue(m)
    BY DEF Watch
<1> HIDE DEF m
<1>5. 1 \in 1..Len(m) /\ \A i \in 1..Len(m) : 1 < i => m[i].capacity = 0
    BY <1>3
<1>6. ShownIn(m[1].capacity, queue', stored')
    BY <1>1, <1>3, <1>4, <1>5, EnqueuedShows
<1>7. Shows(capacity)'
    BY <1>1, <1>3, <1>6 DEF Shows
<1> QED BY <1>1, <1>7 DEF FansAreCurrent, ToldOrUnderWay

LEMMA ExpiredTells ==
    ASSUME Typed, FansAreCurrent, ToldOrUnderWay, Expired
    PROVE  FansAreCurrent' /\ ToldOrUnderWay'
<1>1. /\ UNCHANGED <<capacity, fans, routed, late, stored>>
      /\ queue' = <<>>
      /\ dropped' = dropped \cup {queue[i].id : i \in DOMAIN queue}
    BY DEF Expired, manager
<1>2. FansAreCurrent'
    BY <1>1 DEF FansAreCurrent
<1>3. CASE queue = <<>>
    <2>1. queue' = queue
        BY <1>1, <1>3
    <2>2. dropped' = {} => dropped = {}
        BY <1>1
    <2>3. \A v : Shows(v) => Shows(v)'
        BY <1>1, <2>1 DEF Shows, ShownIn
    <2> QED BY <1>1, <1>2, <2>2, <2>3 DEF ToldOrUnderWay
<1>4. CASE queue # <<>>
    <2>1. 1 \in DOMAIN queue
        <3>1. Len(queue) \in Nat /\ Len(queue) >= 1 /\ DOMAIN queue = 1..Len(queue)
            BY <1>4, LenProperties, EmptySeq DEF Typed
        <3> QED BY <3>1
    <2>2. dropped' # {}
        BY <1>1, <2>1
    <2> QED BY <1>2, <2>2 DEF ToldOrUnderWay
<1> QED BY <1>3, <1>4

LEMMA CapacityInductive == Spec => []CapacityInv
<1>1. Init => CapacityInv
    <2> SUFFICES ASSUME Init
                 PROVE  CapacityInv
        OBVIOUS
    <2>1. Open = {} /\ observers = 0
        BY DEF Init, Open
    <2>2. ObserversCounted
        BY <2>1, FS_EmptySet DEF ObserversCounted
    <2> QED BY <2>1, <2>2
            DEF Init, CapacityInv, WatchedIsRouted, FansAreCurrent, ToldOrUnderWay
<1>2. OutboxInv /\ StreamInv /\ CapacityInv /\ [Next]_vars => CapacityInv'
    <2> SUFFICES ASSUME OutboxInv, StreamInv, CapacityInv, [Next]_vars
                 PROVE  CapacityInv'
        OBVIOUS
    <2>1. /\ Typed /\ FansAreCurrent /\ ToldOrUnderWay
          /\ ObserversCounted' /\ WatchedIsRouted'
        BY ObserversStep, WatchedStep DEF OutboxInv, StreamInv, CapacityInv
    <2>2. (\A v : v # 0 /\ Shows(v) => Shows(v)') \/ queue' # queue \/ stored' # stored
        BY DEF Shows, ShownIn
    <2>3. CASE \E kind \in Kinds \ {"capacity"} : Accept(kind)
        BY <2>1, <2>3, AcceptTells DEF CapacityInv
    <2>4. CASE CapacityChanged
        BY <2>1, <2>4, CapacityChangedTells DEF CapacityInv
    <2>5. CASE FanOut
        BY <2>1, <2>5, FanOutTells DEF CapacityInv
    <2>6. CASE Send
        <3>1. /\ queue # <<>> /\ queue' = Tail(queue)
              /\ UNCHANGED <<capacity, fans, dropped>>
              /\ Retire(Head(queue).kind = "end", observers)
              /\ stored' = Emitted(Head(queue))
            BY <2>6, SendKeeps DEF Send
        <3>2. \A v : v # 0 /\ Shows(v) => Shows(v)'
            BY <3>1, SavedKeepsShowing
        <3> QED BY <2>1, <3>1, <3>2, RetireKeepsTold DEF CapacityInv
    <2>7. CASE SendFails
        <3>1. /\ queue # <<>> /\ queue' = queue
              /\ UNCHANGED <<capacity, fans, routed, late, dropped>>
              /\ stored' \in {stored, Emitted(Head(queue))}
            BY <2>7, SendFailsKeeps DEF SendFails
        <3>2. \A v : v # 0 /\ Shows(v) => Shows(v)'
            BY <3>1, SavedKeepsShowing
        <3> QED BY <2>1, <3>1, <3>2, ToldCarries DEF CapacityInv
    <2>8. CASE Expired
        BY <2>1, <2>8, ExpiredTells DEF CapacityInv
    <2>9. CASE Expire
        <3>1. UNCHANGED <<queue, stored, capacity, fans, routed, late, dropped>>
            BY <2>9 DEF Expire, manager
        <3> QED BY <2>1, <2>2, <3>1, ToldCarries DEF CapacityInv
    <2>10. CASE Forget
        <3>1. UNCHANGED <<queue, stored, capacity, fans, routed, late, dropped>>
            BY <2>10 DEF Forget, consumer
        <3> QED BY <2>1, <2>2, <3>1, ToldCarries DEF CapacityInv
    <2>11. ASSUME NEW c \in Clients, Watch(c)
           PROVE  CapacityInv'
        BY <2>1, <2>11, WatchTells DEF CapacityInv
    <2>12. ASSUME NEW c \in Clients,
                  \/ Snapshot(c) \/ SnapshotFails(c) \/ TakePushed(c)
                  \/ Replay(c) \/ SendPage(c)
           PROVE  CapacityInv'
        <3>1. UNCHANGED <<queue, stored, capacity, fans, routed, late, dropped>>
            BY <2>12 DEF Snapshot, SnapshotFails, TakePushed, Replay, SendPage,
                consumer, manager
        <3> QED BY <2>1, <2>2, <3>1, ToldCarries DEF CapacityInv
    <2>13. ASSUME NEW c \in Clients, Dismissed(c) \/ Leave(c)
           PROVE  CapacityInv'
        <3>1. /\ UNCHANGED <<queue, stored, capacity, fans, dropped>>
              /\ Retire(terminal, observers - 1)
            BY <2>13 DEF Dismissed, Leave, Close
        <3>2. terminal \in BOOLEAN
            BY <2>1 DEF Typed
        <3> QED BY <2>1, <2>2, <3>1, <3>2, RetireKeepsTold DEF CapacityInv
    <2>14. CASE Restart
        <3>1. capacity' = 0 /\ fans' = <<>>
            BY <2>14 DEF Restart
        <3> QED BY <2>1, <3>1 DEF CapacityInv, FansAreCurrent, ToldOrUnderWay
    <2>15. CASE UNCHANGED vars
        <3>1. UNCHANGED <<queue, stored, capacity, fans, routed, late, dropped>>
            BY <2>15 DEF vars, consumer, manager
        <3> QED BY <2>1, <2>2, <3>1, ToldCarries DEF CapacityInv
    <2> QED BY <2>3, <2>4, <2>5, <2>6, <2>7, <2>8, <2>9, <2>10, <2>11, <2>12, <2>13,
            <2>14, <2>15 DEF Next, Streams, Worker
<1> QED BY <1>1, <1>2, OutboxInductive, StreamsInductive, PTL DEF Spec

\* Who watches a task is told the changes of the capacity, and when nothing is
\* under way the last capacity the outbox shows is that of the pool, although
\* changes, subscriptions and new routes queue it independently, unless a
\* queue was given up or a route went while a capacity was still to be queued.
\* (NotificationConsumer._retire, watch, capacity_changed, accept)
THEOREM WatchersSeeCapacity == Spec => []CapacityReachesWatchers
<1>1. OutboxInv /\ CapacityInv => CapacityReachesWatchers
    <2> SUFFICES ASSUME OutboxInv, CapacityInv
                 PROVE  CapacityIsCurrent
        BY DEF CapacityReachesWatchers, CapacityInv
    <2> SUFFICES ASSUME routed, queue = <<>>, fans = <<>>, capacity # 0,
                        dropped = {}, ~late
                 PROVE  LastCapacity = capacity
        BY DEF CapacityIsCurrent
    <2>1. Shows(capacity) /\ Len(queue) = 0
        BY DEF CapacityInv, ToldOrUnderWay
    <2>2. PICK i \in 1..Len(stored) :
            /\ stored[i].capacity = capacity
            /\ \A k \in 1..Len(stored) : i < k => stored[k].capacity = 0
        BY <2>1 DEF Shows, ShownIn
    <2>3. DOMAIN stored = 1..Len(stored) /\ Len(stored) \in Nat
        BY LenProperties DEF OutboxInv, Typed
    <2> DEFINE Known == {k \in DOMAIN stored : stored[k].capacity # 0}
    <2>4. /\ i \in Known
          /\ \A j \in Known : j <= i /\ j \in Nat
        BY <2>2, <2>3
    <2> DEFINE last == CHOOSE k \in Known : \A j \in Known : j <= k
    <2>5. last \in Known /\ \A j \in Known : j <= last
        BY <2>4
    <2> HIDE DEF last, Known
    <2>6. last = i
        <3>1. last <= i /\ i <= last /\ last \in Nat /\ i \in Nat
            BY <2>4, <2>5
        <3> QED BY <3>1
    <2>7. LastCapacity = stored[last].capacity
        BY <2>4 DEF LastCapacity, last, Known
    <2> QED BY <2>2, <2>6, <2>7
<1> QED BY <1>1, OutboxInductive, CapacityInductive, PTL

\* The elements of a sequence give its type.
LEMMA SeqOfElements ==
    ASSUME NEW S, NEW T, NEW s \in Seq(S), \A i \in 1..Len(s) : s[i] \in T
    PROVE  s \in Seq(T)
<1>1. Len(s) \in Nat /\ s \in [1..Len(s) -> S]
    BY LenProperties
<1>2. s \in [1..Len(s) -> T]
    BY <1>1
<1> QED BY <1>1, <1>2, SeqDef

\* Type correctness, with the bounds on the positions and on the queues of the
\* connections.  (NotificationConsumer, EventManager, event_generator)
THEOREM NotificationTypes == Spec => []TypeOK
<1>1. OutboxInv /\ StreamInv /\ CapacityInv => TypeOK
    <2> SUFFICES ASSUME OutboxInv, StreamInv, CapacityInv
                 PROVE  TypeOK
        OBVIOUS
    <2>1. /\ Typed /\ StreamTyped /\ StoredInOrder
          /\ Len(stored) \in Nat /\ Len(fans) \in Nat /\ made \in Nat
          /\ made + Len(fans) <= MaxMessages /\ MaxMessages \in Nat
        BY LenProperties, NotificationStreamAssumption
           DEF OutboxInv, Typed, Ordering, StreamInv
    <2>2. made \in 0..MaxMessages
        BY <2>1
    <2>3. Len(stored) <= made
        <3>1. CASE Len(stored) = 0
            BY <2>1, <3>1
        <3>2. CASE Len(stored) # 0
            <4>1. Len(stored) \in 1..Len(stored)
                BY <2>1, <3>2
            <4>2. stored[Len(stored)].id \in Nat
                BY <4>1, ElementOfSeq, FieldTypes DEF OutboxInv, Typed
            <4> QED BY <2>1, <4>1, <4>2 DEF StoredInOrder
        <3> QED BY <3>1, <3>2
    <2>4. \A n \in Nat : n <= Len(stored) => n \in 0..MaxMessages
        BY <2>1, <2>2, <2>3
    <2>5. \A n \in Nat : 1 <= n /\ n <= Len(stored) => n \in Positions
        BY <2>1, <2>2, <2>3 DEF Positions
    <2>6. cursor \in Nat /\ (warm => cursor <= Len(stored))
        BY <2>1 DEF OutboxInv, Ordering, ProjectionSound, Typed
    <2>7. cursor \in 0..MaxMessages
        <3>1. warm \/ cursor = 0
            BY DEF OutboxInv, Ordering, ProjectionSound
        <3> QED BY <2>1, <2>4, <2>6, <3>1
    <2>8. ASSUME NEW c \in Clients
          PROVE  /\ got[c] \in Seq(Positions)
                 /\ page[c] \in Seq(Positions)
                 /\ pushed[c] \in Seq(Positions \cup {Reconnect})
                 /\ base[c] \in 0..MaxMessages
                 /\ Len(pushed[c]) <= QueueSize
        <3>1. Follows(c)
            BY DEF StreamInv, Follows
        <3>2. /\ Reach(c) \in Nat /\ base[c] \in Nat /\ got[c] \in Seq(Nat)
              /\ page[c] \in Seq(Nat) /\ pushed[c] \in Seq(Nat)
              /\ Len(got[c]) \in Nat /\ Len(page[c]) \in Nat /\ Len(pushed[c]) \in Nat
              /\ Reach(c) = base[c] + Len(got[c])
            BY <2>1, <3>1, PositionIsReach, LenProperties DEF Follows, StreamTyped, Reach
        <3>3. /\ Reach(c) <= Len(stored)
              /\ \A i \in 1..Len(got[c]) : got[c][i] = base[c] + i
              /\ Reach(c) + Len(page[c]) <= Len(stored)
              /\ \A i \in 1..Len(page[c]) : page[c][i] = Reach(c) + i
            BY <3>1 DEF Follows, SentInOrder, PageComesNext
        <3>4. base[c] \in 0..MaxMessages
            BY <2>1, <2>4, <3>2, <3>3
        <3>5. got[c] \in Seq(Positions)
            <4>1. ASSUME NEW i \in 1..Len(got[c])
                  PROVE  got[c][i] \in Positions
                <5>1. base[c] + i \in Nat /\ 1 <= base[c] + i /\ base[c] + i <= Len(stored)
                    <6>1. base[c] \in Nat /\ Len(got[c]) \in Nat /\ Len(stored) \in Nat
                        BY <2>1, <3>2
                    <6>2. base[c] + Len(got[c]) <= Len(stored)
                        BY <3>2, <3>3
                    <6> QED BY <6>1, <6>2
                <5> QED BY <2>5, <3>3, <5>1
            <4> QED BY <3>2, <4>1, SeqOfElements
        <3>6. page[c] \in Seq(Positions)
            <4>1. ASSUME NEW i \in 1..Len(page[c])
                  PROVE  page[c][i] \in Positions
                <5>1. Reach(c) + i \in Nat /\ 1 <= Reach(c) + i /\ Reach(c) + i <= Len(stored)
                    <6>1. Reach(c) \in Nat /\ Len(page[c]) \in Nat /\ Len(stored) \in Nat
                        BY <2>1, <3>2
                    <6>2. Reach(c) + Len(page[c]) <= Len(stored)
                        BY <3>2, <3>3
                    <6> QED BY <6>1, <6>2
                <5> QED BY <2>5, <3>3, <5>1
            <4> QED BY <3>2, <4>1, SeqOfElements
        <3>7. pushed[c] \in Seq(Positions \cup {Reconnect})
            <4>1. CASE c \in registered
                <5>1. /\ Len(pushed[c]) <= cursor /\ cursor <= Len(stored) /\ cursor \in Nat
                      /\ \A i \in 1..Len(pushed[c]) :
                            pushed[c][i] + Len(pushed[c]) = cursor + i
                    BY <2>6, <3>1, <4>1 DEF Follows, PushedIsLatest, StreamInv
                <5>2. ASSUME NEW i \in 1..Len(pushed[c])
                      PROVE  pushed[c][i] \in Positions
                    <6>1. pushed[c][i] \in Nat /\ pushed[c][i] + Len(pushed[c]) = cursor + i
                        BY <3>2, <5>1, ElementOfSeq
                    <6>2. 1 <= pushed[c][i] /\ pushed[c][i] <= Len(stored)
                        <7>1. /\ Len(pushed[c]) \in Nat /\ Len(stored) \in Nat
                              /\ cursor \in Nat /\ cursor <= Len(stored)
                              /\ Len(pushed[c]) <= cursor
                            BY <2>1, <3>2, <5>1
                        <7> QED BY <6>1, <7>1
                    <6> QED BY <2>5, <6>1, <6>2
                <5> QED BY <3>2, <5>2, SeqOfElements
            <4>2. CASE c \notin registered
                <5>1. pushed[c] = <<>> \/ pushed[c] = <<Reconnect>>
                    BY <3>1, <4>2 DEF Follows, RegisteredOrDismissed
                <5>2. <<>> \in Seq(Positions \cup {Reconnect})
                    OBVIOUS
                <5>3. <<Reconnect>> \in Seq(Positions \cup {Reconnect})
                    OBVIOUS
                <5> QED BY <5>1, <5>2, <5>3
            <4> QED BY <4>1, <4>2
        <3>8. Len(pushed[c]) <= QueueSize
            BY <3>1 DEF Follows, RegisteredOrDismissed
        <3> QED BY <3>4, <3>5, <3>6, <3>7, <3>8
    <2>9. /\ pushed \in [Clients -> Seq(Positions \cup {Reconnect})]
          /\ page \in [Clients -> Seq(Positions)]
          /\ base \in [Clients -> 0..MaxMessages]
          /\ got \in [Clients -> Seq(Positions)]
          /\ \A c \in Clients : Len(pushed[c]) <= QueueSize
          /\ registered \subseteq Clients
          /\ phase \in [Clients -> {"off", "watching", "top", "replaying"}]
        BY <2>1, <2>8 DEF StreamTyped
    <2>10. stored \in Seq([id : 1..MaxMessages, capacity : 0..MaxCapacity])
        BY <2>1 DEF Typed, Rows
    <2>11. observers \in Nat
        BY DEF CapacityInv, ObserversCounted
    <2>12. /\ queue \in Seq(Messages)
           /\ worker \in {"none", "waiting", "expired", "retrying"}
           /\ capacity \in 0..MaxCapacity
           /\ fans \in Seq(0..MaxCapacity)
           /\ routed \in BOOLEAN /\ late \in BOOLEAN /\ terminal \in BOOLEAN
           /\ warm \in BOOLEAN
           /\ dropped \subseteq 1..MaxMessages
           /\ troubles \in 0..MaxTroubles /\ restarts \in 0..MaxRestarts
        BY <2>1 DEF Typed
    <2> QED BY <2>2, <2>7, <2>9, <2>10, <2>11, <2>12 DEF TypeOK
<1> QED BY <1>1, OutboxInductive, StreamsInductive, CapacityInductive, PTL
=============================================================================
