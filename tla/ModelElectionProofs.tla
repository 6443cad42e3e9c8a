------------------------ MODULE ModelElectionProofs ------------------------
(***************************************************************************)
(* Proofs about the model pool, for any runs, works, models and edits of   *)
(* the configuration, with or without the suspension of the loop.          *)
(***************************************************************************)
EXTENDS ModelElection, FiniteSetTheorems, TLAPS

(* The ledger is always finite: seats are taken one at a time. *)
LedgerFinite == IsFiniteSet(seats)

(* While the loop is suspended it holds a result, and the queue is not empty. *)
ResultHeld ==
    \A r \in Runs : mpc[r] = "notify" => electing[r] \in Assignment /\ pending[r] # <<>>

TypeInv == PoolTypeOK /\ LedgerFinite /\ ResultHeld

-----------------------------------------------------------------------------
(* The least free position *)

(* A set of naturals that is not empty has a least element. *)
LEMMA LeastElement ==
    ASSUME NEW T, T \subseteq Nat, T # {}
    PROVE  \E x \in T : \A y \in T : ~(y < x)
<1>1. IsWellFoundedOn(OpToRel(<, Nat), Nat)
    BY NatLessThanWellFounded
<1>2. PICK x \in T : \A y \in T : ~(<<y, x>> \in OpToRel(<, Nat))
    BY <1>1, WFMin
<1>3. \A y \in T : y < x => <<y, x>> \in OpToRel(<, Nat)
    BY DEF OpToRel
<1> QED
    BY <1>2, <1>3

(* reserve() always finds a position, and no seat of the model has it: among the *)
(* first n + 1 positions at least one is not used by n seats.                    *)
LEMMA FreeSlotIsFree ==
    ASSUME PoolTypeOK, LedgerFinite, NEW m
    PROVE  /\ FreeSlot(m) \in Nat
           /\ \A s \in SeatsAt(m) : s.slot # FreeSlot(m)
<1> DEFINE used == {s.slot : s \in SeatsAt(m)}
           n == Cardinality(used)
           free == (0..n) \ used
           slotOf == [s \in SeatsAt(m) |-> s.slot]
<1>1. IsFiniteSet(SeatsAt(m))
    BY FS_Subset DEF SeatsAt, LedgerFinite
<1>2. slotOf \in Surjection(SeatsAt(m), used)
    BY DEF Surjection
<1>3. IsFiniteSet(used) /\ n \in Nat
    BY <1>1, <1>2, FS_Surjection, FS_CardinalityType
<1>4. free # {}
    <2>1. SUFFICES ASSUME free = {} PROVE FALSE
        OBVIOUS
    <2>2. 0..n \in SUBSET used
        BY <2>1
    <2>3. Cardinality(0..n) = n + 1
        BY <1>3, FS_Interval
    <2>4. Cardinality(0..n) <= n
        BY <1>3, <2>2, FS_Subset
    <2> QED
        BY <1>3, <2>3, <2>4
<1>5. PICK x \in free : \A y \in free : ~(y < x)
    <2>1. free \subseteq Nat
        BY <1>3
    <2> QED
        BY <1>4, <2>1, LeastElement
<1>6. \A j \in 0..x-1 : j \in used
    BY <1>3, <1>5
<1>7. \E i \in 0..n : i \notin used /\ \A j \in 0..i-1 : j \in used
    BY <1>5, <1>6
<1>8. FreeSlot(m) \in 0..n /\ FreeSlot(m) \notin used
    BY <1>7 DEF FreeSlot
<1> QED
    BY <1>3, <1>8

-----------------------------------------------------------------------------
(* Type correctness *)

(* What changes the ledger keeps it finite and well typed. *)
LEMMA ReservedType ==
    ASSUME PoolTypeOK, LedgerFinite, NEW w \in Works, NEW n \in Nat, NEW m \in Models
    PROVE  Reserved(w, n, m) \in SUBSET Seat /\ IsFiniteSet(Reserved(w, n, m))
<1>1. FreeSlot(m) \in Nat
    BY FreeSlotIsFree
<1>2. Reserved(w, n, m) \in SUBSET Seat
    BY <1>1, ModelElectionAssumption DEF Reserved, Seat, PoolTypeOK
<1>3. IsFiniteSet(Reserved(w, n, m))
    BY FS_AddElement DEF Reserved, LedgerFinite
<1> QED
    BY <1>2, <1>3

LEMMA SubledgerType ==
    ASSUME PoolTypeOK, LedgerFinite, NEW t, t \subseteq seats
    PROVE  t \in SUBSET Seat /\ IsFiniteSet(t)
    BY FS_Subset DEF PoolTypeOK, LedgerFinite

LEMMA NoElectionIsNone == NoElection \notin Assignment /\ NoElection.attempt = 0
    BY ModelElectionAssumption DEF NoElection, Assignment

LEMMA TypeInit == PoolInit => TypeInv
    BY FS_EmptySet, ModelElectionAssumption
    DEF PoolInit, TypeInv, PoolTypeOK, LedgerFinite, ResultHeld, LoopStates

(* Handing out a result of the right type. *)
LEMMA HandOutType ==
    ASSUME PoolTypeOK, NEW r \in Runs, NEW a \in Assignment, pending[r] # <<>>,
           HandOut(r, a)
    PROVE  /\ reservations' \in [Works -> Nat]
           /\ attempts' \in [Works -> Nat]
           /\ pending' \in [Runs -> Seq(Works)]
           /\ assignments' \in [Runs -> Seq(Assignment)]
<1>1. a.work \in Works /\ a.attempt \in Nat
    BY DEF Assignment
<1>2. Tail(pending[r]) \in Seq(Works)
    BY DEF PoolTypeOK
<1>3. Append(assignments[r], a) \in Seq(Assignment)
    BY DEF PoolTypeOK
<1> QED
    BY <1>1, <1>2, <1>3 DEF PoolTypeOK, HandOut

LEMMA TypeStep == TypeInv /\ [PoolNext]_poolVars => TypeInv'
<1> SUFFICES ASSUME TypeInv, [PoolNext]_poolVars PROVE TypeInv'
    OBVIOUS
<1>0. PoolTypeOK /\ LedgerFinite /\ ResultHeld
    BY DEF TypeInv
<1>1. ASSUME NEW r \in Runs, NEW w \in Works, NEW m \in Models, Elect(r, w, m)
      PROVE  TypeInv'
    <2> DEFINE a == [work |-> w, attempt |-> attempts[w] + 1, model |-> m]
    <2>1. a \in Assignment
        BY <1>0 DEF PoolTypeOK, Assignment
    <2>2. seats' \in SUBSET Seat /\ IsFiniteSet(seats')
        BY <1>0, <1>1, ReservedType DEF Elect, PoolTypeOK
    <2>3. pending[r] # <<>> /\ mpc[r] = "poll"
        BY <1>1 DEF Elect, AtHead
    <2>4. CASE NotifySuspends
        <3>1. /\ mpc' = [mpc EXCEPT ![r] = "notify"]
              /\ electing' = [electing EXCEPT ![r] = a]
              /\ UNCHANGED <<reservations, attempts, pending, assignments>>
            BY <1>1, <2>4 DEF Elect
        <3>2. mpc' \in [Runs -> LoopStates]
            BY <1>0, <3>1 DEF PoolTypeOK, LoopStates
        <3>3. electing' \in [Runs -> Assignment \cup {NoElection}]
            BY <1>0, <2>1, <3>1 DEF PoolTypeOK
        <3>4. ResultHeld'
            BY <1>0, <2>1, <2>3, <3>1 DEF ResultHeld, PoolTypeOK
        <3> QED
            BY <1>0, <1>1, <2>2, <3>1, <3>2, <3>3, <3>4
            DEF Elect, PoolTypeOK, LedgerFinite, TypeInv
    <2>5. CASE ~NotifySuspends
        <3>1. HandOut(r, a) /\ UNCHANGED <<mpc, electing>>
            BY <1>1, <2>5 DEF Elect
        <3>2. ResultHeld'
            BY <1>0, <2>3, <3>1 DEF ResultHeld, PoolTypeOK, HandOut
        <3> QED
            BY <1>0, <1>1, <2>1, <2>2, <2>3, <3>1, <3>2, HandOutType
            DEF Elect, PoolTypeOK, LedgerFinite, TypeInv
    <2> QED
        BY <2>4, <2>5
<1>2. ASSUME NEW r \in Runs, Publish(r) PROVE TypeInv'
    <2>1. electing[r] \in Assignment /\ pending[r] # <<>>
        BY <1>0, <1>2 DEF Publish, ResultHeld
    <2>2. /\ HandOut(r, electing[r])
          /\ mpc' = [mpc EXCEPT ![r] = "poll"]
          /\ electing' = [electing EXCEPT ![r] = NoElection]
          /\ UNCHANGED <<config, unhealthy, seats, cooling, selection_error,
                         closed, attached>>
        BY <1>2 DEF Publish
    <2>3. mpc' \in [Runs -> LoopStates]
        BY <1>0, <2>2 DEF PoolTypeOK, LoopStates
    <2>4. ResultHeld'
        BY <1>0, <2>2 DEF ResultHeld, PoolTypeOK, HandOut
    <2> QED
        BY <1>0, <2>1, <2>2, <2>3, <2>4, HandOutType DEF PoolTypeOK, LedgerFinite, TypeInv
<1>3. ASSUME NEW r \in Runs, NEW w \in Works, ElectionFails(r, w) PROVE TypeInv'
    <2>1. PICK failed \in BOOLEAN :
             selection_error' = [selection_error EXCEPT ![r] = failed]
        BY <1>0, <1>3 DEF ElectionFails, PoolTypeOK, MayElect
    <2>2. PICK late \in BOOLEAN : cooling' = [cooling EXCEPT ![w] = late]
        BY <1>0, <1>3 DEF ElectionFails, PoolTypeOK
    <2>3. PICK p \in {"error", "exhausted", mpc[r]} : mpc' = [mpc EXCEPT ![r] = p]
        BY <1>3 DEF ElectionFails
    <2>4. mpc' \in [Runs -> LoopStates] /\ mpc[r] = "poll"
        BY <1>0, <1>3, <2>3 DEF PoolTypeOK, LoopStates, Failures, ElectionFails, AtHead
    <2>5. UNCHANGED <<config, unhealthy, seats, pending, attempts, reservations,
                      electing, assignments, closed, attached>>
        BY <1>3 DEF ElectionFails
    <2> QED
        BY <1>0, <2>1, <2>2, <2>3, <2>4, <2>5
        DEF PoolTypeOK, LedgerFinite, ResultHeld, TypeInv
<1>4. ASSUME NEW r \in Runs, LoopEnds(r) PROVE TypeInv'
    BY <1>0, <1>4 DEF LoopEnds, PoolTypeOK, LoopStates, LedgerFinite, ResultHeld, TypeInv
<1>5. ASSUME NEW r \in Runs, LoopCrashes(r) PROVE TypeInv'
    BY <1>0, <1>5
    DEF LoopCrashes, PoolTypeOK, LoopStates, Failures, LedgerFinite, ResultHeld, TypeInv
<1>6. ASSUME NEW w \in Works, CoolingEnds(w) PROVE TypeInv'
    BY <1>0, <1>6 DEF CoolingEnds, PoolTypeOK, LedgerFinite, ResultHeld, TypeInv
<1>7. ASSUME NEW m \in Models, ScoreDrops(m) \/ ScoreRecovers(m) PROVE TypeInv'
    BY <1>0, <1>7 DEF ScoreDrops, ScoreRecovers, PoolTypeOK, LedgerFinite, ResultHeld, TypeInv
<1>8. ASSUME NEW c \in Configs, Reconfigure(c) PROVE TypeInv'
    BY <1>0, <1>8 DEF Reconfigure, PoolTypeOK, LedgerFinite, ResultHeld, TypeInv
<1>9. ASSUME NEW w \in Works, Enqueue(w) PROVE TypeInv'
    <2> DEFINE r == RunOf[w]
    <2>1. r \in Runs
        BY ModelElectionAssumption
    <2>2. PICK q \in {pending[r], <<w>> \o pending[r], Append(pending[r], w)} :
             pending' = [pending EXCEPT ![r] = q]
        BY <1>0, <1>9, <2>1 DEF Enqueue, PoolTypeOK
    <2>3. pending[r] \in Seq(Works)
        BY <1>0, <2>1 DEF PoolTypeOK
    <2>4. q \in Seq(Works) /\ (pending[r] # <<>> => q # <<>>)
        <3>1. CASE q = pending[r]
            BY <2>3, <3>1
        <3>2. CASE q = <<w>> \o pending[r]
            <4>1. q \in Seq(Works) /\ Len(q) = 1 + Len(pending[r])
                BY <2>3, <3>2
            <4> QED
                BY <2>3, <4>1
        <3>3. CASE q = Append(pending[r], w)
            BY <2>3, <3>3
        <3> QED
            BY <2>2, <3>1, <3>2, <3>3
    <2>5. UNCHANGED <<config, unhealthy, seats, attempts, cooling, reservations,
                      selection_error, electing, assignments, mpc, closed, attached>>
        BY <1>9 DEF Enqueue
    <2> QED
        BY <1>0, <2>1, <2>2, <2>4, <2>5 DEF PoolTypeOK, LedgerFinite, ResultHeld, TypeInv
<1>10. ASSUME NEW w \in Works, NEW n \in 1..attempts[w], NEW o \in {"retry", "saved"},
              Feedback(w, n, o)
       PROVE  TypeInv'
    <2>1. seats' \subseteq seats
        BY <1>10 DEF Feedback, Released
    <2>2. seats' \in SUBSET Seat /\ IsFiniteSet(seats')
        BY <1>0, <2>1, SubledgerType
    <2>3. reservations' \in [Works -> Nat]
        <3>1. \/ reservations' = reservations
              \/ reservations' = [reservations EXCEPT ![w] = 0]
            BY <1>10 DEF Feedback
        <3>2. reservations \in [Works -> Nat]
            BY <1>0 DEF PoolTypeOK
        <3> QED
            BY <3>1, <3>2
    <2>4. PICK c \in BOOLEAN : cooling' = [cooling EXCEPT ![w] = c] \/ cooling' = cooling
        BY <1>10 DEF Feedback
    <2>5. cooling' \in [Works -> BOOLEAN]
        BY <1>0, <2>4 DEF PoolTypeOK
    <2> QED
        BY <1>0, <1>10, <2>2, <2>3, <2>5
        DEF Feedback, PoolTypeOK, LedgerFinite, ResultHeld, TypeInv
<1>11. ASSUME NEW r \in Runs, StartLoop(r) PROVE TypeInv'
    BY <1>0, <1>11 DEF StartLoop, PoolTypeOK, LoopStates, LedgerFinite, ResultHeld, TypeInv
<1>12. ASSUME NEW r \in Runs, NEW stop \in BOOLEAN, TakeAssignment(r, stop) PROVE TypeInv'
    <2>1. Tail(assignments[r]) \in Seq(Assignment)
        BY <1>0, <1>12 DEF TakeAssignment, PoolTypeOK
    <2> QED
        BY <1>0, <1>12, <2>1 DEF TakeAssignment, PoolTypeOK, LedgerFinite, ResultHeld, TypeInv
<1>13. ASSUME NEW r \in Runs, StopElections(r) PROVE TypeInv'
    BY <1>0, <1>13 DEF StopElections, PoolTypeOK, LedgerFinite, ResultHeld, TypeInv
<1>14. ASSUME NEW r \in Runs, CancelLoop(r) PROVE TypeInv'
    <2>1. mpc' = [mpc EXCEPT ![r] = IF LoopAlive(r) THEN "cancelled" ELSE @]
        BY <1>14 DEF CancelLoop
    <2>2. mpc' \in [Runs -> LoopStates]
        BY <1>0, <2>1 DEF PoolTypeOK, LoopStates
    <2>3. ResultHeld'
        BY <1>0, <1>14, <2>1 DEF ResultHeld, CancelLoop, PoolTypeOK, LoopAlive
    <2> QED
        BY <1>0, <1>14, <2>2, <2>3 DEF CancelLoop, PoolTypeOK, LedgerFinite, TypeInv
<1>15. ASSUME NEW r \in Runs, Close(r) PROVE TypeInv'
    <2>1. seats' \subseteq seats
        BY <1>15 DEF Close, ReleasedAll
    <2>2. seats' \in SUBSET Seat /\ IsFiniteSet(seats')
        BY <1>0, <2>1, SubledgerType
    <2> QED
        BY <1>0, <1>15, <2>2 DEF Close, PoolTypeOK, LedgerFinite, ResultHeld, TypeInv
<1>16. CASE UNCHANGED poolVars
    BY <1>0, <1>16 DEF poolVars, PoolTypeOK, LedgerFinite, ResultHeld, TypeInv
<1> QED
    BY <1>1, <1>2, <1>3, <1>4, <1>5, <1>6, <1>7, <1>8, <1>9, <1>10, <1>11, <1>12,
       <1>13, <1>14, <1>15, <1>16
    DEF PoolNext, LoopStep, Surroundings, Caller

LEMMA TypeInvariant == PoolSpec => []TypeInv
    BY TypeInit, TypeStep, PTL DEF PoolSpec

(* The pool is type correct: no sequence of requests, feedback, edits of the *)
(* configuration or losses of health brings a part of its state out of its   *)
(* domain.                                                                   *)
THEOREM TypeCorrect == PoolSpec => []PoolTypeOK
    BY TypeInvariant, PTL DEF TypeInv

-----------------------------------------------------------------------------
(* The ledger *)

(* Only works of a run wait in its pool. *)
QueueOwned == \A r \in Runs : \A i \in 1..Len(pending[r]) : RunOf[pending[r][i]] = r

(* A pool off the bus elects no more. *)
DetachedIsClosed == \A r \in Runs : ~attached[r] => closed[r]

(* Between two iterations no election is under way. *)
ElectingOnlyInNotify ==
    \A r \in Runs : mpc[r] \in {"off", "poll"} => electing[r] = NoElection

(* What a suspended election holds: a seat in the ledger, for a work of the run *)
(* that has no reservation yet.                                                 *)
HeldSeat(r) ==
    /\ RunOf[electing[r].work] = r
    /\ reservations[electing[r].work] = 0
    /\ electing[r].attempt > 0
    /\ \E s \in seats : s.work = electing[r].work /\ s.attempt = electing[r].attempt
NotifyHoldsSeat == \A r \in Runs : mpc[r] = "notify" => HeldSeat(r)

AttemptsNumbered == \A s \in seats : s.attempt > 0

LedgerInv ==
    /\ LedgerExact
    /\ OneSeatPerWork
    /\ SlotsDistinct
    /\ AttemptsNumbered
    /\ NotifyHoldsSeat
    /\ ElectingOnlyInNotify
    /\ DetachedIsClosed
    /\ QueueOwned

LEMMA LedgerInit == PoolInit => LedgerInv
    BY ModelElectionAssumption
    DEF PoolInit, LedgerInv, LedgerExact, OneSeatPerWork, SlotsDistinct, AttemptsNumbered,
        NotifyHoldsSeat, ElectingOnlyInNotify, DetachedIsClosed, QueueOwned

(* A step that leaves the ledger, the reservations, the elections and the queue  *)
(* alone, begins no election and attaches no pool.                               *)
Quiet ==
    /\ UNCHANGED <<seats, reservations, electing, attached, pending>>
    /\ \A r \in Runs : /\ mpc'[r] = "notify" => mpc[r] = "notify"
                       /\ mpc'[r] \in {"off", "poll"} => mpc[r] \in {"off", "poll"}
                       /\ closed[r] => closed'[r]

LEMMA QuietKeepsLedger == LedgerInv /\ Quiet => LedgerInv'
<1> SUFFICES ASSUME LedgerInv, Quiet PROVE LedgerInv'
    OBVIOUS
<1>1. UNCHANGED <<seats, reservations, electing, attached, pending>>
    BY DEF Quiet
<1>2. (LedgerExact /\ OneSeatPerWork /\ SlotsDistinct /\ AttemptsNumbered /\ QueueOwned)'
    BY <1>1 DEF LedgerInv, LedgerExact, OneSeatPerWork, SlotsDistinct, AttemptsNumbered,
                QueueOwned
<1>3. NotifyHoldsSeat'
    BY <1>1 DEF Quiet, LedgerInv, NotifyHoldsSeat, HeldSeat
<1>4. (ElectingOnlyInNotify /\ DetachedIsClosed)'
    BY <1>1 DEF Quiet, LedgerInv, ElectingOnlyInNotify, DetachedIsClosed
<1> QED
    BY <1>2, <1>3, <1>4 DEF LedgerInv

(* A work that may be elected has no seat: this is what makes the seat of an     *)
(* election its only one.                                                        *)
LEMMA ElectedHasNoSeat ==
    ASSUME LedgerInv, TypeInv, NEW r \in Runs, NEW w \in Works, AtHead(r, w),
           MayElect(r, w)
    PROVE  RunOf[w] = r /\ electing[r] = NoElection /\ \A s \in seats : s.work # w
<1>1. mpc[r] = "poll" /\ pending[r] # <<>> /\ w = Head(pending[r]) /\ reservations[w] = 0
    BY DEF AtHead, MayElect
<1>2. pending[r] \in Seq(Works) /\ 1 \in 1..Len(pending[r])
    BY <1>1 DEF TypeInv, PoolTypeOK
<1>3. RunOf[w] = r
    BY <1>1, <1>2 DEF LedgerInv, QueueOwned
<1>4. electing[r] = NoElection
    BY <1>1 DEF LedgerInv, ElectingOnlyInNotify
<1>5. ASSUME NEW s \in seats, s.work = w PROVE FALSE
    <2>1. s.run = r /\ s.attempt > 0
        BY <1>3, <1>5 DEF LedgerInv, LedgerExact, AttemptsNumbered
    <2>2. reservations[s.work] # s.attempt
        BY <1>1, <1>5, <2>1
    <2>3. electing[r].attempt = s.attempt
        BY <2>1, <2>2 DEF LedgerInv, LedgerExact
    <2> QED
        BY <1>4, <2>1, <2>3, NoElectionIsNone
<1> QED
    BY <1>3, <1>4, <1>5

(* Dropping the head of the queue of r. *)
LEMMA TailOwned ==
    ASSUME QueueOwned, PoolTypeOK, NEW r \in Runs, pending[r] # <<>>,
           pending' = [pending EXCEPT ![r] = Tail(@)]
    PROVE  QueueOwned'
<1> SUFFICES ASSUME NEW q \in Runs, NEW i \in 1..Len(pending'[q])
             PROVE  RunOf[pending'[q][i]] = q
    BY DEF QueueOwned
<1>1. CASE q = r
    <2>1. pending[r] \in Seq(Works) /\ pending'[r] = Tail(pending[r])
        BY DEF PoolTypeOK
    <2>2. i \in 1..Len(Tail(pending[r]))
        BY <1>1, <2>1
    <2>3. \A p \in Seq(Works) : p # <<>> => \A j \in 1..Len(Tail(p)) :
             j + 1 \in 1..Len(p) /\ Tail(p)[j] = p[j + 1]
        OBVIOUS
    <2>4. i + 1 \in 1..Len(pending[r]) /\ pending'[r][i] = pending[r][i + 1]
        BY <2>1, <2>2, <2>3
    <2> QED
        BY <1>1, <2>4 DEF QueueOwned
<1>2. CASE q # r
    <2>1. pending'[q] = pending[q]
        BY <1>2 DEF PoolTypeOK
    <2> QED
        BY <2>1 DEF QueueOwned
<1> QED
    BY <1>1, <1>2

LEMMA EnqueueOwned ==
    ASSUME QueueOwned, PoolTypeOK, NEW w \in Works, Enqueue(w)
    PROVE  QueueOwned'
<1> DEFINE r == RunOf[w]
           p == pending[r]
<1>0. r \in Runs /\ p \in Seq(Works)
    BY ModelElectionAssumption DEF PoolTypeOK
<1>1. PICK q \in {p, <<w>> \o p, Append(p, w)} : pending' = [pending EXCEPT ![r] = q]
    BY <1>0 DEF Enqueue, PoolTypeOK
<1>2. ASSUME NEW i \in 1..Len(q) PROVE RunOf[q[i]] = r
    <2>1. \A j \in 1..Len(p) : RunOf[p[j]] = r
        BY <1>0 DEF QueueOwned
    <2>2. CASE q = p
        BY <1>2, <2>1, <2>2
    <2>3. CASE q = <<w>> \o p
        <3>1. Len(q) = Len(p) + 1
            BY <1>0, <2>3
        <3>2. CASE i = 1
            <4>1. q[i] = w
                BY <1>0, <2>3, <3>2
            <4> QED
                BY <4>1
        <3>3. CASE i # 1
            <4>1. i - 1 \in 1..Len(p) /\ q[i] = p[i - 1]
                BY <1>0, <1>2, <2>3, <3>1, <3>3
            <4> QED
                BY <2>1, <4>1
        <3> QED
            BY <3>2, <3>3
    <2>4. CASE q = Append(p, w)
        <3>1. q[i] = w \/ (i \in 1..Len(p) /\ q[i] = p[i])
            BY <1>0, <1>2, <2>4
        <3> QED
            BY <2>1, <3>1
    <2> QED
        BY <1>1, <2>2, <2>3, <2>4
<1> SUFFICES ASSUME NEW t \in Runs, NEW i \in 1..Len(pending'[t])
             PROVE  RunOf[pending'[t][i]] = t
    BY DEF QueueOwned
<1>3. pending'[t] = IF t = r THEN q ELSE pending[t]
    BY <1>1 DEF PoolTypeOK
<1> QED
    BY <1>2, <1>3 DEF QueueOwned

(* What an election takes is the only seat of its work, at a position of its own. *)
LEMMA ReserveKeepsSeatsApart ==
    ASSUME LedgerInv, TypeInv, NEW w \in Works, NEW n \in Nat, NEW m \in Models, n > 0,
           \A s \in seats : s.work # w, seats' = Reserved(w, n, m)
    PROVE  /\ OneSeatPerWork' /\ SlotsDistinct' /\ AttemptsNumbered'
           /\ \A s \in seats' : \/ s \in seats
                                \/ s.run = RunOf[w] /\ s.work = w /\ s.attempt = n
           /\ \E s \in seats' : s.work = w /\ s.attempt = n
           /\ seats \subseteq seats'
<1> DEFINE t == [run |-> RunOf[w], work |-> w, attempt |-> n, model |-> m,
                 slot |-> FreeSlot(m)]
<1>1. seats' = seats \cup {t}
    BY DEF Reserved
<1>2. \A s \in seats : s.model = m => s.slot # FreeSlot(m)
    BY FreeSlotIsFree DEF SeatsAt, TypeInv
<1>3. OneSeatPerWork'
    BY <1>1 DEF LedgerInv, OneSeatPerWork
<1>4. SlotsDistinct'
    BY <1>1, <1>2 DEF LedgerInv, SlotsDistinct
<1>5. AttemptsNumbered'
    BY <1>1 DEF LedgerInv, AttemptsNumbered
<1>6. t.run = RunOf[w] /\ t.work = w /\ t.attempt = n
    OBVIOUS
<1> HIDE DEF t
<1> QED
    BY <1>1, <1>3, <1>4, <1>5, <1>6

LEMMA ElectKeepsLedger ==
    ASSUME LedgerInv, TypeInv, NEW r \in Runs, NEW w \in Works, NEW m \in Models,
           Elect(r, w, m)
    PROVE  LedgerInv'
<1> DEFINE a == [work |-> w, attempt |-> attempts[w] + 1, model |-> m]
<1>1. AtHead(r, w) /\ MayElect(r, w) /\ seats' = Reserved(w, a.attempt, m)
    BY DEF Elect
<1>2. RunOf[w] = r /\ electing[r] = NoElection /\ \A s \in seats : s.work # w
    BY <1>1, ElectedHasNoSeat
<1>3. a.attempt \in Nat /\ a.attempt > 0 /\ a.work = w
    BY DEF TypeInv, PoolTypeOK
<1>4. /\ OneSeatPerWork' /\ SlotsDistinct' /\ AttemptsNumbered'
      /\ \A s \in seats' : \/ s \in seats
                           \/ s.run = r /\ s.work = w /\ s.attempt = a.attempt
      /\ \E s \in seats' : s.work = w /\ s.attempt = a.attempt
      /\ seats \subseteq seats'
    BY <1>1, <1>2, <1>3, ReserveKeepsSeatsApart
<1>5. reservations[w] = 0 /\ mpc[r] = "poll" /\ pending[r] # <<>> /\ attached[r]
    BY <1>1 DEF MayElect, AtHead, LedgerInv, DetachedIsClosed
<1>6. UNCHANGED <<closed, attached>>
    BY DEF Elect
<1>7. DetachedIsClosed'
    BY <1>6 DEF LedgerInv, DetachedIsClosed
<1>8. \A s \in seats : s.run = RunOf[s.work] /\ attached[s.run]
    BY DEF LedgerInv, LedgerExact
<1>9. \A s \in seats : s.run = r => reservations[s.work] = s.attempt
    BY <1>2, NoElectionIsNone DEF LedgerInv, LedgerExact, AttemptsNumbered
<1>10. CASE NotifySuspends
    <2>1. /\ mpc' = [mpc EXCEPT ![r] = "notify"]
          /\ electing' = [electing EXCEPT ![r] = a]
          /\ UNCHANGED <<reservations, attempts, pending, assignments>>
        BY <1>10 DEF Elect
    <2>2. electing'[r] = a /\ \A q \in Runs \ {r} : electing'[q] = electing[q]
        BY <2>1 DEF TypeInv, PoolTypeOK
    <2>3. mpc'[r] = "notify" /\ \A q \in Runs \ {r} : mpc'[q] = mpc[q]
        BY <2>1 DEF TypeInv, PoolTypeOK
    <2>4. LedgerExact'
        <3>1. ASSUME NEW s \in seats'
              PROVE  /\ s.run = RunOf[s.work] /\ attached'[s.run]
                     /\ \/ reservations'[s.work] = s.attempt
                        \/ /\ electing'[s.run].work = s.work
                           /\ electing'[s.run].attempt = s.attempt
            <4>1. CASE s \in seats /\ s.run = r
                BY <1>6, <1>8, <1>9, <2>1, <4>1
            <4>2. CASE s \in seats /\ s.run # r
                <5>1. s.run \in Runs
                    BY <4>2 DEF TypeInv, PoolTypeOK, Seat
                <5>2. electing'[s.run] = electing[s.run]
                    BY <2>2, <4>2, <5>1
                <5> QED
                    BY <1>6, <2>1, <4>2, <5>2 DEF LedgerInv, LedgerExact
            <4>3. CASE s.run = r /\ s.work = w /\ s.attempt = a.attempt
                BY <1>2, <1>3, <1>5, <1>6, <2>2, <4>3
            <4> QED
                BY <1>4, <4>1, <4>2, <4>3
        <3>2. \A v \in Works : reservations'[v] # 0 =>
                 \E s \in seats' : s.work = v /\ s.attempt = reservations'[v]
            BY <1>4, <2>1 DEF LedgerInv, LedgerExact
        <3> QED
            BY <3>1, <3>2 DEF LedgerExact
    <2>5. NotifyHoldsSeat'
        <3>1. HeldSeat(r)'
            BY <1>2, <1>3, <1>4, <1>5, <2>1, <2>2 DEF HeldSeat
        <3>2. ASSUME NEW q \in Runs \ {r}, HeldSeat(q) PROVE HeldSeat(q)'
            BY <1>4, <2>1, <2>2, <3>2 DEF HeldSeat
        <3> QED
            BY <2>3, <3>1, <3>2 DEF LedgerInv, NotifyHoldsSeat
    <2>6. ElectingOnlyInNotify' /\ QueueOwned'
        BY <2>1, <2>2, <2>3 DEF LedgerInv, ElectingOnlyInNotify, QueueOwned
    <2> QED
        BY <1>4, <1>7, <2>4, <2>5, <2>6 DEF LedgerInv
<1>11. CASE ~NotifySuspends
    <2>1. HandOut(r, a) /\ UNCHANGED <<mpc, electing>>
        BY <1>11 DEF Elect
    <2>2. reservations' = [reservations EXCEPT ![w] = a.attempt]
        BY <2>1 DEF HandOut
    <2>3. /\ reservations'[w] = a.attempt
          /\ \A v \in Works \ {w} : reservations'[v] = reservations[v]
        BY <2>2 DEF TypeInv, PoolTypeOK
    <2>4. LedgerExact'
        <3>1. ASSUME NEW s \in seats'
              PROVE  /\ s.run = RunOf[s.work] /\ attached'[s.run]
                     /\ \/ reservations'[s.work] = s.attempt
                        \/ /\ electing'[s.run].work = s.work
                           /\ electing'[s.run].attempt = s.attempt
            <4>1. CASE s \in seats
                <5>1. s.work \in Works \ {w}
                    BY <1>2, <4>1 DEF TypeInv, PoolTypeOK, Seat
                <5>2. reservations'[s.work] = reservations[s.work]
                    BY <2>3, <5>1
                <5> QED
                    BY <1>6, <2>1, <4>1, <5>2 DEF LedgerInv, LedgerExact
            <4>2. CASE s.run = r /\ s.work = w /\ s.attempt = a.attempt
                BY <1>2, <1>5, <1>6, <2>3, <4>2
            <4> QED
                BY <1>4, <4>1, <4>2
        <3>2. ASSUME NEW v \in Works, reservations'[v] # 0
              PROVE  \E s \in seats' : s.work = v /\ s.attempt = reservations'[v]
            <4>1. CASE v = w
                BY <1>4, <2>3, <4>1
            <4>2. CASE v # w
                BY <1>4, <2>3, <3>2, <4>2 DEF LedgerInv, LedgerExact
            <4> QED
                BY <4>1, <4>2
        <3> QED
            BY <3>1, <3>2 DEF LedgerExact
    <2>5. NotifyHoldsSeat'
        <3>1. ASSUME NEW q \in Runs, mpc[q] = "notify" PROVE HeldSeat(q)'
            <4>1. HeldSeat(q) /\ q # r
                BY <1>5, <3>1 DEF LedgerInv, NotifyHoldsSeat
            <4>2. electing[q].work \in Works /\ electing[q].work # w
                BY <1>2, <3>1, <4>1 DEF HeldSeat, TypeInv, ResultHeld, Assignment
            <4> QED
                BY <1>4, <2>1, <2>3, <4>1, <4>2 DEF HeldSeat
        <3> QED
            BY <2>1, <3>1 DEF NotifyHoldsSeat
    <2>6. ElectingOnlyInNotify'
        BY <2>1 DEF LedgerInv, ElectingOnlyInNotify
    <2>7. QueueOwned'
        BY <1>5, <2>1, TailOwned DEF HandOut, LedgerInv, TypeInv
    <2> QED
        BY <1>4, <1>7, <2>4, <2>5, <2>6, <2>7 DEF LedgerInv
<1> QED
    BY <1>10, <1>11

(* Recording what a suspended election took. *)
LEMMA PublishKeepsLedger ==
    ASSUME LedgerInv, TypeInv, NEW r \in Runs, Publish(r)
    PROVE  LedgerInv'
<1> DEFINE a == electing[r]
<1>1. /\ HandOut(r, a)
      /\ mpc' = [mpc EXCEPT ![r] = "poll"]
      /\ electing' = [electing EXCEPT ![r] = NoElection]
      /\ UNCHANGED <<seats, closed, attached>>
    BY DEF Publish
<1>2. HeldSeat(r) /\ a \in Assignment /\ pending[r] # <<>>
    BY DEF Publish, LedgerInv, NotifyHoldsSeat, TypeInv, ResultHeld
<1>3. a.work \in Works /\ RunOf[a.work] = r /\ reservations[a.work] = 0 /\ a.attempt > 0
    BY <1>2 DEF HeldSeat, Assignment
<1>4. /\ reservations'[a.work] = a.attempt
      /\ \A v \in Works \ {a.work} : reservations'[v] = reservations[v]
    BY <1>1, <1>3 DEF HandOut, TypeInv, PoolTypeOK
<1>5. electing'[r] = NoElection /\ \A q \in Runs \ {r} : electing'[q] = electing[q]
    BY <1>1 DEF TypeInv, PoolTypeOK
<1>6. \A q \in Runs \ {r} : mpc'[q] = mpc[q]
    BY <1>1 DEF TypeInv, PoolTypeOK
<1>7. mpc'[r] = "poll"
    BY <1>1 DEF TypeInv, PoolTypeOK
<1>8. LedgerExact'
    <2>1. ASSUME NEW s \in seats
          PROVE  /\ s.run = RunOf[s.work] /\ attached[s.run]
                 /\ \/ reservations'[s.work] = s.attempt
                    \/ /\ electing'[s.run].work = s.work
                       /\ electing'[s.run].attempt = s.attempt
        <3>1. s.run \in Runs /\ s.work \in Works
            BY DEF TypeInv, PoolTypeOK, Seat
        <3>2. s.run = RunOf[s.work] /\ attached[s.run] /\ s.attempt > 0
            BY DEF LedgerInv, LedgerExact, AttemptsNumbered
        <3>3. CASE s.work = a.work
            <4>1. s.run = r /\ reservations[s.work] # s.attempt
                BY <1>3, <3>2, <3>3
            <4>2. a.attempt = s.attempt
                BY <4>1 DEF LedgerInv, LedgerExact
            <4> QED
                BY <1>4, <3>2, <3>3, <4>2
        <3>4. CASE s.work # a.work
            <4>1. reservations'[s.work] = reservations[s.work]
                BY <1>4, <3>1, <3>4
            <4>2. CASE s.run = r
                BY <3>2, <3>4, <4>1, <4>2 DEF LedgerInv, LedgerExact
            <4>3. CASE s.run # r
                BY <1>5, <3>1, <3>2, <4>1, <4>3 DEF LedgerInv, LedgerExact
            <4> QED
                BY <4>2, <4>3
        <3> QED
            BY <3>3, <3>4
    <2>2. ASSUME NEW v \in Works, reservations'[v] # 0
          PROVE  \E s \in seats : s.work = v /\ s.attempt = reservations'[v]
        <3>1. CASE v = a.work
            BY <1>2, <1>4, <3>1 DEF HeldSeat
        <3>2. CASE v # a.work
            BY <1>4, <2>2, <3>2 DEF LedgerInv, LedgerExact
        <3> QED
            BY <3>1, <3>2
    <2> QED
        BY <1>1, <2>1, <2>2 DEF LedgerExact
<1>9. NotifyHoldsSeat'
    <2>1. ASSUME NEW q \in Runs, mpc'[q] = "notify" PROVE HeldSeat(q)'
        <3>1. q # r /\ mpc[q] = "notify"
            BY <1>6, <1>7, <2>1
        <3>2. HeldSeat(q) /\ electing[q] \in Assignment
            BY <3>1 DEF LedgerInv, NotifyHoldsSeat, TypeInv, ResultHeld
        <3>3. electing[q].work \in Works /\ electing[q].work # a.work
            BY <1>3, <3>1, <3>2 DEF HeldSeat, Assignment
        <3>4. electing'[q] = electing[q]
            BY <1>5, <3>1
        <3> QED
            BY <1>1, <1>4, <3>2, <3>3, <3>4 DEF HeldSeat
    <2> QED
        BY <2>1 DEF NotifyHoldsSeat
<1>10. ElectingOnlyInNotify' /\ DetachedIsClosed'
    BY <1>1, <1>5, <1>6 DEF LedgerInv, ElectingOnlyInNotify, DetachedIsClosed
<1>11. QueueOwned'
    BY <1>1, <1>2, TailOwned DEF HandOut, LedgerInv, TypeInv
<1>12. (OneSeatPerWork /\ SlotsDistinct /\ AttemptsNumbered)'
    BY <1>1 DEF LedgerInv, OneSeatPerWork, SlotsDistinct, AttemptsNumbered
<1> QED
    BY <1>8, <1>9, <1>10, <1>11, <1>12 DEF LedgerInv

(* Feedback on the current reservation removes its seat and no other. *)
LEMMA FeedbackKeepsLedger ==
    ASSUME LedgerInv, TypeInv, NEW w \in Works, NEW n \in Nat, NEW o,
           Feedback(w, n, o)
    PROVE  LedgerInv'
<1>1. UNCHANGED <<pending, electing, mpc, closed, attached>>
    BY DEF Feedback
<1>2. CASE ~(n # 0 /\ reservations[w] = n)
    <2>1. UNCHANGED <<reservations, seats>>
        BY <1>2 DEF Feedback
    <2> QED
        BY <1>1, <2>1, QuietKeepsLedger DEF Quiet
<1>3. CASE n # 0 /\ reservations[w] = n
    <2>1. /\ reservations' = [reservations EXCEPT ![w] = 0]
          /\ seats' = Released(w, n)
        BY <1>3 DEF Feedback
    <2>2. \A s \in seats' : s \in seats
        BY <2>1 DEF Released
    <2>3. \A s \in seats : s.work = w => s.attempt = n
        <3>1. PICK t \in seats : t.work = w /\ t.attempt = n
            BY <1>3 DEF LedgerInv, LedgerExact
        <3> QED
            BY <3>1 DEF LedgerInv, OneSeatPerWork
    <2>4. \A s \in seats' : s.work # w
        BY <2>1, <2>3 DEF Released
    <2>5. \A s \in seats : s.work # w => s \in seats'
        BY <2>1 DEF Released
    <2>6. reservations'[w] = 0 /\ \A v \in Works \ {w} : reservations'[v] = reservations[v]
        BY <2>1 DEF TypeInv, PoolTypeOK
    <2>7. LedgerExact'
        <3>1. ASSUME NEW s \in seats'
              PROVE  /\ s.run = RunOf[s.work] /\ attached[s.run]
                     /\ \/ reservations'[s.work] = s.attempt
                        \/ /\ electing[s.run].work = s.work
                           /\ electing[s.run].attempt = s.attempt
            <4>1. s \in seats /\ s.work \in Works \ {w}
                BY <2>2, <2>4 DEF TypeInv, PoolTypeOK, Seat
            <4> QED
                BY <2>6, <4>1 DEF LedgerInv, LedgerExact
        <3>2. ASSUME NEW v \in Works, reservations'[v] # 0
              PROVE  \E s \in seats' : s.work = v /\ s.attempt = reservations'[v]
            BY <2>5, <2>6, <3>2 DEF LedgerInv, LedgerExact
        <3> QED
            BY <1>1, <3>1, <3>2 DEF LedgerExact
    <2>8. NotifyHoldsSeat'
        <3>1. ASSUME NEW q \in Runs, mpc[q] = "notify" PROVE HeldSeat(q)'
            <4>1. HeldSeat(q) /\ electing[q] \in Assignment
                BY <3>1 DEF LedgerInv, NotifyHoldsSeat, TypeInv, ResultHeld
            <4>2. electing[q].work \in Works \ {w}
                BY <1>3, <4>1 DEF HeldSeat, Assignment
            <4> QED
                BY <1>1, <2>5, <2>6, <4>1, <4>2 DEF HeldSeat
        <3> QED
            BY <1>1, <3>1 DEF NotifyHoldsSeat
    <2>9. (OneSeatPerWork /\ SlotsDistinct /\ AttemptsNumbered)'
        BY <2>2 DEF LedgerInv, OneSeatPerWork, SlotsDistinct, AttemptsNumbered
    <2>10. (ElectingOnlyInNotify /\ DetachedIsClosed /\ QueueOwned)'
        BY <1>1 DEF LedgerInv, ElectingOnlyInNotify, DetachedIsClosed, QueueOwned
    <2> QED
        BY <2>7, <2>8, <2>9, <2>10 DEF LedgerInv
<1> QED
    BY <1>2, <1>3

(* Closing a pool removes the seats of its run and no other. *)
LEMMA CloseKeepsLedger ==
    ASSUME LedgerInv, TypeInv, NEW r \in Runs, ~LoopAlive(r), Close(r)
    PROVE  LedgerInv'
<1>1. /\ closed' = [closed EXCEPT ![r] = TRUE]
      /\ attached' = [attached EXCEPT ![r] = FALSE]
      /\ seats' = {s \in seats : s.run # r}
      /\ reservations' = [w \in Works |-> IF RunOf[w] = r THEN 0 ELSE reservations[w]]
      /\ UNCHANGED <<pending, electing, mpc>>
    BY DEF Close, ReleasedAll
<1>2. \A s \in seats' : s \in seats /\ s.run # r /\ s.run \in Runs /\ s.work \in Works
    BY <1>1 DEF TypeInv, PoolTypeOK, Seat
<1>3. \A q \in Runs \ {r} : attached'[q] = attached[q] /\ closed'[q] = closed[q]
    BY <1>1 DEF TypeInv, PoolTypeOK
<1>4. closed'[r]
    BY <1>1 DEF TypeInv, PoolTypeOK
<1>5. LedgerExact'
    <2>1. ASSUME NEW s \in seats'
          PROVE  /\ s.run = RunOf[s.work] /\ attached'[s.run]
                 /\ \/ reservations'[s.work] = s.attempt
                    \/ /\ electing[s.run].work = s.work
                       /\ electing[s.run].attempt = s.attempt
        <3>1. s \in seats /\ s.run \in Runs \ {r} /\ s.work \in Works
            BY <1>2
        <3>2. s.run = RunOf[s.work] /\ attached'[s.run]
            BY <1>3, <3>1 DEF LedgerInv, LedgerExact
        <3>3. reservations'[s.work] = reservations[s.work]
            BY <1>1, <3>1, <3>2
        <3> QED
            BY <3>1, <3>2, <3>3 DEF LedgerInv, LedgerExact
    <2>2. ASSUME NEW v \in Works, reservations'[v] # 0
          PROVE  \E s \in seats' : s.work = v /\ s.attempt = reservations'[v]
        <3>1. RunOf[v] # r /\ reservations'[v] = reservations[v]
            BY <1>1, <2>2
        <3>2. PICK s \in seats : s.work = v /\ s.attempt = reservations[v]
            BY <2>2, <3>1 DEF LedgerInv, LedgerExact
        <3>3. s.run # r
            BY <3>1, <3>2 DEF LedgerInv, LedgerExact
        <3> QED
            BY <1>1, <3>1, <3>2, <3>3
    <2> QED
        BY <1>1, <2>1, <2>2 DEF LedgerExact
<1>6. NotifyHoldsSeat'
    <2>1. ASSUME NEW q \in Runs, mpc[q] = "notify" PROVE HeldSeat(q)'
        <3>1. HeldSeat(q) /\ electing[q] \in Assignment /\ q # r
            BY <2>1 DEF LedgerInv, NotifyHoldsSeat, TypeInv, ResultHeld, LoopAlive
        <3>2. electing[q].work \in Works /\ RunOf[electing[q].work] = q
            BY <3>1 DEF HeldSeat, Assignment
        <3>3. PICK s \in seats :
                 s.work = electing[q].work /\ s.attempt = electing[q].attempt
            BY <3>1 DEF HeldSeat
        <3>4. s \in seats'
            BY <1>1, <3>1, <3>2, <3>3 DEF LedgerInv, LedgerExact
        <3>5. reservations'[electing[q].work] = reservations[electing[q].work]
            BY <1>1, <3>1, <3>2
        <3> QED
            BY <1>1, <3>1, <3>2, <3>3, <3>4, <3>5 DEF HeldSeat
    <2> QED
        BY <1>1, <2>1 DEF NotifyHoldsSeat
<1>7. (OneSeatPerWork /\ SlotsDistinct /\ AttemptsNumbered)'
    BY <1>2 DEF LedgerInv, OneSeatPerWork, SlotsDistinct, AttemptsNumbered
<1>8. DetachedIsClosed'
    BY <1>3, <1>4 DEF LedgerInv, DetachedIsClosed
<1>9. (ElectingOnlyInNotify /\ QueueOwned)'
    BY <1>1 DEF LedgerInv, ElectingOnlyInNotify, QueueOwned
<1> QED
    BY <1>5, <1>6, <1>7, <1>8, <1>9 DEF LedgerInv

LEMMA LedgerStep == LedgerInv /\ TypeInv /\ [PoolNext]_poolVars => LedgerInv'
<1> SUFFICES ASSUME LedgerInv, TypeInv, [PoolNext]_poolVars PROVE LedgerInv'
    OBVIOUS
<1>0. PoolTypeOK
    BY DEF TypeInv
<1>1. ASSUME NEW r \in Runs, NEW w \in Works, NEW m \in Models, Elect(r, w, m)
      PROVE  LedgerInv'
    BY <1>1, ElectKeepsLedger
<1>2. ASSUME NEW r \in Runs, Publish(r) PROVE LedgerInv'
    BY <1>2, PublishKeepsLedger
<1>3. ASSUME NEW r \in Runs, NEW w \in Works, ElectionFails(r, w) PROVE LedgerInv'
    <2>1. PICK p \in {"error", "exhausted", mpc[r]} : mpc' = [mpc EXCEPT ![r] = p]
        BY <1>3 DEF ElectionFails
    <2>2. UNCHANGED <<seats, reservations, electing, attached, pending, closed>>
        BY <1>3 DEF ElectionFails
    <2>3. Quiet
        BY <1>0, <2>1, <2>2 DEF Quiet, PoolTypeOK
    <2> QED
        BY <2>3, QuietKeepsLedger
<1>4. ASSUME NEW r \in Runs, LoopEnds(r) \/ LoopCrashes(r) PROVE LedgerInv'
    <2>1. Quiet
        BY <1>0, <1>4 DEF Quiet, LoopEnds, LoopCrashes, PoolTypeOK
    <2> QED
        BY <2>1, QuietKeepsLedger
<1>5. ASSUME NEW w \in Works, CoolingEnds(w) PROVE LedgerInv'
    <2>1. Quiet
        BY <1>5 DEF Quiet, CoolingEnds
    <2> QED
        BY <2>1, QuietKeepsLedger
<1>6. ASSUME NEW m \in Models, ScoreDrops(m) \/ ScoreRecovers(m) PROVE LedgerInv'
    <2>1. Quiet
        BY <1>6 DEF Quiet, ScoreDrops, ScoreRecovers
    <2> QED
        BY <2>1, QuietKeepsLedger
<1>7. ASSUME NEW c \in Configs, Reconfigure(c) PROVE LedgerInv'
    <2>1. Quiet
        BY <1>7 DEF Quiet, Reconfigure
    <2> QED
        BY <2>1, QuietKeepsLedger
<1>8. ASSUME NEW w \in Works, Enqueue(w) PROVE LedgerInv'
    <2>1. UNCHANGED <<seats, reservations, electing, attached, mpc, closed>>
        BY <1>8 DEF Enqueue
    <2>2. QueueOwned'
        BY <1>0, <1>8, EnqueueOwned DEF LedgerInv
    <2> QED
        BY <2>1, <2>2
        DEF LedgerInv, LedgerExact, OneSeatPerWork, SlotsDistinct, AttemptsNumbered,
            NotifyHoldsSeat, HeldSeat, ElectingOnlyInNotify, DetachedIsClosed
<1>9. ASSUME NEW w \in Works, NEW n \in 1..attempts[w], NEW o \in {"retry", "saved"},
             Feedback(w, n, o)
      PROVE  LedgerInv'
    <2>1. n \in Nat
        BY ModelElectionAssumption
    <2> QED
        BY <1>9, <2>1, FeedbackKeepsLedger
<1>10. ASSUME NEW r \in Runs, StartLoop(r) PROVE LedgerInv'
    <2>1. Quiet
        BY <1>0, <1>10 DEF Quiet, StartLoop, PoolTypeOK
    <2> QED
        BY <2>1, QuietKeepsLedger
<1>11. ASSUME NEW r \in Runs, NEW stop \in BOOLEAN, TakeAssignment(r, stop)
       PROVE  LedgerInv'
    <2>1. UNCHANGED <<seats, reservations, electing, attached, pending, mpc>>
        BY <1>11 DEF TakeAssignment
    <2>2. \A q \in Runs : closed[q] => closed'[q]
        BY <1>0, <1>11 DEF TakeAssignment, PoolTypeOK
    <2>3. Quiet
        BY <2>1, <2>2 DEF Quiet
    <2> QED
        BY <2>3, QuietKeepsLedger
<1>12. ASSUME NEW r \in Runs, StopElections(r) PROVE LedgerInv'
    <2>1. Quiet
        BY <1>0, <1>12 DEF Quiet, StopElections, PoolTypeOK
    <2> QED
        BY <2>1, QuietKeepsLedger
<1>13. ASSUME NEW r \in Runs, CancelLoop(r) PROVE LedgerInv'
    <2>1. Quiet
        BY <1>0, <1>13 DEF Quiet, CancelLoop, PoolTypeOK
    <2> QED
        BY <2>1, QuietKeepsLedger
<1>14. ASSUME NEW r \in Runs, ~LoopAlive(r), Close(r) PROVE LedgerInv'
    BY <1>14, CloseKeepsLedger
<1>15. CASE UNCHANGED poolVars
    <2>1. Quiet
        BY <1>15 DEF Quiet, poolVars
    <2> QED
        BY <2>1, QuietKeepsLedger
<1> QED
    BY <1>1, <1>2, <1>3, <1>4, <1>5, <1>6, <1>7, <1>8, <1>9, <1>10, <1>11, <1>12,
       <1>13, <1>14, <1>15
    DEF PoolNext, LoopStep, Surroundings, Caller

LEMMA LedgerInvariant == PoolSpec => []LedgerInv
    BY LedgerInit, LedgerStep, TypeInvariant, PTL DEF PoolSpec

(* Whatever feedback arrives in whatever order, and wherever the loops are        *)
(* suspended, the ledger holds no entry without an owner and no reservation is    *)
(* without its entry.                                                             *)
THEOREM LedgerAlwaysExact == PoolSpec => []LedgerExact
    BY LedgerInvariant, PTL DEF LedgerInv

(* No work ever occupies two seats. *)
THEOREM OneSeatPerWorkAlways == PoolSpec => []OneSeatPerWork
    BY LedgerInvariant, PTL DEF LedgerInv

(* No two seats of a model share a position, whichever runs hold them and in      *)
(* whatever order seats are given back.                                           *)
THEOREM SlotsAlwaysDistinct == PoolSpec => []SlotsDistinct
    BY LedgerInvariant, PTL DEF LedgerInv

(* Both together: seats, works and positions correspond one to one.              *)
THEOREM SeatsAlwaysDistinct == PoolSpec => []SeatsAreDistinct
<1>1. SlotsDistinct /\ OneSeatPerWork => SeatsAreDistinct
    BY DEF SeatsAreDistinct
<1> QED BY OneSeatPerWorkAlways, SlotsAlwaysDistinct, <1>1, PTL

-----------------------------------------------------------------------------
(* The queue of a pool *)

LEMMA TailAssignments ==
    ASSUME PoolTypeOK, NEW r \in Runs, assignments[r] # <<>>,
           assignments' = [assignments EXCEPT ![r] = Tail(@)]
    PROVE  /\ \A o \in Runs \ {r} : assignments'[o] = assignments[o]
           /\ Len(assignments'[r]) = Len(assignments[r]) - 1
           /\ \A i \in 1..Len(assignments'[r]) :
                 i + 1 \in 1..Len(assignments[r]) /\ assignments'[r][i] = assignments[r][i + 1]
<1>1. assignments[r] \in Seq(Assignment)
    BY DEF PoolTypeOK
<1>2. assignments'[r] = Tail(assignments[r])
    BY DEF PoolTypeOK
<1>3. Len(assignments[r]) \in Nat /\ Len(Tail(assignments[r])) = Len(assignments[r]) - 1
    BY <1>1
<1>4. \A i \in 1..Len(Tail(assignments[r])) : Tail(assignments[r])[i] = assignments[r][i + 1]
    BY <1>1
<1> QED
    BY <1>2, <1>3, <1>4 DEF PoolTypeOK

(* What handing a result out does to the work and to its run. *)
LEMMA HandOutFields ==
    ASSUME PoolTypeOK, NEW r \in Runs, NEW a \in Assignment, HandOut(r, a)
    PROVE  /\ \A v \in Works \ {a.work} : /\ reservations'[v] = reservations[v]
                                          /\ attempts'[v] = attempts[v]
           /\ reservations'[a.work] = a.attempt /\ attempts'[a.work] = a.attempt
           /\ \A o \in Runs \ {r} : /\ pending'[o] = pending[o]
                                    /\ assignments'[o] = assignments[o]
           /\ pending'[r] = Tail(pending[r])
           /\ assignments'[r] = Append(assignments[r], a)
    BY DEF HandOut, PoolTypeOK, Assignment

Elements(p) == {p[i] : i \in 1..Len(p)}
Distinct(p) == \A i, j \in 1..Len(p) : p[i] = p[j] => i = j

LEMMA DropHead ==
    ASSUME NEW p \in Seq(Works), p # <<>>, Distinct(p)
    PROVE  /\ Distinct(Tail(p))
           /\ Elements(Tail(p)) = Elements(p) \ {Head(p)}
           /\ Head(p) \in Elements(p)
<1> DEFINE n == Len(p)
           t == Tail(p)
<1>1. /\ n \in Nat /\ n > 0 /\ Len(t) = n - 1
      /\ Head(p) = p[1]
      /\ \A i \in 1..n - 1 : t[i] = p[i + 1]
    OBVIOUS
<1>2. \A i \in 1..n - 1 : i + 1 \in 1..n /\ i + 1 # 1
    BY <1>1
<1>3. Distinct(t)
    <2>1. SUFFICES ASSUME NEW i \in 1..n - 1, NEW j \in 1..n - 1, t[i] = t[j]
                   PROVE  i = j
        BY <1>1 DEF Distinct
    <2>2. i + 1 = j + 1
        BY <1>1, <1>2, <2>1 DEF Distinct
    <2> QED
        BY <2>2
<1>4. 1 \in 1..n
    BY <1>1
<1>5. ASSUME NEW x \in Elements(t) PROVE x \in Elements(p) \ {Head(p)}
    <2>1. PICK i \in 1..n - 1 : x = t[i]
        BY <1>1, <1>5 DEF Elements
    <2>2. x = p[i + 1] /\ i + 1 \in 1..n /\ i + 1 # 1
        BY <1>1, <1>2, <2>1
    <2> QED
        BY <1>1, <1>4, <2>2 DEF Elements, Distinct
<1>6. ASSUME NEW x \in Elements(p), x # Head(p) PROVE x \in Elements(t)
    <2>1. PICK i \in 1..n : x = p[i]
        BY <1>6 DEF Elements
    <2>2. i # 1
        BY <1>1, <1>6, <2>1
    <2>3. i - 1 \in 1..n - 1 /\ (i - 1) + 1 = i
        BY <1>1, <2>2
    <2>4. x = t[i - 1]
        BY <1>1, <2>1, <2>3
    <2> QED
        BY <1>1, <2>3, <2>4 DEF Elements
<1>7. Head(p) \in Elements(p)
    BY <1>1, <1>4 DEF Elements
<1> QED
    BY <1>3, <1>5, <1>6, <1>7

LEMMA PutInFront ==
    ASSUME NEW p \in Seq(Works), NEW w \in Works, Distinct(p), w \notin Elements(p)
    PROVE  Distinct(<<w>> \o p) /\ Elements(<<w>> \o p) = Elements(p) \cup {w}
<1> DEFINE n == Len(p)
           q == <<w>> \o p
<1>1. /\ n \in Nat /\ Len(q) = n + 1 /\ q[1] = w
      /\ \A i \in 2..n + 1 : q[i] = p[i - 1]
    OBVIOUS
<1>2. \A i \in 2..n + 1 : i - 1 \in 1..n /\ q[i] \in Elements(p)
    BY <1>1 DEF Elements
<1>3. \A i \in 1..n + 1 : i = 1 \/ i \in 2..n + 1
    BY <1>1
<1>4. Distinct(q)
    <2>1. SUFFICES ASSUME NEW i \in 1..n + 1, NEW j \in 1..n + 1, q[i] = q[j]
                   PROVE  i = j
        BY <1>1 DEF Distinct
    <2>2. CASE i \in 2..n + 1 /\ j \in 2..n + 1
        <3>1. i - 1 \in 1..n /\ j - 1 \in 1..n /\ p[i - 1] = p[j - 1]
            BY <1>1, <1>2, <2>1, <2>2
        <3>2. i - 1 = j - 1
            BY <3>1 DEF Distinct
        <3> QED
            BY <3>2
    <2>3. CASE i = 1 \/ j = 1
        BY <1>1, <1>2, <1>3, <2>1, <2>3
    <2> QED
        BY <1>3, <2>2, <2>3
<1>5. Elements(q) \subseteq Elements(p) \cup {w}
    BY <1>1, <1>2, <1>3 DEF Elements
<1>6. w \in Elements(q)
    <2>1. 1 \in 1..Len(q)
        BY <1>1
    <2> QED
        BY <1>1, <2>1 DEF Elements
<1>7. ASSUME NEW x \in Elements(p) PROVE x \in Elements(q)
    <2>1. PICK i \in 1..n : x = p[i]
        BY <1>7 DEF Elements
    <2>2. i + 1 \in 2..n + 1 /\ i + 1 \in 1..Len(q) /\ (i + 1) - 1 = i
        BY <1>1
    <2>3. x = q[i + 1]
        BY <1>1, <2>1, <2>2
    <2> QED
        BY <2>2, <2>3 DEF Elements
<1> QED
    BY <1>4, <1>5, <1>6, <1>7

LEMMA PutAtEnd ==
    ASSUME NEW p \in Seq(Works), NEW w \in Works, Distinct(p), w \notin Elements(p)
    PROVE  Distinct(Append(p, w)) /\ Elements(Append(p, w)) = Elements(p) \cup {w}
<1> DEFINE n == Len(p)
           q == Append(p, w)
<1>1. /\ n \in Nat /\ Len(q) = n + 1 /\ q[n + 1] = w
      /\ \A i \in 1..n : q[i] = p[i]
    OBVIOUS
<1>2. \A i \in 1..n + 1 : i = n + 1 \/ i \in 1..n
    BY <1>1
<1>3. n + 1 \in 1..n + 1 /\ \A i \in 1..n : i \in 1..n + 1
    BY <1>1
<1>4. Distinct(q)
    BY <1>1, <1>2 DEF Distinct, Elements
<1> QED
    BY <1>1, <1>2, <1>3, <1>4 DEF Elements

LEMMA QueuedElements ==
    ASSUME NEW r
    PROVE  Queued(r) = Elements(pending[r])
    BY DEF Queued, Elements

QueueDistinct == \A r \in Runs : Distinct(pending[r])

(* A request: the work waits, once. *)
LEMMA EnqueueFields ==
    ASSUME PoolTypeOK, QueueDistinct, NEW w \in Works, Enqueue(w)
    PROVE  /\ \A o \in Runs \ {RunOf[w]} : pending'[o] = pending[o]
           /\ Elements(pending'[RunOf[w]]) = Queued(RunOf[w]) \cup {w}
           /\ Distinct(pending'[RunOf[w]])
           /\ UNCHANGED <<config, unhealthy, seats, attempts, cooling, reservations,
                          selection_error, electing, assignments, mpc, closed, attached>>
<1> DEFINE r == RunOf[w]
           p == pending[r]
<1>0. r \in Runs /\ p \in Seq(Works) /\ Distinct(p)
    BY ModelElectionAssumption DEF PoolTypeOK, QueueDistinct
<1>1. UNCHANGED <<config, unhealthy, seats, attempts, cooling, reservations,
                  selection_error, electing, assignments, mpc, closed, attached>>
    BY DEF Enqueue
<1>2. CASE w \in Queued(r)
    BY <1>0, <1>1, <1>2, QueuedElements DEF Enqueue
<1>3. CASE w \notin Queued(r)
    <2>1. PICK q \in {<<w>> \o p, Append(p, w)} : pending' = [pending EXCEPT ![r] = q]
        BY <1>3 DEF Enqueue
    <2>2. w \notin Elements(p) /\ Queued(r) = Elements(p)
        BY <1>3, QueuedElements
    <2>3. Distinct(q) /\ Elements(q) = Elements(p) \cup {w}
        <3>1. Distinct(<<w>> \o p) /\ Elements(<<w>> \o p) = Elements(p) \cup {w}
            BY <1>0, <2>2, PutInFront
        <3>2. Distinct(Append(p, w)) /\ Elements(Append(p, w)) = Elements(p) \cup {w}
            BY <1>0, <2>2, PutAtEnd
        <3> QED
            BY <2>1, <3>1, <3>2
    <2>4. /\ pending'[r] = q
          /\ \A o \in Runs \ {r} : pending'[o] = pending[o]
        BY <1>0, <2>1 DEF PoolTypeOK
    <2> QED
        BY <1>1, <2>2, <2>3, <2>4
<1> QED
    BY <1>2, <1>3

(* A result handed out leaves the head of the queue out, and joins the results. *)
LEMMA HandOutQueue ==
    ASSUME PoolTypeOK, QueueDistinct, NEW r \in Runs, NEW a \in Assignment,
           pending[r] # <<>>, HandOut(r, a)
    PROVE  /\ \A o \in Runs \ {r} : pending'[o] = pending[o] /\ assignments'[o] = assignments[o]
           /\ Distinct(pending'[r])
           /\ Elements(pending'[r]) = Queued(r) \ {Head(pending[r])}
           /\ Head(pending[r]) \in Queued(r)
           /\ \A v : AssignedTo(r, v)' <=> AssignedTo(r, v) \/ v = a.work
<1>1. /\ pending[r] \in Seq(Works) /\ Distinct(pending[r])
      /\ assignments[r] \in Seq(Assignment)
    BY DEF PoolTypeOK, QueueDistinct
<1>2. /\ \A o \in Runs \ {r} : pending'[o] = pending[o] /\ assignments'[o] = assignments[o]
      /\ pending'[r] = Tail(pending[r])
      /\ assignments'[r] = Append(assignments[r], a)
    BY HandOutFields
<1>3. /\ Distinct(Tail(pending[r]))
      /\ Elements(Tail(pending[r])) = Elements(pending[r]) \ {Head(pending[r])}
      /\ Head(pending[r]) \in Elements(pending[r])
    BY <1>1, DropHead
<1>4. ASSUME NEW v PROVE AssignedTo(r, v)' <=> AssignedTo(r, v) \/ v = a.work
    <2> DEFINE n == Len(assignments[r])
    <2>1. /\ n \in Nat /\ Len(assignments'[r]) = n + 1
          /\ assignments'[r][n + 1] = a
          /\ \A i \in 1..n : assignments'[r][i] = assignments[r][i]
        BY <1>1, <1>2
    <2>2. \A i \in 1..n + 1 : i \in 1..n \/ i = n + 1
        BY <2>1
    <2>3. n + 1 \in 1..n + 1 /\ \A i \in 1..n : i \in 1..n + 1
        BY <2>1
    <2>4. AssignedTo(r, v)' <=> \E i \in 1..n + 1 : assignments'[r][i].work = v
        BY <2>1 DEF AssignedTo
    <2>5. AssignedTo(r, v) <=> \E i \in 1..n : assignments[r][i].work = v
        BY DEF AssignedTo
    <2> QED
        BY <2>1, <2>2, <2>3, <2>4, <2>5
<1> QED
    BY <1>2, <1>3, <1>4, QueuedElements

LEMMA TakenQueue ==
    ASSUME PoolTypeOK, NEW r \in Runs, assignments[r] # <<>>,
           assignments' = [assignments EXCEPT ![r] = Tail(@)]
    PROVE  \A o \in Runs, v \in Works : AssignedTo(o, v)' => AssignedTo(o, v)
<1> SUFFICES ASSUME NEW o \in Runs, NEW v \in Works, AssignedTo(o, v)' PROVE AssignedTo(o, v)
    OBVIOUS
<1>1. PICK i \in 1..Len(assignments'[o]) : assignments'[o][i].work = v
    BY DEF AssignedTo
<1>2. CASE o # r
    BY <1>1, <1>2, TailAssignments DEF AssignedTo
<1>3. CASE o = r
    <2>1. i + 1 \in 1..Len(assignments[r]) /\ assignments'[r][i] = assignments[r][i + 1]
        BY <1>1, <1>3, TailAssignments
    <2> QED
        BY <1>1, <1>3, <2>1 DEF AssignedTo
<1> QED
    BY <1>2, <1>3

LEMMA DistinctInit == PoolInit => QueueDistinct
    BY DEF PoolInit, QueueDistinct, Distinct

LEMMA DistinctStep ==
    ASSUME TypeInv, QueueDistinct, [PoolNext]_poolVars
    PROVE  QueueDistinct'
<1>0. PoolTypeOK
    BY DEF TypeInv
<1>1. ASSUME NEW r \in Runs, NEW a \in Assignment, pending[r] # <<>>, HandOut(r, a)
      PROVE  QueueDistinct'
    <2>1. Distinct(pending'[r]) /\ \A o \in Runs \ {r} : pending'[o] = pending[o]
        BY <1>0, <1>1, HandOutQueue
    <2> QED
        BY <2>1 DEF QueueDistinct
<1>2. ASSUME NEW w \in Works, Enqueue(w) PROVE QueueDistinct'
    <2>1. /\ Distinct(pending'[RunOf[w]])
          /\ \A o \in Runs \ {RunOf[w]} : pending'[o] = pending[o]
        BY <1>0, <1>2, EnqueueFields
    <2> QED
        BY <2>1 DEF QueueDistinct
<1>3. ASSUME UNCHANGED pending PROVE QueueDistinct'
    BY <1>3 DEF QueueDistinct
<1>4. ASSUME NEW r \in Runs, LoopStep(r) PROVE QueueDistinct'
    <2>1. CASE Publish(r)
        <3>1. /\ electing[r] \in Assignment /\ pending[r] # <<>>
              /\ HandOut(r, electing[r])
            BY <2>1 DEF Publish, TypeInv, ResultHeld
        <3> QED
            BY <1>1, <3>1
    <2>2. ASSUME NEW w \in Works, NEW m \in Models, Elect(r, w, m) PROVE QueueDistinct'
        <3> DEFINE a == [work |-> w, attempt |-> attempts[w] + 1, model |-> m]
        <3>1. HandOut(r, a) \/ UNCHANGED pending
            BY <2>2 DEF Elect
        <3>2. a \in Assignment
            BY <1>0 DEF Assignment, PoolTypeOK
        <3>3. pending[r] # <<>>
            BY <2>2 DEF Elect, AtHead
        <3> QED
            BY <1>1, <1>3, <3>1, <3>2, <3>3
    <2>3. CASE (\E w \in Works : ElectionFails(r, w)) \/ LoopEnds(r) \/ LoopCrashes(r)
        BY <1>3, <2>3 DEF ElectionFails, LoopEnds, LoopCrashes
    <2> QED
        BY <1>4, <2>1, <2>2, <2>3 DEF LoopStep
<1>5. CASE Surroundings
    BY <1>3, <1>5 DEF Surroundings, CoolingEnds, ScoreDrops, ScoreRecovers, Reconfigure
<1>6. CASE Caller
    BY <1>2, <1>3, <1>6
    DEF Caller, Feedback, StartLoop, TakeAssignment, StopElections, CancelLoop, Close
<1>7. CASE UNCHANGED poolVars
    BY <1>3, <1>7 DEF poolVars
<1> QED
    BY <1>4, <1>5, <1>6, <1>7 DEF PoolNext

-----------------------------------------------------------------------------
(* The turns of the queue *)

(* Every work tried before stands in front of those never tried. *)
InTurn(p, tried) == \A i, j \in 1..Len(p) : i < j /\ tried[p[j]] > 0 => tried[p[i]] > 0

LEMMA TurnsOfTail ==
    ASSUME NEW p \in Seq(Works), p # <<>>, NEW w \in Works, NEW t, NEW u, InTurn(p, t),
           \A v \in Works \ {w} : u[v] = t[v],
           u[w] > 0,
           \A i, j \in 1..Len(p) : i < j /\ p[j] = w => t[p[i]] > 0
    PROVE  InTurn(Tail(p), u)
<1> DEFINE n == Len(p)
           q == Tail(p)
<1>1. /\ n \in Nat /\ n > 0 /\ Len(q) = n - 1
      /\ \A i \in 1..n - 1 : q[i] = p[i + 1]
      /\ \A i \in 1..n : p[i] \in Works
    OBVIOUS
<1>2. \A i \in 1..n - 1 : i + 1 \in 1..n
    BY <1>1
<1>3. SUFFICES ASSUME NEW i \in 1..n - 1, NEW j \in 1..n - 1, i < j, u[q[j]] > 0
               PROVE  u[q[i]] > 0
    BY <1>1 DEF InTurn
<1>4. i + 1 \in 1..n /\ j + 1 \in 1..n /\ i + 1 < j + 1
    BY <1>2, <1>3
<1>5. t[p[i + 1]] > 0
    <2>1. CASE p[j + 1] = w
        BY <1>4, <2>1
    <2>2. CASE p[j + 1] # w
        <3>1. t[p[j + 1]] > 0
            BY <1>1, <1>3, <1>4, <2>2
        <3> QED
            BY <1>4, <3>1 DEF InTurn
    <2> QED
        BY <2>1, <2>2
<1> QED
    BY <1>1, <1>4, <1>5

LEMMA TurnInFront ==
    ASSUME NEW p \in Seq(Works), NEW w \in Works, NEW t, InTurn(p, t), t[w] > 0
    PROVE  InTurn(<<w>> \o p, t)
<1> DEFINE n == Len(p)
           q == <<w>> \o p
<1>1. /\ n \in Nat /\ Len(q) = n + 1 /\ q[1] = w
      /\ \A i \in 2..n + 1 : q[i] = p[i - 1]
    OBVIOUS
<1>2. SUFFICES ASSUME NEW i \in 1..n + 1, NEW j \in 1..n + 1, i < j, t[q[j]] > 0
               PROVE  t[q[i]] > 0
    BY <1>1 DEF InTurn
<1>3. CASE i = 1
    BY <1>1, <1>3
<1>4. CASE i # 1
    <2>1. /\ i \in 2..n + 1 /\ j \in 2..n + 1
          /\ i - 1 \in 1..n /\ j - 1 \in 1..n /\ i - 1 < j - 1
        BY <1>1, <1>2, <1>4
    <2>2. t[p[j - 1]] > 0
        BY <1>1, <1>2, <2>1
    <2>3. t[p[i - 1]] > 0
        BY <2>1, <2>2 DEF InTurn
    <2> QED
        BY <1>1, <2>1, <2>3
<1> QED
    BY <1>3, <1>4

LEMMA TurnAtEnd ==
    ASSUME NEW p \in Seq(Works), NEW w \in Works, NEW t, InTurn(p, t), ~(t[w] > 0)
    PROVE  InTurn(Append(p, w), t)
<1> DEFINE n == Len(p)
           q == Append(p, w)
<1>1. /\ n \in Nat /\ Len(q) = n + 1 /\ q[n + 1] = w
      /\ \A i \in 1..n : q[i] = p[i]
    OBVIOUS
<1>2. SUFFICES ASSUME NEW i \in 1..n + 1, NEW j \in 1..n + 1, i < j, t[q[j]] > 0
               PROVE  t[q[i]] > 0
    BY <1>1 DEF InTurn
<1>3. j # n + 1
    BY <1>1, <1>2
<1>4. i \in 1..n /\ j \in 1..n
    BY <1>1, <1>2, <1>3
<1>5. t[p[j]] > 0
    BY <1>1, <1>2, <1>4
<1>6. t[p[i]] > 0
    BY <1>2, <1>4, <1>5 DEF InTurn
<1> QED
    BY <1>1, <1>4, <1>6

TurnsKept == \A r \in Runs : InTurn(pending[r], attempts)

(* While an election is suspended its work still waits, behind retries only. *)
HeldTurn(r) ==
    /\ electing[r].work \in Queued(r)
    /\ \A i, j \in 1..Len(pending[r]) :
          i < j /\ pending[r][j] = electing[r].work => attempts[pending[r][i]] > 0

TurnHeld == \A r \in Runs : mpc[r] = "notify" => HeldTurn(r)

TurnInv == TurnsKept /\ TurnHeld

(* Only requests and elections change a queue or a number of attempts, and those   *)
(* of other runs not at all.                                                        *)
LEMMA TurnsElsewhere ==
    ASSUME PoolTypeOK, LedgerInv, TurnInv, NEW r \in Runs, NEW a \in Assignment,
           RunOf[a.work] = r, HandOut(r, a), NEW o \in Runs \ {r},
           electing'[o] = electing[o], mpc'[o] = mpc[o]
    PROVE  InTurn(pending[o], attempts)' /\ (mpc'[o] = "notify" => HeldTurn(o)')
<1>1. /\ \A v \in Works \ {a.work} : attempts'[v] = attempts[v]
      /\ pending'[o] = pending[o]
    BY HandOutFields
<1>2. \A i \in 1..Len(pending[o]) : pending[o][i] \in Works /\ RunOf[pending[o][i]] = o
    BY DEF LedgerInv, QueueOwned, PoolTypeOK
<1>3. \A i \in 1..Len(pending[o]) : attempts'[pending[o][i]] = attempts[pending[o][i]]
    BY <1>1, <1>2
<1> QED
    BY <1>1, <1>3 DEF TurnInv, TurnsKept, TurnHeld, HeldTurn, InTurn, Queued

LEMMA HandOutTurns ==
    ASSUME PoolTypeOK, LedgerInv, TurnInv, NEW r \in Runs, NEW a \in Assignment,
           RunOf[a.work] = r, a.attempt > 0, HandOut(r, a), pending[r] # <<>>,
           \A i, j \in 1..Len(pending[r]) :
              i < j /\ pending[r][j] = a.work => attempts[pending[r][i]] > 0,
           mpc'[r] # "notify",
           \A o \in Runs \ {r} : electing'[o] = electing[o] /\ mpc'[o] = mpc[o]
    PROVE  TurnInv'
<1>1. \A o \in Runs \ {r} :
          InTurn(pending[o], attempts)' /\ (mpc'[o] = "notify" => HeldTurn(o)')
    BY TurnsElsewhere
<1>2. /\ \A v \in Works \ {a.work} : attempts'[v] = attempts[v]
      /\ attempts'[a.work] = a.attempt
      /\ pending'[r] = Tail(pending[r])
    BY HandOutFields
<1>3. pending[r] \in Seq(Works) /\ InTurn(pending[r], attempts) /\ a.work \in Works
    BY DEF PoolTypeOK, TurnInv, TurnsKept, Assignment
<1>4. InTurn(Tail(pending[r]), attempts')
    <2> DEFINE p == pending[r]
               w == a.work
               u == attempts'
               t == attempts
    <2>1. /\ p \in Seq(Works) /\ p # <<>> /\ w \in Works /\ InTurn(p, t)
          /\ \A v \in Works \ {w} : u[v] = t[v]
          /\ u[w] > 0
          /\ \A i, j \in 1..Len(p) : i < j /\ p[j] = w => t[p[i]] > 0
        BY <1>2, <1>3
    <2> HIDE DEF p, w, u, t
    <2>2. InTurn(Tail(p), u)
        BY <2>1, TurnsOfTail, Zenon
    <2> QED
        BY <2>2 DEF p, u
<1>5. InTurn(pending[r], attempts)'
    BY <1>2, <1>4 DEF InTurn
<1> QED
    BY <1>1, <1>5 DEF TurnInv, TurnsKept, TurnHeld

LEMMA EnqueueTurns ==
    ASSUME PoolTypeOK, TurnInv, NEW w \in Works, Enqueue(w)
    PROVE  TurnInv'
<1>1. /\ UNCHANGED <<attempts, mpc, electing>>
      /\ \/ UNCHANGED pending
         \/ /\ w \notin Queued(RunOf[w])
            /\ attempts[w] > 0
            /\ pending' = [pending EXCEPT ![RunOf[w]] = <<w>> \o @]
         \/ /\ w \notin Queued(RunOf[w])
            /\ ~(attempts[w] > 0)
            /\ pending' = [pending EXCEPT ![RunOf[w]] = Append(@, w)]
    BY DEF Enqueue
<1> SUFFICES ASSUME NEW o \in Runs
             PROVE  InTurn(pending[o], attempts)' /\ (mpc'[o] = "notify" => HeldTurn(o)')
    BY DEF TurnInv, TurnsKept, TurnHeld
<1>2. pending[o] \in Seq(Works) /\ InTurn(pending[o], attempts)
    BY DEF PoolTypeOK, TurnInv, TurnsKept
<1>3. mpc[o] = "notify" => HeldTurn(o)
    BY DEF TurnInv, TurnHeld
<1>4. CASE pending'[o] = pending[o]
    BY <1>1, <1>2, <1>3, <1>4 DEF InTurn, HeldTurn, Queued
<1>5. CASE attempts[w] > 0 /\ pending'[o] = <<w>> \o pending[o]
    <2>1. InTurn(pending'[o], attempts)
        BY <1>2, <1>5, TurnInFront
    <2>2. ASSUME mpc[o] = "notify" PROVE HeldTurn(o)'
        <3> DEFINE n == Len(pending[o])
                   q == pending'[o]
        <3>1. /\ n \in Nat /\ Len(q) = n + 1 /\ q[1] = w
              /\ \A i \in 2..n + 1 : q[i] = pending[o][i - 1]
            BY <1>2, <1>5
        <3>2. HeldTurn(o)
            BY <1>3, <2>2
        <3>0. electing[o].work \in {q[i] : i \in 1..n + 1}
            <4>1. PICK i \in 1..n : electing[o].work = pending[o][i]
                BY <3>2 DEF HeldTurn, Queued
            <4>2. i + 1 \in 2..n + 1 /\ (i + 1) - 1 = i /\ i + 1 \in 1..n + 1
                BY <3>1
            <4>3. electing[o].work = q[i + 1]
                BY <3>1, <4>1, <4>2
            <4> QED
                BY <4>2, <4>3
        <3>3. SUFFICES ASSUME NEW i \in 1..n + 1, NEW j \in 1..n + 1, i < j,
                              q[j] = electing[o].work
                       PROVE  attempts[q[i]] > 0
            BY <1>1, <3>0, <3>1 DEF HeldTurn, Queued
        <3>4. CASE i = 1
            BY <1>5, <3>1, <3>4
        <3>5. CASE i # 1
            <4>1. /\ i \in 2..n + 1 /\ j \in 2..n + 1
                  /\ i - 1 \in 1..n /\ j - 1 \in 1..n /\ i - 1 < j - 1
                BY <3>1, <3>3, <3>5
            <4>2. pending[o][j - 1] = electing[o].work
                BY <3>1, <3>3, <4>1
            <4>3. attempts[pending[o][i - 1]] > 0
                BY <3>2, <4>1, <4>2 DEF HeldTurn
            <4> QED
                BY <3>1, <4>1, <4>3
        <3> QED
            BY <3>4, <3>5
    <2> QED
        BY <1>1, <2>1, <2>2 DEF InTurn
<1>6. CASE o = RunOf[w] /\ w \notin Queued(o) /\ ~(attempts[w] > 0)
           /\ pending'[o] = Append(pending[o], w)
    <2>1. InTurn(pending'[o], attempts)
        BY <1>2, <1>6, TurnAtEnd
    <2>2. ASSUME mpc[o] = "notify" PROVE HeldTurn(o)'
        <3> DEFINE n == Len(pending[o])
                   q == pending'[o]
        <3>1. /\ n \in Nat /\ Len(q) = n + 1 /\ q[n + 1] = w
              /\ \A i \in 1..n : q[i] = pending[o][i] /\ i \in 1..n + 1
              /\ \A i \in 1..n + 1 : i = n + 1 \/ i \in 1..n
            BY <1>2, <1>6
        <3>2. HeldTurn(o)
            BY <1>3, <2>2
        <3>3. electing[o].work # w
            BY <1>6, <3>2 DEF HeldTurn
        <3>4. electing[o].work \in {q[i] : i \in 1..n + 1}
            BY <3>1, <3>2 DEF HeldTurn, Queued
        <3>5. ASSUME NEW i \in 1..n + 1, NEW j \in 1..n + 1, i < j,
                     q[j] = electing[o].work
              PROVE  attempts[q[i]] > 0
            <4>1. i \in 1..n /\ j \in 1..n
                BY <3>1, <3>3, <3>5
            <4> QED
                BY <3>1, <3>2, <3>5, <4>1 DEF HeldTurn
        <3> QED
            BY <1>1, <3>1, <3>4, <3>5 DEF HeldTurn, Queued
    <2> QED
        BY <1>1, <2>1, <2>2 DEF InTurn
<1>7. \/ pending'[o] = pending[o]
      \/ attempts[w] > 0 /\ pending'[o] = <<w>> \o pending[o]
      \/ /\ o = RunOf[w] /\ w \notin Queued(o) /\ ~(attempts[w] > 0)
         /\ pending'[o] = Append(pending[o], w)
    BY <1>1 DEF PoolTypeOK
<1> QED
    BY <1>4, <1>5, <1>6, <1>7

LEMMA TurnInit == PoolInit => TurnInv
    BY DEF PoolInit, TurnInv, TurnsKept, TurnHeld, InTurn

LEMMA TurnStep ==
    ASSUME TypeInv, LedgerInv, QueueDistinct, TurnInv, [PoolNext]_poolVars
    PROVE  TurnInv'
<1>0. PoolTypeOK
    BY DEF TypeInv
<1>1. ASSUME UNCHANGED <<pending, attempts, electing>>,
             \A o \in Runs : mpc'[o] = "notify" => mpc[o] = "notify"
      PROVE  TurnInv'
    BY <1>1 DEF TurnInv, TurnsKept, TurnHeld, InTurn, HeldTurn, Queued
<1>2. ASSUME NEW r \in Runs, NEW w \in Works, NEW m \in Models, Elect(r, w, m)
      PROVE  TurnInv'
    <2> DEFINE a == [work |-> w, attempt |-> attempts[w] + 1, model |-> m]
    <2>1. /\ pending[r] \in Seq(Works) /\ pending[r] # <<>> /\ w = pending[r][1]
          /\ 1 \in 1..Len(pending[r]) /\ mpc[r] = "poll"
        BY <1>0, <1>2 DEF Elect, AtHead, PoolTypeOK
    <2>2. RunOf[w] = r
        BY <2>1 DEF LedgerInv, QueueOwned
    <2>3. a \in Assignment /\ a.work = w /\ a.attempt > 0
        BY <1>0 DEF Assignment, PoolTypeOK
    <2>4. \A j \in 1..Len(pending[r]) : pending[r][j] = w => j = 1
        BY <2>1 DEF QueueDistinct, Distinct
    <2>5. CASE NotifySuspends
        <3>1. /\ electing' = [electing EXCEPT ![r] = a] /\ mpc' = [mpc EXCEPT ![r] = "notify"]
              /\ UNCHANGED <<pending, attempts>>
            BY <1>2, <2>5 DEF Elect
        <3>2. /\ electing'[r].work = w
              /\ \A o \in Runs \ {r} : electing'[o] = electing[o] /\ mpc'[o] = mpc[o]
            BY <1>0, <2>3, <3>1 DEF PoolTypeOK
        <3>3. HeldTurn(r)'
            BY <2>1, <2>4, <3>1, <3>2 DEF HeldTurn, Queued
        <3> QED
            BY <3>1, <3>2, <3>3
            DEF TurnInv, TurnsKept, TurnHeld, InTurn, HeldTurn, Queued
    <2>6. CASE ~NotifySuspends
        <3>1. HandOut(r, a) /\ UNCHANGED <<mpc, electing>>
            BY <1>2, <2>6 DEF Elect
        <3> QED
            BY <1>0, <2>1, <2>2, <2>3, <2>4, <3>1, HandOutTurns
    <2> QED
        BY <2>5, <2>6
<1>3. ASSUME NEW r \in Runs, Publish(r) PROVE TurnInv'
    <2>1. electing[r] \in Assignment /\ HandOut(r, electing[r]) /\ mpc[r] = "notify"
        BY <1>3 DEF Publish, TypeInv, ResultHeld
    <2>2. HeldTurn(r) /\ HeldSeat(r)
        BY <2>1 DEF TurnInv, TurnHeld, LedgerInv, NotifyHoldsSeat
    <2>3. RunOf[electing[r].work] = r
        BY <1>0, <2>2 DEF HeldTurn, Queued, LedgerInv, QueueOwned
    <2>4. electing[r].attempt > 0
        BY <2>2 DEF HeldSeat, LedgerInv, AttemptsNumbered
    <2>5. pending[r] # <<>>
        BY <1>0, <2>2 DEF HeldTurn, Queued, PoolTypeOK
    <2>6. /\ mpc'[r] # "notify"
          /\ \A o \in Runs \ {r} : electing'[o] = electing[o] /\ mpc'[o] = mpc[o]
        BY <1>0, <1>3 DEF Publish, PoolTypeOK
    <2> QED
        BY <1>0, <2>1, <2>2, <2>3, <2>4, <2>5, <2>6, HandOutTurns DEF HeldTurn
<1>4. ASSUME NEW r \in Runs,
             (\E w \in Works : ElectionFails(r, w)) \/ LoopEnds(r) \/ LoopCrashes(r)
      PROVE  TurnInv'
    BY <1>0, <1>1, <1>4 DEF ElectionFails, LoopEnds, LoopCrashes, PoolTypeOK
<1>5. CASE Surroundings \/ UNCHANGED poolVars
    BY <1>1, <1>5
    DEF Surroundings, CoolingEnds, ScoreDrops, ScoreRecovers, Reconfigure, poolVars
<1>6. CASE Caller
    <2>1. ASSUME NEW r \in Runs, StartLoop(r) \/ CancelLoop(r) PROVE TurnInv'
        BY <1>0, <1>1, <2>1 DEF StartLoop, CancelLoop, PoolTypeOK
    <2> QED
        BY <1>0, <1>1, <1>6, <2>1, EnqueueTurns
        DEF Caller, Feedback, TakeAssignment, StopElections, Close
<1> QED
    BY <1>2, <1>3, <1>4, <1>5, <1>6 DEF PoolNext, LoopStep

LEMMA QueueInvariant == PoolSpec => [](QueueDistinct /\ TurnInv)
<1>1. TypeInv /\ LedgerInv /\ QueueDistinct /\ TurnInv /\ [PoolNext]_poolVars
         => QueueDistinct' /\ TurnInv'
    BY DistinctStep, TurnStep
<1> QED
    BY <1>1, DistinctInit, TurnInit, TypeInvariant, LedgerInvariant, PTL DEF PoolSpec

(* A retry stands in front of every work that was never tried, also when it comes  *)
(* back while an election is suspended and the wrong head is dropped.              *)
THEOREM RetriesGoFirst == PoolSpec => []RetriedFirst
<1>1. TurnInv => RetriedFirst
    BY DEF TurnInv, TurnsKept, InTurn, RetriedFirst
<1> QED
    BY <1>1, QueueInvariant, PTL

-----------------------------------------------------------------------------
(* Giving up *)

(* With nothing in use, a request whose back-off is over either is elected, or is *)
(* misconfigured, or waits for a score.                                           *)
LEMMA SelectsOrWaits ==
    ASSUME TypeInv, NEW w \in Works, seats = {}, ~Misconfigured(w),
           Selectable(w) = {}
    PROVE  HealthWaiting(w)
<1>1. /\ config.weighted \subseteq config.listed
      /\ config.listed \subseteq Models
      /\ \A m \in Models : config.cap[m] \in Nat \ {0}
    BY ModelElectionAssumption DEF TypeInv, PoolTypeOK
<1>2. \A m \in Models : Occupancy(m) = 0
    <2>1. \A m \in Models : SeatsAt(m) = {}
        BY DEF SeatsAt
    <2> QED
        BY <2>1, FS_EmptySet DEF Occupancy
<1>3. Free = config.listed \ unhealthy
    BY <1>1, <1>2 DEF Free
<1>4. CASE FixedModelOf[w] = NoModel
    BY <1>1, <1>3, <1>4 DEF Misconfigured, Selectable, HealthWaiting
<1>5. CASE FixedModelOf[w] # NoModel
    BY <1>3, <1>5 DEF Misconfigured, Selectable, HealthWaiting
<1> QED
    BY <1>4, <1>5

(* A pool that gives up found nothing in use; were the back-off of its head not    *)
(* running at the first reading, it would have elected, or failed otherwise.       *)
LEMMA GivesUpStep ==
    ASSUME TypeInv, LedgerInv, [PoolNext]_poolVars, NEW q \in Runs,
           mpc[q] # "exhausted", mpc'[q] = "exhausted"
    PROVE  seats = {} /\ pending[q] # <<>> /\ cooling[Head(pending[q])]
<1>2. ASSUME NEW r \in Runs, NEW w \in Works, ElectionFails(r, w)
      PROVE  seats = {} /\ pending[q] # <<>> /\ cooling[Head(pending[q])]
    <2> DEFINE failed == selection_error[r] \/ (MayElect(r, w) /\ Misconfigured(w))
    <2>1. PICK late \in BOOLEAN :
             mpc' = [mpc EXCEPT ![r] =
                       CASE NoUsage(r) /\ failed -> "error"
                         [] NoUsage(r) /\ ~failed /\ ~late /\ ~HealthWaiting(w)
                              -> "exhausted"
                         [] OTHER -> @]
        BY <1>2 DEF ElectionFails
    <2> DEFINE p == CASE NoUsage(r) /\ failed -> "error"
                      [] NoUsage(r) /\ ~failed /\ ~late /\ ~HealthWaiting(w)
                           -> "exhausted"
                      [] OTHER -> mpc[r]
    <2>3. mpc'[q] = IF q = r THEN p ELSE mpc[q]
        BY <2>1 DEF TypeInv, PoolTypeOK
    <2>4. q = r /\ p = "exhausted"
        BY <2>3
    <2>5. NoUsage(r) /\ ~failed /\ ~HealthWaiting(w)
        BY <2>4
    <2>6. pending[r] # <<>> /\ w = Head(pending[r]) /\ RunOf[w] = r
        <3>1. pending[r] \in Seq(Works) /\ pending[r] # <<>> /\ w = Head(pending[r])
            BY <1>2 DEF ElectionFails, AtHead, TypeInv, PoolTypeOK
        <3>2. 1 \in 1..Len(pending[r]) /\ w = pending[r][1]
            BY <3>1
        <3> QED
            BY <3>1, <3>2 DEF LedgerInv, QueueOwned
    <2>7. cooling[w]
        <3>1. SUFFICES ASSUME ~cooling[w] PROVE FALSE
            OBVIOUS
        <3>2. MayElect(r, w)
            BY <2>5, <2>6, <3>1 DEF MayElect, NoUsage, WorksOf
        <3>3. Selectable(w) = {} /\ ~Misconfigured(w) /\ seats = {}
            BY <1>2, <2>5, <3>2 DEF ElectionFails, NoUsage
        <3> QED
            BY <2>5, <3>3, SelectsOrWaits
    <2> QED
        BY <2>4, <2>5, <2>6, <2>7 DEF NoUsage
<1>3. ASSUME NEW r \in Runs,
             \/ \E w \in Works, m \in Models : Elect(r, w, m)
             \/ Publish(r) \/ LoopEnds(r) \/ LoopCrashes(r) \/ StartLoop(r)
             \/ CancelLoop(r)
      PROVE  FALSE
    <2>1. PICK p \in {"notify", "poll", "ended", "crashed", "cancelled", mpc[r]} :
             mpc' = [mpc EXCEPT ![r] = p] \/ mpc' = mpc
        BY <1>3 DEF Elect, Publish, LoopEnds, LoopCrashes, StartLoop, CancelLoop
    <2> QED
        BY <2>1 DEF TypeInv, PoolTypeOK
<1>4. ASSUME UNCHANGED mpc PROVE FALSE
    BY <1>4
<1>5. ASSUME Surroundings PROVE FALSE
    BY <1>4, <1>5 DEF Surroundings, CoolingEnds, ScoreDrops, ScoreRecovers, Reconfigure
<1>6. ASSUME Caller PROVE FALSE
    <2>1. ASSUME NEW w \in Works, Enqueue(w) PROVE FALSE
        BY <1>4, <2>1 DEF Enqueue
    <2>2. ASSUME NEW w \in Works, NEW n \in 1..attempts[w], NEW o \in {"retry", "saved"},
                 Feedback(w, n, o)
          PROVE  FALSE
        BY <1>4, <2>2 DEF Feedback
    <2>3. ASSUME NEW r \in Runs, NEW stop \in BOOLEAN, TakeAssignment(r, stop)
          PROVE  FALSE
        BY <1>4, <2>3 DEF TakeAssignment
    <2>4. ASSUME NEW r \in Runs, StopElections(r) \/ Close(r) PROVE FALSE
        BY <1>4, <2>4 DEF StopElections, Close
    <2> QED
        BY <1>3, <1>6, <2>1, <2>2, <2>3, <2>4 DEF Caller
<1>7. ASSUME UNCHANGED poolVars PROVE FALSE
    BY <1>4, <1>7 DEF poolVars
<1> QED
    BY <1>2, <1>3, <1>5, <1>6, <1>7 DEF PoolNext, LoopStep

(* No pool gives up while a seat of any run is in use, nor because of a back-off,  *)
(* a full model or a low score as such: only when the back-off of the work at its  *)
(* head ends between the two readings of the clock in one iteration.               *)
THEOREM OnlyTheClock == PoolSpec => GivesUpOnlyByTheClock
<1>1. TypeInv /\ LedgerInv /\ [PoolNext]_poolVars =>
          [\A r \in Runs : mpc[r] # "exhausted" /\ mpc'[r] = "exhausted" =>
              seats = {} /\ pending[r] # <<>> /\ cooling[Head(pending[r])]]_poolVars
    BY GivesUpStep
<1> QED
    BY <1>1, TypeInvariant, LedgerInvariant, PTL DEF PoolSpec, GivesUpOnlyByTheClock
=============================================================================
