------------------------ MODULE CaseExecutionsProofs ------------------------
(***************************************************************************)
(* Proofs about the case pool under the annotation agent.  The first part  *)
(* says, field by field, what every method of the pool does; the second    *)
(* gives the inductive invariant; the third proves it and the properties.  *)
(***************************************************************************)
EXTENDS CaseExecutions, TLAPS

-----------------------------------------------------------------------------
(* The methods of the pool, field by field *)

LEMMA BegunFields ==
    ASSUME NEW p \in Pool, NEW e \in Executions
    PROVE  /\ Begun(p, e) \in Pool
           /\ Begun(p, e).known = p.known
           /\ Begun(p, e).owner = p.owner
           /\ Begun(p, e).submitted = p.submitted
           /\ Begun(p, e).registrations = p.registrations
           /\ Begun(p, e).created = p.created
           /\ Begun(p, e).executions = p.executions \cup {e}
           /\ Begun(p, e).saved = p.saved
BY DEF Begun, Pool, Holder

LEMMA PushedFields ==
    ASSUME NEW p \in Pool, NEW e \in Executions, NEW c \in Cases
    PROVE  LET q == Pushed(p, e, c) IN
           /\ q \in Pool
           /\ q.known = p.known \cup {c}
           /\ q.owner = p.owner
           /\ q.submitted = p.submitted
           /\ q.registrations =
                 [p.registrations EXCEPT ![e] = @ \cup {c}]
           /\ q.created =
                 [p.created EXCEPT ![e] = IF c \in p.known THEN @ ELSE @ \cup {c}]
           /\ q.executions = p.executions
           /\ q.saved = p.saved
BY DEF Pushed, Pool, Holder

LEMMA ClaimedFields ==
    ASSUME NEW p \in Pool, NEW e \in Executions, NEW c \in Cases,
           p.owner[c] = Nobody
    PROVE  LET q == Claimed(p, e, c) IN
           /\ q \in Pool
           /\ q.known = p.known
           /\ q.owner = [p.owner EXCEPT ![c] = e]
           /\ q.submitted = p.submitted
           /\ q.registrations =
                 [p.registrations EXCEPT ![e] = @ \cup {c}]
           /\ q.created = p.created
           /\ q.executions = p.executions
           /\ q.saved = p.saved
BY DEF Claimed, Pool, Holder

LEMMA SubmittedFields ==
    ASSUME NEW p \in Pool, NEW e \in Executions, NEW c \in Cases,
           p.owner[c] = e
    PROVE  LET q == Submitted(p, e, c) IN
           /\ q \in Pool
           /\ q.known = p.known
           /\ q.owner = p.owner
           /\ q.submitted = p.submitted \cup {c}
           /\ q.registrations = p.registrations
           /\ q.created = p.created
           /\ q.executions = p.executions
           /\ q.saved = p.saved
BY DEF Submitted, Pool, Holder

LEMMA FreedFields ==
    ASSUME NEW p \in Pool, NEW e \in Executions
    PROVE  LET q == Freed(p, e) IN
           /\ q \in Pool
           /\ q.known = p.known
           /\ q.owner =
                 [c \in Cases |-> IF p.owner[c] = e THEN Nobody ELSE p.owner[c]]
           /\ q.submitted = {c \in p.submitted : p.owner[c] # e}
           /\ q.registrations = p.registrations
           /\ q.created = p.created
           /\ q.executions = p.executions
           /\ q.saved = p.saved
BY DEF Freed, Pool, Holder

LEMMA ForgottenFields ==
    ASSUME NEW p \in Pool, NEW gone \in SUBSET Cases
    PROVE  LET q == Forgotten(p, gone) IN
           /\ q \in Pool
           /\ q.known = p.known \ gone
           /\ q.owner =
                 [c \in Cases |-> IF c \in gone THEN Nobody ELSE p.owner[c]]
           /\ q.submitted = p.submitted \ gone
           /\ q.registrations = p.registrations
           /\ q.created = p.created
           /\ q.executions = p.executions
           /\ q.saved = p.saved
BY DEF Forgotten, Pool, Holder

LEMMA ConfirmedFields ==
    ASSUME NEW p \in Pool, NEW e \in Executions
    PROVE  LET q == Confirmed(p, e) IN
           /\ q \in Pool
           /\ q.known = p.known
           /\ q.owner =
                 [c \in Cases |-> IF p.owner[c] = e /\ c \notin p.submitted
                                  THEN Nobody ELSE p.owner[c]]
           /\ q.submitted = p.submitted
           /\ q.registrations = p.registrations
           /\ q.created = p.created
           /\ q.executions = p.executions \ {e}
           /\ q.saved = p.saved \cup {e}
BY DEF Confirmed, Stopped, Pool, Holder

LEMMA MergedFields ==
    ASSUME NEW p \in Pool, NEW r \in Rows
    PROVE  LET q == Merged(p, r) IN
           /\ q \in Pool
           /\ q.known = p.known \cup r.cases
           /\ q.owner = [c \in Cases |-> IF c \in Resolved(r)
                                         THEN r.resolver[c] ELSE p.owner[c]]
           /\ q.submitted = p.submitted \cup Resolved(r)
           /\ q.registrations = p.registrations
           /\ q.created = p.created
           /\ q.executions = p.executions
           /\ q.saved = p.saved
BY DEF Merged, Resolved, Pool, Rows, Holder

LEMMA RolledBackFields ==
    ASSUME NEW p \in Pool, NEW e \in Executions, e \notin p.saved
    PROVE  LET q == RolledBack(p, e)
               gone == CreatedAlone(p, e) IN
           /\ gone \subseteq p.known
           /\ q \in Pool
           /\ q.known = p.known \ gone
           /\ q.owner =
                 [c \in Cases |-> IF c \in gone \/ p.owner[c] = e
                                  THEN Nobody ELSE p.owner[c]]
           /\ q.submitted = {c \in p.submitted \ gone : p.owner[c] # e}
           /\ q.registrations = [p.registrations EXCEPT ![e] = {}]
           /\ q.created = [p.created EXCEPT ![e] = {}]
           /\ q.executions = p.executions \ {e}
           /\ q.saved = p.saved
<1> DEFINE gone == CreatedAlone(p, e)
           f == Forgotten(p, gone)
           g == Freed(f, e)
           h == Stopped(g, e)
<1>1. gone \subseteq p.known /\ gone \in SUBSET Cases
  BY DEF CreatedAlone, Pool
<1> HIDE DEF gone
<1>2. /\ f \in Pool
      /\ f.known = p.known \ gone
      /\ f.owner = [c \in Cases |-> IF c \in gone THEN Nobody ELSE p.owner[c]]
      /\ f.submitted = p.submitted \ gone
      /\ f.registrations = p.registrations
      /\ f.created = p.created
      /\ f.executions = p.executions
      /\ f.saved = p.saved
  BY <1>1, ForgottenFields
<1> HIDE DEF f
<1>3. /\ g \in Pool
      /\ g.known = f.known
      /\ g.owner =
            [c \in Cases |-> IF f.owner[c] = e THEN Nobody ELSE f.owner[c]]
      /\ g.submitted = {c \in f.submitted : f.owner[c] # e}
      /\ g.registrations = f.registrations
      /\ g.created = f.created
      /\ g.executions = f.executions
      /\ g.saved = f.saved
  BY <1>2, FreedFields
<1> HIDE DEF g
<1>4. RolledBack(p, e) = [h EXCEPT !.registrations[e] = {}, !.created[e] = {}]
  BY DEF RolledBack, gone, f, g, h
<1>5. g.owner = [c \in Cases |-> IF c \in gone \/ p.owner[c] = e
                                  THEN Nobody ELSE p.owner[c]]
  BY <1>1, <1>2, <1>3
<1>6. g.submitted = {c \in p.submitted \ gone : p.owner[c] # e}
  BY <1>1, <1>2, <1>3 DEF Pool
<1>7. /\ h \in Pool /\ h.known = g.known /\ h.owner = g.owner
      /\ h.submitted = g.submitted /\ h.registrations = g.registrations
      /\ h.created = g.created /\ h.executions = g.executions \ {e}
      /\ h.saved = g.saved
  BY <1>3 DEF Stopped, Pool, h
<1> HIDE DEF h
<1> DEFINE k == [h EXCEPT !.registrations[e] = {}, !.created[e] = {}]
<1>8. /\ k \in Pool /\ k.known = h.known /\ k.owner = h.owner
      /\ k.submitted = h.submitted
      /\ k.registrations = [h.registrations EXCEPT ![e] = {}]
      /\ k.created = [h.created EXCEPT ![e] = {}]
      /\ k.executions = h.executions /\ k.saved = h.saved
  BY <1>7 DEF Pool
<1>9. RolledBack(p, e) = k
  BY <1>4
<1> HIDE DEF k
<1>10. QED
  BY <1>1, <1>2, <1>3, <1>5, <1>6, <1>7, <1>8, <1>9 DEF gone

\* restore(), when the author held nothing at the time of the snapshot.
LEMMA RestoredFields ==
    ASSUME NEW p \in Pool, NEW s \in Pool, NEW e \in Executions,
           e \notin p.saved
    PROVE  LET q == Restored(p, s, e)
               gone == {c \in ((p.created[e] \cap p.known) \ s.created[e]) \
                               RegisteredByOthers(p, e) : p.owner[c] \in {Nobody, e}}
               back == {c \in (p.known \ gone) \cap s.known :
                           s.owner[c] = e /\ p.owner[c] \in {Nobody, e}} IN
           /\ gone \subseteq p.known
           /\ q \in Pool
           /\ q.known = p.known \ gone
           /\ q.owner =
                 [c \in Cases |-> IF c \in back THEN e
                                  ELSE IF c \in gone \/ p.owner[c] = e
                                  THEN Nobody ELSE p.owner[c]]
           /\ q.submitted = {c \in p.submitted \ gone : p.owner[c] # e}
                             \cup (back \cap s.submitted)
           /\ q.registrations = [p.registrations EXCEPT ![e] = s.registrations[e]]
           /\ q.created = [p.created EXCEPT ![e] = s.created[e]]
           /\ q.executions = IF e \in s.executions THEN p.executions
                             ELSE p.executions \ {e}
           /\ q.saved = p.saved
<1> DEFINE gone == {c \in ((p.created[e] \cap p.known) \ s.created[e]) \
                           RegisteredByOthers(p, e) : p.owner[c] \in {Nobody, e}}
           f == Forgotten(p, gone)
           g == Freed(f, e)
           back == {c \in g.known \cap s.known :
                        s.owner[c] = e /\ g.owner[c] = Nobody}
           h == [g EXCEPT
                   !.owner = [c \in Cases |-> IF c \in back THEN e ELSE @[c]],
                   !.submitted = @ \cup (back \cap s.submitted),
                   !.registrations[e] = s.registrations[e],
                   !.created[e] = s.created[e],
                   !.executions = IF e \in s.executions THEN @ ELSE @ \ {e}]
<1>1. gone \subseteq p.known /\ gone \in SUBSET Cases
  BY DEF Pool
<1>2. Restored(p, s, e) = h
  BY DEF Restored
<1>c. \A c \in gone : p.owner[c] \in {Nobody, e}
  OBVIOUS
<1> HIDE DEF gone
<1>3. /\ f \in Pool
      /\ f.known = p.known \ gone
      /\ f.owner = [c \in Cases |-> IF c \in gone THEN Nobody ELSE p.owner[c]]
      /\ f.submitted = p.submitted \ gone
      /\ f.registrations = p.registrations
      /\ f.created = p.created
      /\ f.executions = p.executions
      /\ f.saved = p.saved
  BY <1>1, ForgottenFields
<1> HIDE DEF f
<1>4. /\ g \in Pool
      /\ g.known = f.known
      /\ g.owner =
            [c \in Cases |-> IF f.owner[c] = e THEN Nobody ELSE f.owner[c]]
      /\ g.submitted = {c \in f.submitted : f.owner[c] # e}
      /\ g.registrations = f.registrations
      /\ g.created = f.created
      /\ g.executions = f.executions
      /\ g.saved = f.saved
  BY <1>3, FreedFields
<1> HIDE DEF g
<1>5. g.owner = [c \in Cases |-> IF c \in gone \/ p.owner[c] = e
                                  THEN Nobody ELSE p.owner[c]]
  BY <1>1, <1>3, <1>4
<1>6. g.submitted = {c \in p.submitted \ gone : p.owner[c] # e}
  BY <1>1, <1>3, <1>4 DEF Pool
<1>7. back = {c \in (p.known \ gone) \cap s.known :
                  s.owner[c] = e /\ p.owner[c] \in {Nobody, e}}
  BY <1>1, <1>3, <1>4, <1>5, CasePoolAssumption DEF Pool, Holder
<1>8. back \subseteq Cases /\ back \in SUBSET Cases
  BY <1>4 DEF Pool
<1> HIDE DEF back
<1>9. /\ h.known = g.known
      /\ h.owner = [c \in Cases |-> IF c \in back THEN e ELSE g.owner[c]]
      /\ h.submitted = g.submitted \cup (back \cap s.submitted)
      /\ h.registrations = [g.registrations EXCEPT ![e] = s.registrations[e]]
      /\ h.created = [g.created EXCEPT ![e] = s.created[e]]
      /\ h.executions = IF e \in s.executions THEN g.executions
                         ELSE g.executions \ {e}
      /\ h.saved = g.saved
  BY <1>4 DEF Pool
<1>10. h \in Pool
  BY <1>4, <1>8, ZenonT(60) DEF Pool, Holder
<1> HIDE DEF h
<1>11. h.owner = [c \in Cases |-> IF c \in back THEN e
                                  ELSE IF c \in gone \/ p.owner[c] = e
                                  THEN Nobody ELSE p.owner[c]]
  BY <1>5, <1>9
<1>12. h.submitted = {c \in p.submitted \ gone : p.owner[c] # e}
                     \cup (back \cap s.submitted)
  BY <1>6, <1>9
<1>13. /\ h.known = p.known \ gone
       /\ h.registrations = [p.registrations EXCEPT ![e] = s.registrations[e]]
       /\ h.created = [p.created EXCEPT ![e] = s.created[e]]
       /\ h.executions = IF e \in s.executions THEN p.executions
                          ELSE p.executions \ {e}
       /\ h.saved = p.saved
  BY <1>3, <1>4, <1>9
<1> DEFINE q == Restored(p, s, e)
<1>14. /\ q \in Pool /\ q.known = h.known /\ q.owner = h.owner
       /\ q.submitted = h.submitted /\ q.registrations = h.registrations
       /\ q.created = h.created /\ q.executions = h.executions
       /\ q.saved = h.saved
  BY <1>2, <1>10
<1> HIDE DEF q
<1>15. back = {c \in (p.known \ gone) \cap s.known :
                  s.owner[c] = e /\ p.owner[c] \in {Nobody, e}}
  BY <1>7
<1> USE DEF gone
<1>16. QED
  BY <1>1, <1>11, <1>12, <1>13, <1>14, <1>15 DEF q

LEMMA RecoveredFields ==
    ASSUME NEW p \in Pool, NEW e \in Executions, NEW mine \in Contribution
    PROVE  LET q == Recovered(p, e, mine) IN
           /\ q \in Pool
           /\ q.known = p.known \cup mine.registrations
           /\ q.owner =
                 [c \in Cases |->
                    IF c \in mine.submissions THEN e
                    ELSE IF p.owner[c] = e /\ c \notin p.submitted
                    THEN Nobody ELSE p.owner[c]]
           /\ q.submitted = p.submitted \cup mine.submissions
           /\ q.registrations =
                 [p.registrations EXCEPT ![e] = @ \cup mine.registrations]
           /\ q.created = p.created
           /\ q.executions = p.executions \ {e}
           /\ q.saved = p.saved \cup {e}
<1> DEFINE f == [Begun(p, e) EXCEPT
                   !.known = @ \cup mine.registrations,
                   !.registrations[e] = @ \cup mine.registrations,
                   !.owner = [c \in Cases |->
                                IF c \in mine.submissions THEN e ELSE @[c]],
                   !.submitted = @ \cup mine.submissions]
<1>1. /\ f \in Pool
      /\ f.known = p.known \cup mine.registrations
      /\ f.owner = [c \in Cases |->
                      IF c \in mine.submissions THEN e ELSE p.owner[c]]
      /\ f.submitted = p.submitted \cup mine.submissions
      /\ f.registrations =
            [p.registrations EXCEPT ![e] = @ \cup mine.registrations]
      /\ f.created = p.created
      /\ f.executions = p.executions \cup {e}
      /\ f.saved = p.saved
  <2> DEFINE b == Begun(p, e)
  <2>1. /\ b \in Pool /\ b.known = p.known /\ b.owner = p.owner
        /\ b.submitted = p.submitted /\ b.registrations = p.registrations
        /\ b.created = p.created /\ b.executions = p.executions \cup {e}
        /\ b.saved = p.saved
    BY BegunFields
  <2> HIDE DEF b
  <2>2. QED
    BY <2>1 DEF Pool, Holder, Contribution, b
<1>2. Recovered(p, e, mine) = Confirmed(f, e)
  BY DEF Recovered
<1> HIDE DEF f
<1> DEFINE g == Confirmed(f, e)
<1>3. /\ g \in Pool
      /\ g.known = f.known
      /\ g.owner = [c \in Cases |-> IF f.owner[c] = e /\ c \notin f.submitted
                                   THEN Nobody ELSE f.owner[c]]
      /\ g.submitted = f.submitted
      /\ g.registrations = f.registrations
      /\ g.created = f.created
      /\ g.executions = f.executions \ {e}
      /\ g.saved = f.saved \cup {e}
  BY <1>1, ConfirmedFields
<1> HIDE DEF g
<1>4. g.owner = [c \in Cases |->
                    IF c \in mine.submissions THEN e
                    ELSE IF p.owner[c] = e /\ c \notin p.submitted
                    THEN Nobody ELSE p.owner[c]]
  BY <1>1, <1>3, CasePoolAssumption
<1>5. QED
  BY <1>1, <1>2, <1>3, <1>4 DEF g

-----------------------------------------------------------------------------
(* The inductive invariant, in named parts *)

\* What has been forgotten is held by nobody and submitted by nobody.
UnknownIsFree ==
    \A c \in Cases :
        c \notin pool.known => pool.owner[c] = Nobody /\ c \notin pool.submitted

SubmittedIsHeld == \A c \in pool.submitted : pool.owner[c] # Nobody

RegisteredKnown == \A e \in Executions : pool.registrations[e] \subseteq pool.known

CreatedRegistered ==
    \A e \in Executions : pool.created[e] \subseteq pool.registrations[e]

\* A running execution has registered what it holds.
HeldIsRegistered ==
    \A c \in Cases : pool.owner[c] \in pool.executions =>
        c \in pool.registrations[pool.owner[c]]

Writing == {"open", "complete", "refused", "consolidating"}

\* The stage of an execution and its standing in the pool agree.
StageStanding ==
    \A e \in Executions :
        /\ stage[e] = "new" =>
              /\ e \notin pool.executions \cup pool.saved
              /\ pool.registrations[e] = {} /\ pool.created[e] = {}
        /\ stage[e] \in Writing => e \in pool.executions /\ e \notin pool.saved
        /\ e \in pool.executions =>
              stage[e] \in Writing \cup {"committed", "unconfirmed"}
        /\ stage[e] \in {"new", "consolidating"} =>
              \A c \in Cases : pool.owner[c] # e
        /\ stage[e] = "over" =>
              \A c \in Cases : pool.owner[c] = e => rows.resolver[c] = e

\* A row with a resolver exists, and its resolver got as far as its commit.
ResolverCommitted ==
    \A c \in Cases : rows.resolver[c] # Nobody =>
        /\ c \in rows.cases
        /\ stage[rows.resolver[c]] \in
              {"committed", "unconfirmed", "confirmed", "over"}

\* Memory follows the store as soon as it has been loaded.
ResolvedIsHeld ==
    ready => \A c \in Cases : rows.resolver[c] # Nobody =>
        /\ c \in pool.known /\ c \in pool.submitted
        /\ pool.owner[c] = rows.resolver[c]

\* What was frozen as submitted is what memory still has as submitted.
FrozenIsHeld ==
    \A e \in Executions :
        /\ stage[e] = "complete" =>
              /\ frozen[e].submissions =
                    {c \in pool.submitted : pool.owner[c] = e}
              /\ frozen[e].submissions \subseteq frozen[e].registrations
        /\ stage[e] \in {"committed", "unconfirmed", "confirmed"} =>
              \A c \in pool.submitted :
                  pool.owner[c] = e => rows.resolver[c] = e

ReceiptIsOld ==
    \A e \in Executions :
        /\ receipt[e].cases \subseteq rows.cases
        /\ \A c \in Cases : receipt[e].resolver[c] # Nobody =>
              receipt[e].resolver[c] = rows.resolver[c]

LockHeld ==
    /\ lock # Nobody =>
          /\ stage[lock] = "consolidating"
          /\ before.registrations[lock] = {} /\ before.created[lock] = {}
          /\ \A c \in Cases : before.owner[c] # lock
          /\ lock \notin before.executions
    /\ \A e \in Executions : stage[e] = "consolidating" => lock = e

NotLoaded == ~ready =>
    /\ pool = EmptyPool /\ lock = Nobody
    /\ \A e \in Executions : stage[e] \in {"new", "over"}

CaseInv ==
    /\ TypeOK
    /\ UnknownIsFree /\ SubmittedIsHeld /\ RegisteredKnown
    /\ CreatedRegistered /\ HeldIsRegistered /\ StageStanding
    /\ ResolverCommitted /\ ResolvedIsHeld /\ FrozenIsHeld /\ ReceiptIsOld
    /\ LockHeld /\ NotLoaded /\ NoOrphanClaim

\* What a step may do to the cases of a running execution.
KeepsCases ==
    \A c \in Cases :
        pool.owner[c] \in pool.executions =>
            \/ pool'.owner[c] = pool.owner[c]
            \/ pool.owner[c] \notin pool'.executions

-----------------------------------------------------------------------------
(* The invariant is inductive *)

LEMMA RecoverStep ==
    ASSUME CaseInv, Recover
    PROVE  CaseInv' /\ KeepsCases
<1>0. /\ pool = EmptyPool
      /\ \A e \in Executions : stage[e] \in {"new", "over"}
  BY DEF Recover, CaseInv, NotLoaded
<1>1. /\ pool' \in Pool
      /\ pool'.known = rows.cases
      /\ pool'.owner = [c \in Cases |-> IF c \in Resolved(rows)
                                     THEN rows.resolver[c] ELSE Nobody]
      /\ pool'.submitted = Resolved(rows)
      /\ pool'.registrations = [e \in Executions |-> {}]
      /\ pool'.created = [e \in Executions |-> {}]
      /\ pool'.executions = {}
      /\ pool'.saved = {}
      /\ Resolved(rows) = {c \in Cases : rows.resolver[c] # Nobody}
  <2>1. /\ pool' \in Pool
        /\ pool'.known = pool.known \cup rows.cases
        /\ pool'.owner = [c \in Cases |-> IF c \in Resolved(rows)
                                       THEN rows.resolver[c] ELSE pool.owner[c]]
        /\ pool'.submitted = pool.submitted \cup Resolved(rows)
        /\ pool'.registrations = pool.registrations
        /\ pool'.created = pool.created
        /\ pool'.executions = pool.executions
        /\ pool'.saved = pool.saved
    BY MergedFields DEF Recover, CaseInv, TypeOK
  <2>2. Resolved(rows) = {c \in Cases : rows.resolver[c] # Nobody}
    BY DEF Resolved, CaseInv, TypeOK, Rows, ResolverCommitted
  <2>3. QED
    BY <1>0, <2>1, <2>2 DEF EmptyPool
<1>2. \A c \in Cases : pool'.owner[c] = rows.resolver[c]
  BY <1>1 DEF CaseInv, TypeOK, Rows
<1>3. \A e \in Executions, c \in Cases : rows.resolver[c] = e => stage[e] = "over"
  BY <1>0, CasePoolAssumption DEF CaseInv, ResolverCommitted
<1>TypeOK. TypeOK'
  BY <1>1, CasePoolAssumption DEF Recover, Moves, Unlocked, CaseInv, TypeOK, Stages, Holder, Rows, Contribution
<1>UnknownIsFree. UnknownIsFree'
  BY <1>1, <1>2 DEF UnknownIsFree, CaseInv, ResolverCommitted, TypeOK, Rows
<1>SubmittedIsHeld. SubmittedIsHeld'
  BY <1>1, CasePoolAssumption DEF Recover, Moves, Unlocked, CaseInv, SubmittedIsHeld, UnknownIsFree, TypeOK, Pool, Holder
<1>RegisteredKnown. RegisteredKnown'
  BY <1>1, CasePoolAssumption DEF Recover, Moves, Unlocked, CaseInv, RegisteredKnown, TypeOK, Pool
<1>CreatedRegistered. CreatedRegistered'
  BY <1>1, CasePoolAssumption DEF Recover, Moves, Unlocked, CaseInv, CreatedRegistered, TypeOK, Pool
<1>HeldIsRegistered. HeldIsRegistered'
  BY <1>1, CasePoolAssumption DEF HeldIsRegistered
<1>StageStanding. StageStanding'
  BY <1>0, <1>1, <1>2, <1>3 DEF Recover, StageStanding, Writing
<1>ResolverCommitted. ResolverCommitted'
  BY <1>1, CasePoolAssumption DEF Recover, Moves, Unlocked, CaseInv, ResolverCommitted, TypeOK, Rows, Holder
<1>ResolvedIsHeld. ResolvedIsHeld'
  BY <1>1, CasePoolAssumption DEF Recover, Moves, Unlocked, CaseInv, ResolvedIsHeld, ResolverCommitted, TypeOK, Pool, Rows, Holder
<1>FrozenIsHeld. FrozenIsHeld'
  BY <1>0, <1>1, CasePoolAssumption DEF Recover, CaseInv, TypeOK, FrozenIsHeld
<1>ReceiptIsOld. ReceiptIsOld'
  BY <1>1, CasePoolAssumption DEF Recover, Moves, Unlocked, CaseInv, ReceiptIsOld, TypeOK, Rows, EmptyRows
<1>LockHeld. LockHeld'
  BY DEF Recover, CaseInv, LockHeld
<1>NotLoaded. NotLoaded'
  BY <1>1, CasePoolAssumption DEF Recover, Moves, Unlocked, CaseInv, NotLoaded, Writing
<1>NoOrphanClaim. NoOrphanClaim'
  BY <1>1, CasePoolAssumption DEF Recover, CaseInv, TypeOK, Rows, Holder, NoOrphanClaim
<1>kept. KeepsCases
  BY <1>0 DEF KeepsCases, EmptyPool
<1> QED
  BY <1>TypeOK, <1>UnknownIsFree, <1>SubmittedIsHeld, <1>RegisteredKnown, <1>CreatedRegistered, <1>HeldIsRegistered, <1>StageStanding, <1>ResolverCommitted, <1>ResolvedIsHeld, <1>FrozenIsHeld, <1>ReceiptIsOld, <1>LockHeld, <1>NotLoaded, <1>NoOrphanClaim, <1>kept DEF CaseInv

LEMMA BeginStep ==
    ASSUME CaseInv, NEW e \in Executions, Begin(e)
    PROVE  CaseInv' /\ KeepsCases
<1>1. /\ pool' \in Pool
      /\ pool'.known = pool.known
      /\ pool'.owner = pool.owner
      /\ pool'.submitted = pool.submitted
      /\ pool'.registrations = pool.registrations
      /\ pool'.created = pool.created
      /\ pool'.executions = pool.executions \cup {e}
      /\ pool'.saved = pool.saved
  BY BegunFields DEF Begin, CaseInv, TypeOK
<1>TypeOK. TypeOK'
  BY <1>1, CasePoolAssumption DEF Begin, Moves, Unlocked, CaseInv, TypeOK, Stages, Holder, Rows, Contribution
<1>UnknownIsFree. UnknownIsFree'
  BY <1>1, CasePoolAssumption DEF Begin, Moves, Unlocked, CaseInv, UnknownIsFree, TypeOK, Pool, Holder
<1>SubmittedIsHeld. SubmittedIsHeld'
  BY <1>1, CasePoolAssumption DEF Begin, Moves, Unlocked, CaseInv, SubmittedIsHeld, UnknownIsFree, TypeOK, Pool, Holder
<1>RegisteredKnown. RegisteredKnown'
  BY <1>1, CasePoolAssumption DEF Begin, Moves, Unlocked, CaseInv, RegisteredKnown, TypeOK, Pool
<1>CreatedRegistered. CreatedRegistered'
  BY <1>1, CasePoolAssumption DEF Begin, Moves, Unlocked, CaseInv, CreatedRegistered, TypeOK, Pool
<1>HeldIsRegistered. HeldIsRegistered'
  BY <1>1, CasePoolAssumption DEF Begin, Moves, Unlocked, CaseInv, HeldIsRegistered, StageStanding, TypeOK, Pool, Holder
<1>StageStanding. StageStanding'
  BY <1>1, CasePoolAssumption DEF Begin, Moves, Unlocked, CaseInv, StageStanding, ResolverCommitted, Writing, TypeOK, Pool, Holder
<1>ResolverCommitted. ResolverCommitted'
  BY <1>1, CasePoolAssumption DEF Begin, Moves, Unlocked, CaseInv, ResolverCommitted, TypeOK, Rows, Holder
<1>ResolvedIsHeld. ResolvedIsHeld'
  BY <1>1, CasePoolAssumption DEF Begin, Moves, Unlocked, CaseInv, ResolvedIsHeld, ResolverCommitted, TypeOK, Pool, Rows, Holder
<1>FrozenIsHeld. FrozenIsHeld'
  BY <1>1, CasePoolAssumption DEF Begin, Moves, Unlocked, CaseInv, FrozenIsHeld, StageStanding, Writing, TypeOK, Pool, Rows, Holder, Contribution
<1>ReceiptIsOld. ReceiptIsOld'
  BY <1>1, CasePoolAssumption DEF Begin, Moves, Unlocked, CaseInv, ReceiptIsOld, TypeOK, Rows, EmptyRows
<1>LockHeld. LockHeld'
  BY <1>1, CasePoolAssumption DEF Begin, Moves, Unlocked, CaseInv, LockHeld, StageStanding, TypeOK
<1>NotLoaded. NotLoaded'
  BY <1>1, CasePoolAssumption DEF Begin, Moves, Unlocked, CaseInv, NotLoaded, Writing
<1>NoOrphanClaim. NoOrphanClaim'
  BY <1>1, CasePoolAssumption DEF Begin, Moves, Unlocked, CaseInv, NoOrphanClaim, StageStanding, TypeOK, Pool, Holder
<1>kept. KeepsCases
  BY <1>1, CasePoolAssumption DEF KeepsCases, CaseInv, TypeOK, Pool, Holder
<1> QED
  BY <1>TypeOK, <1>UnknownIsFree, <1>SubmittedIsHeld, <1>RegisteredKnown, <1>CreatedRegistered, <1>HeldIsRegistered, <1>StageStanding, <1>ResolverCommitted, <1>ResolvedIsHeld, <1>FrozenIsHeld, <1>ReceiptIsOld, <1>LockHeld, <1>NotLoaded, <1>NoOrphanClaim, <1>kept DEF CaseInv

LEMMA CompleteStep ==
    ASSUME CaseInv, NEW e \in Executions, Complete(e)
    PROVE  CaseInv' /\ KeepsCases
<1>1. /\ pool' = pool
      /\ frozen' = [frozen EXCEPT ![e] = ContributionOf(pool, e)]
  BY DEF Complete
<1>2. /\ ContributionOf(pool, e) \in Contribution
      /\ ContributionOf(pool, e).submissions =
            {c \in pool.submitted : pool.owner[c] = e}
      /\ ContributionOf(pool, e).registrations = pool.registrations[e]
  BY CasePoolAssumption DEF ContributionOf, SubmissionsFor, ClaimsFor, Contribution,
         CaseInv, TypeOK, Pool, UnknownIsFree
<1>3. {c \in pool.submitted : pool.owner[c] = e} \subseteq pool.registrations[e]
  BY DEF Complete, Moves, CaseInv, TypeOK, Pool, StageStanding, HeldIsRegistered,
         Writing
<1>TypeOK. TypeOK'
  BY <1>1, CasePoolAssumption DEF Complete, Moves, Unlocked, CaseInv, TypeOK, Stages, Holder, Rows, Contribution, ContributionOf, SubmissionsFor, ClaimsFor, Pool
<1>UnknownIsFree. UnknownIsFree'
  BY <1>1, CasePoolAssumption DEF Complete, Moves, Unlocked, CaseInv, UnknownIsFree, TypeOK, Pool, Holder
<1>SubmittedIsHeld. SubmittedIsHeld'
  BY <1>1, CasePoolAssumption DEF Complete, Moves, Unlocked, CaseInv, SubmittedIsHeld, UnknownIsFree, TypeOK, Pool, Holder
<1>RegisteredKnown. RegisteredKnown'
  BY <1>1, CasePoolAssumption DEF Complete, Moves, Unlocked, CaseInv, RegisteredKnown, TypeOK, Pool
<1>CreatedRegistered. CreatedRegistered'
  BY <1>1, CasePoolAssumption DEF Complete, Moves, Unlocked, CaseInv, CreatedRegistered, TypeOK, Pool
<1>HeldIsRegistered. HeldIsRegistered'
  BY <1>1, CasePoolAssumption DEF Complete, Moves, Unlocked, CaseInv, HeldIsRegistered, StageStanding, TypeOK, Pool, Holder
<1>StageStanding. StageStanding'
  BY <1>1, CasePoolAssumption DEF Complete, Moves, Unlocked, CaseInv, StageStanding, ResolverCommitted, Writing, TypeOK, Pool, Holder
<1>ResolverCommitted. ResolverCommitted'
  BY <1>1, CasePoolAssumption DEF Complete, Moves, Unlocked, CaseInv, ResolverCommitted, TypeOK, Rows, Holder
<1>ResolvedIsHeld. ResolvedIsHeld'
  BY <1>1, CasePoolAssumption DEF Complete, Moves, Unlocked, CaseInv, ResolvedIsHeld, ResolverCommitted, TypeOK, Pool, Rows, Holder
<1>FrozenIsHeld. FrozenIsHeld'
  BY <1>1, <1>2, <1>3 DEF Complete, Moves, CaseInv, TypeOK, FrozenIsHeld
<1>ReceiptIsOld. ReceiptIsOld'
  BY <1>1, CasePoolAssumption DEF Complete, Moves, Unlocked, CaseInv, ReceiptIsOld, TypeOK, Rows, EmptyRows
<1>LockHeld. LockHeld'
  BY <1>1, CasePoolAssumption DEF Complete, Moves, Unlocked, CaseInv, LockHeld, StageStanding, TypeOK
<1>NotLoaded. NotLoaded'
  BY <1>1, CasePoolAssumption DEF Complete, Moves, Unlocked, CaseInv, NotLoaded, Writing
<1>NoOrphanClaim. NoOrphanClaim'
  BY <1>1, CasePoolAssumption DEF Complete, Moves, Unlocked, CaseInv, NoOrphanClaim, StageStanding, TypeOK, Pool, Holder
<1>kept. KeepsCases
  BY <1>1, CasePoolAssumption DEF KeepsCases, CaseInv, TypeOK, Pool, Holder
<1> QED
  BY <1>TypeOK, <1>UnknownIsFree, <1>SubmittedIsHeld, <1>RegisteredKnown, <1>CreatedRegistered, <1>HeldIsRegistered, <1>StageStanding, <1>ResolverCommitted, <1>ResolvedIsHeld, <1>FrozenIsHeld, <1>ReceiptIsOld, <1>LockHeld, <1>NotLoaded, <1>NoOrphanClaim, <1>kept DEF CaseInv

LEMMA CommitStep ==
    ASSUME CaseInv, NEW e \in Executions, Commit(e)
    PROVE  CaseInv' /\ KeepsCases
<1>1. pool' = pool
  BY DEF Commit
<1>2. PICK roots \in SUBSET RootCases :
          rows' = [Committed(rows, e, frozen[e]) EXCEPT !.cases = @ \cup roots]
  BY DEF Commit
<1>3. /\ rows' \in Rows
      /\ rows'.cases = rows.cases \cup frozen[e].registrations \cup roots
      /\ rows'.resolver = [c \in Cases |-> IF c \in frozen[e].submissions
                                          THEN e ELSE rows.resolver[c]]
  BY <1>2, CaseExecutionsAssumption
     DEF Committed, CaseInv, TypeOK, Rows, Contribution, Holder
<1>4. /\ stage[e] = "complete"
      /\ stage' = [stage EXCEPT ![e] = "committed"]
      /\ receipt' = [receipt EXCEPT ![e] = rows']
      /\ frozen' = frozen /\ lock' = lock /\ before' = before
      /\ ready' = ready /\ crashes' = crashes
      /\ \A c \in frozen[e].submissions : rows.resolver[c] \in {Nobody, e}
  BY DEF Commit, Moves, MayCommit
<1>5. /\ frozen[e].submissions = {c \in pool.submitted : pool.owner[c] = e}
      /\ frozen[e].submissions \subseteq frozen[e].registrations
      /\ frozen[e].submissions \subseteq Cases
  BY <1>4 DEF CaseInv, FrozenIsHeld, TypeOK, Contribution
<1>6. \A c \in Cases : rows.resolver[c] # Nobody => rows'.resolver[c] = rows.resolver[c]
  BY <1>3, <1>4
<1>TypeOK. TypeOK'
  BY <1>1, <1>3, <1>4 DEF CaseInv, TypeOK, Stages
<1>UnknownIsFree. UnknownIsFree'
  BY <1>1, CasePoolAssumption DEF Commit, Moves, Unlocked, CaseInv, UnknownIsFree, TypeOK, Pool, Holder
<1>SubmittedIsHeld. SubmittedIsHeld'
  BY <1>1, CasePoolAssumption DEF Commit, Moves, Unlocked, CaseInv, SubmittedIsHeld, UnknownIsFree, TypeOK, Pool, Holder
<1>RegisteredKnown. RegisteredKnown'
  BY <1>1, CasePoolAssumption DEF Commit, Moves, Unlocked, CaseInv, RegisteredKnown, TypeOK, Pool
<1>CreatedRegistered. CreatedRegistered'
  BY <1>1, CasePoolAssumption DEF Commit, Moves, Unlocked, CaseInv, CreatedRegistered, TypeOK, Pool
<1>HeldIsRegistered. HeldIsRegistered'
  BY <1>1, CasePoolAssumption DEF Commit, Moves, Unlocked, CaseInv, HeldIsRegistered, StageStanding, TypeOK, Pool, Holder
<1>StageStanding. StageStanding'
  BY <1>1, <1>3, <1>4, <1>5, <1>6, CasePoolAssumption DEF CaseInv, TypeOK, StageStanding, Writing
<1>ResolverCommitted. ResolverCommitted'
  BY <1>3, <1>4, <1>5, CasePoolAssumption DEF CaseInv, TypeOK, ResolverCommitted, Rows, Holder
<1>ResolvedIsHeld. ResolvedIsHeld'
  BY <1>1, <1>3, <1>4, <1>5 DEF CaseInv, TypeOK, ResolvedIsHeld, UnknownIsFree, Pool, CasePoolAssumption
<1>FrozenIsHeld. FrozenIsHeld'
  BY <1>1, <1>3, <1>4, <1>5, <1>6 DEF CaseInv, TypeOK, FrozenIsHeld, SubmittedIsHeld, Pool
<1>ReceiptIsOld. ReceiptIsOld'
  BY <1>3, <1>4, <1>6 DEF CaseInv, TypeOK, ReceiptIsOld
<1>LockHeld. LockHeld'
  BY <1>1, CasePoolAssumption DEF Commit, Moves, Unlocked, CaseInv, LockHeld, StageStanding, TypeOK
<1>NotLoaded. NotLoaded'
  BY <1>1, CasePoolAssumption DEF Commit, Moves, Unlocked, CaseInv, NotLoaded, Writing
<1>NoOrphanClaim. NoOrphanClaim'
  BY <1>1, <1>3, <1>4, <1>6 DEF CaseInv, TypeOK, Pool, NoOrphanClaim
<1>kept. KeepsCases
  BY <1>1, CasePoolAssumption DEF KeepsCases, CaseInv, TypeOK, Pool, Holder
<1> QED
  BY <1>TypeOK, <1>UnknownIsFree, <1>SubmittedIsHeld, <1>RegisteredKnown, <1>CreatedRegistered, <1>HeldIsRegistered, <1>StageStanding, <1>ResolverCommitted, <1>ResolvedIsHeld, <1>FrozenIsHeld, <1>ReceiptIsOld, <1>LockHeld, <1>NotLoaded, <1>NoOrphanClaim, <1>kept DEF CaseInv

LEMMA SaveFailsStep ==
    ASSUME CaseInv, NEW e \in Executions, SaveFails(e)
    PROVE  CaseInv' /\ KeepsCases
<1>1. pool' = pool
  BY DEF SaveFails
<1>TypeOK. TypeOK'
  BY <1>1, CasePoolAssumption DEF SaveFails, Moves, Unlocked, CaseInv, TypeOK, Stages, Holder, Rows, Contribution
<1>UnknownIsFree. UnknownIsFree'
  BY <1>1, CasePoolAssumption DEF SaveFails, Moves, Unlocked, CaseInv, UnknownIsFree, TypeOK, Pool, Holder
<1>SubmittedIsHeld. SubmittedIsHeld'
  BY <1>1, CasePoolAssumption DEF SaveFails, Moves, Unlocked, CaseInv, SubmittedIsHeld, UnknownIsFree, TypeOK, Pool, Holder
<1>RegisteredKnown. RegisteredKnown'
  BY <1>1, CasePoolAssumption DEF SaveFails, Moves, Unlocked, CaseInv, RegisteredKnown, TypeOK, Pool
<1>CreatedRegistered. CreatedRegistered'
  BY <1>1, CasePoolAssumption DEF SaveFails, Moves, Unlocked, CaseInv, CreatedRegistered, TypeOK, Pool
<1>HeldIsRegistered. HeldIsRegistered'
  BY <1>1, CasePoolAssumption DEF SaveFails, Moves, Unlocked, CaseInv, HeldIsRegistered, StageStanding, TypeOK, Pool, Holder
<1>StageStanding. StageStanding'
  BY <1>1, CasePoolAssumption DEF SaveFails, Moves, Unlocked, CaseInv, StageStanding, ResolverCommitted, Writing, TypeOK, Pool, Holder
<1>ResolverCommitted. ResolverCommitted'
  BY <1>1, CasePoolAssumption DEF SaveFails, Moves, Unlocked, CaseInv, ResolverCommitted, TypeOK, Rows, Holder
<1>ResolvedIsHeld. ResolvedIsHeld'
  BY <1>1, CasePoolAssumption DEF SaveFails, Moves, Unlocked, CaseInv, ResolvedIsHeld, ResolverCommitted, TypeOK, Pool, Rows, Holder
<1>FrozenIsHeld. FrozenIsHeld'
  BY <1>1, CasePoolAssumption DEF SaveFails, Moves, Unlocked, CaseInv, FrozenIsHeld, StageStanding, Writing, TypeOK, Pool, Rows, Holder, Contribution
<1>ReceiptIsOld. ReceiptIsOld'
  BY <1>1, CasePoolAssumption DEF SaveFails, Moves, Unlocked, CaseInv, ReceiptIsOld, TypeOK, Rows, EmptyRows
<1>LockHeld. LockHeld'
  BY <1>1, CasePoolAssumption DEF SaveFails, Moves, Unlocked, CaseInv, LockHeld, StageStanding, TypeOK
<1>NotLoaded. NotLoaded'
  BY <1>1, CasePoolAssumption DEF SaveFails, Moves, Unlocked, CaseInv, NotLoaded, Writing
<1>NoOrphanClaim. NoOrphanClaim'
  BY <1>1, CasePoolAssumption DEF SaveFails, Moves, Unlocked, CaseInv, NoOrphanClaim, StageStanding, TypeOK, Pool, Holder
<1>kept. KeepsCases
  BY <1>1, CasePoolAssumption DEF KeepsCases, CaseInv, TypeOK, Pool, Holder
<1> QED
  BY <1>TypeOK, <1>UnknownIsFree, <1>SubmittedIsHeld, <1>RegisteredKnown, <1>CreatedRegistered, <1>HeldIsRegistered, <1>StageStanding, <1>ResolverCommitted, <1>ResolvedIsHeld, <1>FrozenIsHeld, <1>ReceiptIsOld, <1>LockHeld, <1>NotLoaded, <1>NoOrphanClaim, <1>kept DEF CaseInv

\* The confirmation raises before it reaches the pool.
LEMMA ConfirmRaisesEarly ==
    ASSUME CaseInv, NEW e \in Executions, ConfirmRaises(e), pool' = pool
    PROVE  CaseInv' /\ KeepsCases
<1>1. pool' = pool
  OBVIOUS
<1>TypeOK. TypeOK'
  BY <1>1, CasePoolAssumption DEF ConfirmRaises, Moves, Unlocked, CaseInv, TypeOK, Stages, Holder, Rows, Contribution
<1>UnknownIsFree. UnknownIsFree'
  BY <1>1, CasePoolAssumption DEF ConfirmRaises, Moves, Unlocked, CaseInv, UnknownIsFree, TypeOK, Pool, Holder
<1>SubmittedIsHeld. SubmittedIsHeld'
  BY <1>1, CasePoolAssumption DEF ConfirmRaises, Moves, Unlocked, CaseInv, SubmittedIsHeld, UnknownIsFree, TypeOK, Pool, Holder
<1>RegisteredKnown. RegisteredKnown'
  BY <1>1, CasePoolAssumption DEF ConfirmRaises, Moves, Unlocked, CaseInv, RegisteredKnown, TypeOK, Pool
<1>CreatedRegistered. CreatedRegistered'
  BY <1>1, CasePoolAssumption DEF ConfirmRaises, Moves, Unlocked, CaseInv, CreatedRegistered, TypeOK, Pool
<1>HeldIsRegistered. HeldIsRegistered'
  BY <1>1, CasePoolAssumption DEF ConfirmRaises, Moves, Unlocked, CaseInv, HeldIsRegistered, StageStanding, TypeOK, Pool, Holder
<1>StageStanding. StageStanding'
  BY <1>1, CasePoolAssumption DEF ConfirmRaises, Moves, Unlocked, CaseInv, StageStanding, ResolverCommitted, Writing, TypeOK, Pool, Holder
<1>ResolverCommitted. ResolverCommitted'
  BY <1>1, CasePoolAssumption DEF ConfirmRaises, Moves, Unlocked, CaseInv, ResolverCommitted, TypeOK, Rows, Holder
<1>ResolvedIsHeld. ResolvedIsHeld'
  BY <1>1, CasePoolAssumption DEF ConfirmRaises, Moves, Unlocked, CaseInv, ResolvedIsHeld, ResolverCommitted, TypeOK, Pool, Rows, Holder
<1>FrozenIsHeld. FrozenIsHeld'
  BY <1>1, CasePoolAssumption DEF ConfirmRaises, Moves, Unlocked, CaseInv, FrozenIsHeld, StageStanding, Writing, TypeOK, Pool, Rows, Holder, Contribution
<1>ReceiptIsOld. ReceiptIsOld'
  BY <1>1, CasePoolAssumption DEF ConfirmRaises, Moves, Unlocked, CaseInv, ReceiptIsOld, TypeOK, Rows, EmptyRows
<1>LockHeld. LockHeld'
  BY <1>1, CasePoolAssumption DEF ConfirmRaises, Moves, Unlocked, CaseInv, LockHeld, StageStanding, TypeOK
<1>NotLoaded. NotLoaded'
  BY <1>1, CasePoolAssumption DEF ConfirmRaises, Moves, Unlocked, CaseInv, NotLoaded, Writing
<1>NoOrphanClaim. NoOrphanClaim'
  BY <1>1, CasePoolAssumption DEF ConfirmRaises, Moves, Unlocked, CaseInv, NoOrphanClaim, StageStanding, TypeOK, Pool, Holder
<1>kept. KeepsCases
  BY <1>1, CasePoolAssumption DEF KeepsCases, CaseInv, TypeOK, Pool, Holder
<1> QED
  BY <1>TypeOK, <1>UnknownIsFree, <1>SubmittedIsHeld, <1>RegisteredKnown, <1>CreatedRegistered, <1>HeldIsRegistered, <1>StageStanding, <1>ResolverCommitted, <1>ResolvedIsHeld, <1>FrozenIsHeld, <1>ReceiptIsOld, <1>LockHeld, <1>NotLoaded, <1>NoOrphanClaim, <1>kept DEF CaseInv

LEMMA ConsolidationBeginsStep ==
    ASSUME CaseInv, NEW e \in Executions, ConsolidationBegins(e)
    PROVE  CaseInv' /\ KeepsCases
<1>1. /\ pool' \in Pool
      /\ pool'.known = pool.known
      /\ pool'.owner = pool.owner
      /\ pool'.submitted = pool.submitted
      /\ pool'.registrations = pool.registrations
      /\ pool'.created = pool.created
      /\ pool'.executions = pool.executions \cup {e}
      /\ pool'.saved = pool.saved
  BY BegunFields DEF ConsolidationBegins, CaseInv, TypeOK
<1>TypeOK. TypeOK'
  BY <1>1, CasePoolAssumption DEF ConsolidationBegins, Moves, Unlocked, CaseInv, TypeOK, Stages, Holder, Rows, Contribution
<1>UnknownIsFree. UnknownIsFree'
  BY <1>1, CasePoolAssumption DEF ConsolidationBegins, Moves, Unlocked, CaseInv, UnknownIsFree, TypeOK, Pool, Holder
<1>SubmittedIsHeld. SubmittedIsHeld'
  BY <1>1, CasePoolAssumption DEF ConsolidationBegins, Moves, Unlocked, CaseInv, SubmittedIsHeld, UnknownIsFree, TypeOK, Pool, Holder
<1>RegisteredKnown. RegisteredKnown'
  BY <1>1, CasePoolAssumption DEF ConsolidationBegins, Moves, Unlocked, CaseInv, RegisteredKnown, TypeOK, Pool
<1>CreatedRegistered. CreatedRegistered'
  BY <1>1, CasePoolAssumption DEF ConsolidationBegins, Moves, Unlocked, CaseInv, CreatedRegistered, TypeOK, Pool
<1>HeldIsRegistered. HeldIsRegistered'
  BY <1>1, CasePoolAssumption DEF ConsolidationBegins, Moves, Unlocked, CaseInv, HeldIsRegistered, StageStanding, TypeOK, Pool, Holder
<1>StageStanding. StageStanding'
  BY <1>1, CasePoolAssumption DEF ConsolidationBegins, Moves, Unlocked, CaseInv, StageStanding, ResolverCommitted, Writing, TypeOK, Pool, Holder
<1>ResolverCommitted. ResolverCommitted'
  BY <1>1, CasePoolAssumption DEF ConsolidationBegins, Moves, Unlocked, CaseInv, ResolverCommitted, TypeOK, Rows, Holder
<1>ResolvedIsHeld. ResolvedIsHeld'
  BY <1>1, CasePoolAssumption DEF ConsolidationBegins, Moves, Unlocked, CaseInv, ResolvedIsHeld, ResolverCommitted, TypeOK, Pool, Rows, Holder
<1>FrozenIsHeld. FrozenIsHeld'
  BY <1>1, CasePoolAssumption DEF ConsolidationBegins, Moves, Unlocked, CaseInv, FrozenIsHeld, StageStanding, Writing, TypeOK, Pool, Rows, Holder, Contribution
<1>ReceiptIsOld. ReceiptIsOld'
  BY <1>1, CasePoolAssumption DEF ConsolidationBegins, Moves, Unlocked, CaseInv, ReceiptIsOld, TypeOK, Rows, EmptyRows
<1>LockHeld. LockHeld'
  BY <1>1, CasePoolAssumption DEF ConsolidationBegins, Moves, Unlocked, CaseInv, LockHeld, StageStanding, TypeOK
<1>NotLoaded. NotLoaded'
  BY <1>1, CasePoolAssumption DEF ConsolidationBegins, Moves, Unlocked, CaseInv, NotLoaded, Writing
<1>NoOrphanClaim. NoOrphanClaim'
  BY <1>1, CasePoolAssumption DEF ConsolidationBegins, Moves, Unlocked, CaseInv, NoOrphanClaim, StageStanding, TypeOK, Pool, Holder
<1>kept. KeepsCases
  BY <1>1, CasePoolAssumption DEF KeepsCases, CaseInv, TypeOK, Pool, Holder
<1> QED
  BY <1>TypeOK, <1>UnknownIsFree, <1>SubmittedIsHeld, <1>RegisteredKnown, <1>CreatedRegistered, <1>HeldIsRegistered, <1>StageStanding, <1>ResolverCommitted, <1>ResolvedIsHeld, <1>FrozenIsHeld, <1>ReceiptIsOld, <1>LockHeld, <1>NotLoaded, <1>NoOrphanClaim, <1>kept DEF CaseInv

LEMMA RegisterIssueStep ==
    ASSUME CaseInv, NEW e \in Executions, NEW c \in Cases, RegisterIssue(e, c)
    PROVE  CaseInv' /\ KeepsCases
<1>1. /\ pool' \in Pool
      /\ pool'.known = pool.known \cup {c}
      /\ pool'.owner = pool.owner
      /\ pool'.submitted = pool.submitted
      /\ pool'.registrations = [pool.registrations EXCEPT ![e] = @ \cup {c}]
      /\ pool'.created = [pool.created EXCEPT
                            ![e] = IF c \in pool.known THEN @ ELSE @ \cup {c}]
      /\ pool'.executions = pool.executions
      /\ pool'.saved = pool.saved
  BY PushedFields DEF RegisterIssue, CaseInv, TypeOK
<1>2. stage[e] = "consolidating"
  BY CasePoolAssumption DEF RegisterIssue, CaseInv, LockHeld
<1>TypeOK. TypeOK'
  BY <1>1, CasePoolAssumption DEF RegisterIssue, Moves, Unlocked, CaseInv, TypeOK, Stages, Holder, Rows, Contribution
<1>UnknownIsFree. UnknownIsFree'
  BY <1>1, CasePoolAssumption DEF RegisterIssue, Moves, Unlocked, CaseInv, UnknownIsFree, TypeOK, Pool, Holder
<1>SubmittedIsHeld. SubmittedIsHeld'
  BY <1>1, CasePoolAssumption DEF RegisterIssue, Moves, Unlocked, CaseInv, SubmittedIsHeld, UnknownIsFree, TypeOK, Pool, Holder
<1>RegisteredKnown. RegisteredKnown'
  BY <1>1, CasePoolAssumption DEF RegisterIssue, Moves, Unlocked, CaseInv, RegisteredKnown, TypeOK, Pool
<1>CreatedRegistered. CreatedRegistered'
  BY <1>1, CasePoolAssumption DEF RegisterIssue, Moves, Unlocked, CaseInv, CreatedRegistered, TypeOK, Pool
<1>HeldIsRegistered. HeldIsRegistered'
  BY <1>1, CasePoolAssumption DEF RegisterIssue, Moves, Unlocked, CaseInv, HeldIsRegistered, StageStanding, TypeOK, Pool, Holder
<1>StageStanding. StageStanding'
  BY <1>1, <1>2, CasePoolAssumption DEF RegisterIssue, CaseInv, StageStanding, TypeOK, Pool, Holder, Writing
<1>ResolverCommitted. ResolverCommitted'
  BY <1>1, CasePoolAssumption DEF RegisterIssue, Moves, Unlocked, CaseInv, ResolverCommitted, TypeOK, Rows, Holder
<1>ResolvedIsHeld. ResolvedIsHeld'
  BY <1>1, CasePoolAssumption DEF RegisterIssue, Moves, Unlocked, CaseInv, ResolvedIsHeld, ResolverCommitted, TypeOK, Pool, Rows, Holder
<1>FrozenIsHeld. FrozenIsHeld'
  BY <1>1, CasePoolAssumption DEF RegisterIssue, Moves, Unlocked, CaseInv, FrozenIsHeld, StageStanding, Writing, TypeOK, Pool, Rows, Holder, Contribution
<1>ReceiptIsOld. ReceiptIsOld'
  BY <1>1, CasePoolAssumption DEF RegisterIssue, Moves, Unlocked, CaseInv, ReceiptIsOld, TypeOK, Rows, EmptyRows
<1>LockHeld. LockHeld'
  BY <1>1, CasePoolAssumption DEF RegisterIssue, Moves, Unlocked, CaseInv, LockHeld, StageStanding, TypeOK
<1>NotLoaded. NotLoaded'
  BY <1>1, CasePoolAssumption DEF RegisterIssue, Moves, Unlocked, CaseInv, NotLoaded, Writing
<1>NoOrphanClaim. NoOrphanClaim'
  BY <1>1, <1>2, CasePoolAssumption DEF RegisterIssue, CaseInv, NoOrphanClaim, StageStanding, UnknownIsFree, TypeOK, Pool, Holder
<1>kept. KeepsCases
  BY <1>1, CasePoolAssumption DEF KeepsCases, CaseInv, TypeOK, Pool, Holder
<1> QED
  BY <1>TypeOK, <1>UnknownIsFree, <1>SubmittedIsHeld, <1>RegisteredKnown, <1>CreatedRegistered, <1>HeldIsRegistered, <1>StageStanding, <1>ResolverCommitted, <1>ResolvedIsHeld, <1>FrozenIsHeld, <1>ReceiptIsOld, <1>LockHeld, <1>NotLoaded, <1>NoOrphanClaim, <1>kept DEF CaseInv

LEMMA WithdrawStep ==
    ASSUME CaseInv, NEW e \in Executions, Withdraw(e)
    PROVE  CaseInv' /\ KeepsCases
<1> DEFINE gone == CreatedAlone(pool, e)
<1>0. /\ stage[e] \in {"open", "complete", "refused"}
      /\ stage' = [stage EXCEPT ![e] = "over"]
      /\ frozen' = [frozen EXCEPT ![e] = NoContribution]
      /\ pool' = RolledBack(pool, e)
      /\ rows' = rows /\ receipt' = receipt /\ lock' = lock
      /\ before' = before /\ ready' = ready /\ crashes' = crashes
      /\ ready /\ lock = Nobody
      /\ e \notin pool.saved
  BY DEF Withdraw, Moves, Unlocked, CaseInv, StageStanding, Writing
<1>1. /\ gone \subseteq pool.known
      /\ pool' \in Pool
      /\ pool'.known = pool.known \ gone
      /\ pool'.owner = [c \in Cases |-> IF c \in gone \/ pool.owner[c] = e
                                      THEN Nobody ELSE pool.owner[c]]
      /\ pool'.submitted = {c \in pool.submitted \ gone : pool.owner[c] # e}
      /\ pool'.registrations = [pool.registrations EXCEPT ![e] = {}]
      /\ pool'.created = [pool.created EXCEPT ![e] = {}]
      /\ pool'.executions = pool.executions \ {e}
      /\ pool'.saved = pool.saved
  BY <1>0, RolledBackFields, ZenonT(60) DEF CaseInv, TypeOK
<1>2. /\ \A f \in Executions \ {e} : pool.registrations[f] \cap gone = {}
      /\ \A c \in gone : pool.owner[c] \in {Nobody, e}
  BY DEF CreatedAlone, RegisteredByOthers
<1>3. \A c \in Cases : rows.resolver[c] # e
  BY <1>0, CasePoolAssumption DEF CaseInv, ResolverCommitted
<1> HIDE DEF gone
<1>TypeOK. TypeOK'
  BY <1>0, <1>1 DEF CaseInv, TypeOK, Stages, Contribution, NoContribution
<1>UnknownIsFree. UnknownIsFree'
  BY <1>1 DEF CaseInv, TypeOK, Pool, UnknownIsFree
<1>SubmittedIsHeld. SubmittedIsHeld'
  BY <1>1 DEF CaseInv, TypeOK, Pool, SubmittedIsHeld
<1>RegisteredKnown. RegisteredKnown'
  BY <1>1, <1>2 DEF CaseInv, TypeOK, Pool, RegisteredKnown
<1>CreatedRegistered. CreatedRegistered'
  BY <1>1 DEF CaseInv, TypeOK, Pool, CreatedRegistered
<1>HeldIsRegistered. HeldIsRegistered'
  BY <1>1, CasePoolAssumption DEF CaseInv, TypeOK, Pool, HeldIsRegistered
<1>StageStanding. StageStanding'
  BY <1>0, <1>1, <1>3, CasePoolAssumption DEF CaseInv, TypeOK, Pool, StageStanding, Writing
<1>ResolverCommitted. ResolverCommitted'
  BY <1>0, <1>3 DEF CaseInv, TypeOK, Rows, Holder, ResolverCommitted
<1>ResolvedIsHeld. ResolvedIsHeld'
  BY <1>0, <1>1, <1>2, <1>3 DEF CaseInv, TypeOK, Pool, ResolvedIsHeld
<1>FrozenIsHeld. FrozenIsHeld'
  BY <1>0, <1>1, <1>2, CasePoolAssumption DEF CaseInv, TypeOK, Pool, FrozenIsHeld
<1>ReceiptIsOld. ReceiptIsOld'
  BY <1>0 DEF CaseInv, ReceiptIsOld
<1>LockHeld. LockHeld'
  BY <1>0 DEF CaseInv, TypeOK, LockHeld
<1>NotLoaded. NotLoaded'
  BY <1>0 DEF NotLoaded
<1>NoOrphanClaim. NoOrphanClaim'
  BY <1>0, <1>1, <1>3 DEF CaseInv, TypeOK, Pool, NoOrphanClaim
<1>kept. KeepsCases
  BY <1>1, <1>2, CasePoolAssumption DEF KeepsCases, CaseInv, TypeOK, Pool, Holder
<1> QED
  BY <1>TypeOK, <1>UnknownIsFree, <1>SubmittedIsHeld, <1>RegisteredKnown, <1>CreatedRegistered, <1>HeldIsRegistered, <1>StageStanding, <1>ResolverCommitted, <1>ResolvedIsHeld, <1>FrozenIsHeld, <1>ReceiptIsOld, <1>LockHeld, <1>NotLoaded, <1>NoOrphanClaim, <1>kept DEF CaseInv

\* What the confirmation leaves in memory, the rows of its receipt merged first.
LEMMA ConfirmedMerged ==
    ASSUME CaseInv, ready, NEW e \in Executions
    PROVE  LET q == Confirmed(Merged(pool, receipt[e]), e) IN
      /\ q \in Pool
      /\ q.known = pool.known \cup receipt[e].cases
      /\ q.owner = [c \in Cases |->
                      IF pool.owner[c] = e /\ c \notin pool.submitted
                      THEN Nobody ELSE pool.owner[c]]
      /\ q.submitted = pool.submitted
      /\ q.registrations = pool.registrations
      /\ q.created = pool.created
      /\ q.executions = pool.executions \ {e}
      /\ q.saved = pool.saved \cup {e}
<1>a. /\ receipt[e] \in Rows
      /\ receipt[e].cases \subseteq rows.cases
      /\ \A c \in Resolved(receipt[e]) :
            /\ c \in Cases
            /\ receipt[e].resolver[c] = rows.resolver[c]
            /\ c \in pool.submitted /\ c \in pool.known
            /\ pool.owner[c] = receipt[e].resolver[c]
  BY DEF CaseInv, TypeOK, ReceiptIsOld, ResolvedIsHeld, Resolved, Rows
<1>b. LET p == Merged(pool, receipt[e]) IN
      /\ p \in Pool
      /\ p.known = pool.known \cup receipt[e].cases
      /\ p.owner = pool.owner
      /\ p.submitted = pool.submitted
      /\ p.registrations = pool.registrations
      /\ p.created = pool.created
      /\ p.executions = pool.executions
      /\ p.saved = pool.saved
  <2> DEFINE p == Merged(pool, receipt[e])
  <2>1. /\ p \in Pool
        /\ p.known = pool.known \cup receipt[e].cases
        /\ p.owner = [c \in Cases |-> IF c \in Resolved(receipt[e])
                         THEN receipt[e].resolver[c] ELSE pool.owner[c]]
        /\ p.submitted = pool.submitted \cup Resolved(receipt[e])
        /\ p.registrations = pool.registrations
        /\ p.created = pool.created
        /\ p.executions = pool.executions
        /\ p.saved = pool.saved
    BY <1>a, MergedFields DEF CaseInv, TypeOK
  <2> HIDE DEF p
  <2>2. p.owner = pool.owner
    BY <1>a, <2>1 DEF CaseInv, TypeOK, Pool
  <2>3. p.submitted = pool.submitted
    BY <1>a, <2>1
  <2>4. QED
    BY <2>1, <2>2, <2>3 DEF p
<1> DEFINE p == Merged(pool, receipt[e])
<1>2. /\ p \in Pool
      /\ p.known = pool.known \cup receipt[e].cases
      /\ p.owner = pool.owner
      /\ p.submitted = pool.submitted
      /\ p.registrations = pool.registrations
      /\ p.created = pool.created
      /\ p.executions = pool.executions
      /\ p.saved = pool.saved
  BY <1>b
<1> HIDE DEF p
<1>3. /\ Confirmed(p, e) \in Pool
      /\ Confirmed(p, e).known = p.known
      /\ Confirmed(p, e).owner =
            [c \in Cases |-> IF p.owner[c] = e /\ c \notin p.submitted
                             THEN Nobody ELSE p.owner[c]]
      /\ Confirmed(p, e).submitted = p.submitted
      /\ Confirmed(p, e).registrations = p.registrations
      /\ Confirmed(p, e).created = p.created
      /\ Confirmed(p, e).executions = p.executions \ {e}
      /\ Confirmed(p, e).saved = p.saved \cup {e}
  BY <1>2, ConfirmedFields
<1>4. QED
  BY <1>2, <1>3 DEF p

LEMMA ConfirmStep ==
    ASSUME CaseInv, NEW e \in Executions, Confirm(e)
    PROVE  CaseInv' /\ KeepsCases
<1>0. /\ stage[e] = "committed"
      /\ stage' = [stage EXCEPT ![e] = "confirmed"]
      /\ frozen' = [frozen EXCEPT ![e] = NoContribution]
      /\ receipt' = [receipt EXCEPT ![e] = EmptyRows]
      /\ pool' = Confirmed(Merged(pool, receipt[e]), e)
      /\ rows' = rows /\ lock' = lock
      /\ before' = before /\ ready' = ready /\ crashes' = crashes
      /\ ready /\ lock = Nobody
  BY DEF Confirm, Moves, Unlocked
<1>1. /\ pool' \in Pool
      /\ pool'.known = pool.known \cup receipt[e].cases
      /\ pool'.owner = [c \in Cases |->
                      IF pool.owner[c] = e /\ c \notin pool.submitted
                      THEN Nobody ELSE pool.owner[c]]
      /\ pool'.submitted = pool.submitted
      /\ pool'.registrations = pool.registrations
      /\ pool'.created = pool.created
      /\ pool'.executions = pool.executions \ {e}
      /\ pool'.saved = pool.saved \cup {e}
  BY <1>0, ConfirmedMerged
<1>TypeOK. TypeOK'
  BY <1>0, <1>1 DEF CaseInv, TypeOK, Stages, Contribution, NoContribution, Rows, EmptyRows, Holder
<1>UnknownIsFree. UnknownIsFree'
  BY <1>1 DEF CaseInv, TypeOK, Pool, UnknownIsFree
<1>SubmittedIsHeld. SubmittedIsHeld'
  BY <1>1 DEF CaseInv, TypeOK, Pool, SubmittedIsHeld
<1>RegisteredKnown. RegisteredKnown'
  BY <1>1 DEF CaseInv, TypeOK, Pool, RegisteredKnown
<1>CreatedRegistered. CreatedRegistered'
  BY <1>1 DEF CaseInv, TypeOK, Pool, CreatedRegistered
<1>HeldIsRegistered. HeldIsRegistered'
  BY <1>1, CasePoolAssumption DEF CaseInv, TypeOK, Pool, HeldIsRegistered
<1>StageStanding. StageStanding'
  BY <1>0, <1>1, CasePoolAssumption DEF CaseInv, TypeOK, Pool, StageStanding, Writing
<1>ResolverCommitted. ResolverCommitted'
  BY <1>0 DEF CaseInv, TypeOK, Rows, Holder, ResolverCommitted
<1>ResolvedIsHeld. ResolvedIsHeld'
  BY <1>0, <1>1, CasePoolAssumption DEF CaseInv, TypeOK, Pool, ResolvedIsHeld
<1>FrozenIsHeld. FrozenIsHeld'
  BY <1>0, <1>1, CasePoolAssumption DEF CaseInv, TypeOK, Pool, FrozenIsHeld
<1>ReceiptIsOld. ReceiptIsOld'
  BY <1>0 DEF CaseInv, TypeOK, ReceiptIsOld, EmptyRows, Rows
<1>LockHeld. LockHeld'
  BY <1>0 DEF CaseInv, TypeOK, LockHeld
<1>NotLoaded. NotLoaded'
  BY <1>0 DEF NotLoaded
<1>NoOrphanClaim. NoOrphanClaim'
  BY <1>0, <1>1, CasePoolAssumption DEF CaseInv, TypeOK, Pool, NoOrphanClaim, FrozenIsHeld, UnknownIsFree
<1>kept. KeepsCases
  BY <1>1, CasePoolAssumption DEF KeepsCases, CaseInv, TypeOK, Pool, Holder
<1> QED
  BY <1>TypeOK, <1>UnknownIsFree, <1>SubmittedIsHeld, <1>RegisteredKnown, <1>CreatedRegistered, <1>HeldIsRegistered, <1>StageStanding, <1>ResolverCommitted, <1>ResolvedIsHeld, <1>FrozenIsHeld, <1>ReceiptIsOld, <1>LockHeld, <1>NotLoaded, <1>NoOrphanClaim, <1>kept DEF CaseInv

\* The delivery after the confirmation raises.
LEMMA ConfirmRaisesLate ==
    ASSUME CaseInv, NEW e \in Executions, ConfirmRaises(e),
           pool' = Confirmed(Merged(pool, receipt[e]), e)
    PROVE  CaseInv' /\ KeepsCases
<1>0. /\ stage[e] = "committed"
      /\ stage' = [stage EXCEPT ![e] = "unconfirmed"]
      /\ frozen' = frozen /\ receipt' = receipt
      /\ pool' = Confirmed(Merged(pool, receipt[e]), e)
      /\ rows' = rows /\ lock' = lock
      /\ before' = before /\ ready' = ready /\ crashes' = crashes
      /\ ready /\ lock = Nobody
  BY DEF ConfirmRaises, Moves, Unlocked
<1>1. /\ pool' \in Pool
      /\ pool'.known = pool.known \cup receipt[e].cases
      /\ pool'.owner = [c \in Cases |->
                      IF pool.owner[c] = e /\ c \notin pool.submitted
                      THEN Nobody ELSE pool.owner[c]]
      /\ pool'.submitted = pool.submitted
      /\ pool'.registrations = pool.registrations
      /\ pool'.created = pool.created
      /\ pool'.executions = pool.executions \ {e}
      /\ pool'.saved = pool.saved \cup {e}
  BY <1>0, ConfirmedMerged
<1>TypeOK. TypeOK'
  BY <1>0, <1>1 DEF CaseInv, TypeOK, Stages, Contribution, NoContribution, Rows, EmptyRows, Holder
<1>UnknownIsFree. UnknownIsFree'
  BY <1>1 DEF CaseInv, TypeOK, Pool, UnknownIsFree
<1>SubmittedIsHeld. SubmittedIsHeld'
  BY <1>1 DEF CaseInv, TypeOK, Pool, SubmittedIsHeld
<1>RegisteredKnown. RegisteredKnown'
  BY <1>1 DEF CaseInv, TypeOK, Pool, RegisteredKnown
<1>CreatedRegistered. CreatedRegistered'
  BY <1>1 DEF CaseInv, TypeOK, Pool, CreatedRegistered
<1>HeldIsRegistered. HeldIsRegistered'
  BY <1>1, CasePoolAssumption DEF CaseInv, TypeOK, Pool, HeldIsRegistered
<1>StageStanding. StageStanding'
  BY <1>0, <1>1, CasePoolAssumption DEF CaseInv, TypeOK, Pool, StageStanding, Writing
<1>ResolverCommitted. ResolverCommitted'
  BY <1>0 DEF CaseInv, TypeOK, Rows, Holder, ResolverCommitted
<1>ResolvedIsHeld. ResolvedIsHeld'
  BY <1>0, <1>1, CasePoolAssumption DEF CaseInv, TypeOK, Pool, ResolvedIsHeld
<1>FrozenIsHeld. FrozenIsHeld'
  BY <1>0, <1>1, CasePoolAssumption DEF CaseInv, TypeOK, Pool, FrozenIsHeld
<1>ReceiptIsOld. ReceiptIsOld'
  BY <1>0 DEF CaseInv, TypeOK, ReceiptIsOld, EmptyRows, Rows
<1>LockHeld. LockHeld'
  BY <1>0 DEF CaseInv, TypeOK, LockHeld
<1>NotLoaded. NotLoaded'
  BY <1>0 DEF NotLoaded
<1>NoOrphanClaim. NoOrphanClaim'
  BY <1>0, <1>1, CasePoolAssumption DEF CaseInv, TypeOK, Pool, NoOrphanClaim, FrozenIsHeld, UnknownIsFree
<1>kept. KeepsCases
  BY <1>1, CasePoolAssumption DEF KeepsCases, CaseInv, TypeOK, Pool, Holder
<1> QED
  BY <1>TypeOK, <1>UnknownIsFree, <1>SubmittedIsHeld, <1>RegisteredKnown, <1>CreatedRegistered, <1>HeldIsRegistered, <1>StageStanding, <1>ResolverCommitted, <1>ResolvedIsHeld, <1>FrozenIsHeld, <1>ReceiptIsOld, <1>LockHeld, <1>NotLoaded, <1>NoOrphanClaim, <1>kept DEF CaseInv

LEMMA ConfirmRaisesStep ==
    ASSUME CaseInv, NEW e \in Executions, ConfirmRaises(e)
    PROVE  CaseInv' /\ KeepsCases
<1>1. CASE pool' = pool
  BY <1>1, ConfirmRaisesEarly
<1>2. CASE pool' = Confirmed(Merged(pool, receipt[e]), e)
  BY <1>2, ConfirmRaisesLate
<1>3. QED
  BY <1>1, <1>2 DEF ConfirmRaises

LEMMA RecoverWorkStep ==
    ASSUME CaseInv, NEW e \in Executions, RecoverWork(e)
    PROVE  CaseInv' /\ KeepsCases
<1>a. PICK produced \in SUBSET (rows.cases \cap
                               (frozen[e].registrations \cup RootCases)) :
          pool' = Recovered(pool, e, SavedWork(e, produced))
  BY DEF RecoverWork
<1>0. /\ stage[e] = "unconfirmed"
      /\ stage' = [stage EXCEPT ![e] = "committed"]
      /\ frozen' = frozen /\ receipt' = receipt
      /\ rows' = rows /\ lock' = lock
      /\ before' = before /\ ready' = ready /\ crashes' = crashes
      /\ ready /\ lock = Nobody
  BY DEF RecoverWork, Moves, Unlocked
<1> DEFINE mine == SavedWork(e, produced)
<1>b. /\ mine \in Contribution
      /\ \A c \in mine.submissions :
            pool.owner[c] = e /\ c \in pool.submitted
  BY <1>0, CasePoolAssumption DEF SavedWork, Contribution, CaseInv, TypeOK, Rows, ResolvedIsHeld
<1>c. pool' = Recovered(pool, e, mine)
  BY <1>a
<1> HIDE DEF mine
<1>d. /\ pool' \in Pool
      /\ pool'.known = pool.known \cup mine.registrations
      /\ pool'.owner =
            [c \in Cases |->
               IF c \in mine.submissions THEN e
               ELSE IF pool.owner[c] = e /\ c \notin pool.submitted
               THEN Nobody ELSE pool.owner[c]]
      /\ pool'.submitted = pool.submitted \cup mine.submissions
      /\ pool'.registrations =
            [pool.registrations EXCEPT ![e] = @ \cup mine.registrations]
      /\ pool'.created = pool.created
      /\ pool'.executions = pool.executions \ {e}
      /\ pool'.saved = pool.saved \cup {e}
  BY <1>b, <1>c, RecoveredFields DEF CaseInv, TypeOK
<1>e. pool'.submitted = pool.submitted
  BY <1>b, <1>d
<1>f. pool'.owner = [c \in Cases |->
                      IF pool.owner[c] = e /\ c \notin pool.submitted
                      THEN Nobody ELSE pool.owner[c]]
  BY <1>b, <1>d DEF CaseInv, TypeOK, Pool
<1>1. /\ pool' \in Pool
      /\ pool.known \subseteq pool'.known
      /\ \A f \in Executions \ {e} : pool'.registrations[f] = pool.registrations[f]
      /\ pool'.registrations[e] = pool.registrations[e] \cup mine.registrations
      /\ mine.registrations \subseteq pool'.known
      /\ pool'.created = pool.created
      /\ pool'.executions = pool.executions \ {e}
      /\ pool'.saved = pool.saved \cup {e}
  BY <1>d DEF CaseInv, TypeOK, Pool
<1>TypeOK. TypeOK'
  BY <1>0, <1>1 DEF CaseInv, TypeOK, Stages
<1>UnknownIsFree. UnknownIsFree'
  BY <1>1, <1>e, <1>f DEF CaseInv, TypeOK, Pool, UnknownIsFree
<1>SubmittedIsHeld. SubmittedIsHeld'
  BY <1>e, <1>f DEF CaseInv, TypeOK, Pool, SubmittedIsHeld
<1>RegisteredKnown. RegisteredKnown'
  BY <1>1 DEF CaseInv, TypeOK, Pool, RegisteredKnown
<1>CreatedRegistered. CreatedRegistered'
  BY <1>1 DEF CaseInv, TypeOK, Pool, CreatedRegistered
<1>HeldIsRegistered. HeldIsRegistered'
  BY <1>1, <1>f, CasePoolAssumption DEF CaseInv, TypeOK, Pool, HeldIsRegistered
<1>StageStanding. StageStanding'
  BY <1>0, <1>1, <1>f, CasePoolAssumption DEF CaseInv, TypeOK, Pool, StageStanding, Writing
<1>ResolverCommitted. ResolverCommitted'
  BY <1>0 DEF CaseInv, TypeOK, Rows, Holder, ResolverCommitted
<1>ResolvedIsHeld. ResolvedIsHeld'
  BY <1>0, <1>1, <1>e, <1>f, CasePoolAssumption DEF CaseInv, TypeOK, Pool, ResolvedIsHeld
<1>FrozenIsHeld. FrozenIsHeld'
  BY <1>0, <1>e, <1>f, CasePoolAssumption DEF CaseInv, TypeOK, Pool, FrozenIsHeld
<1>ReceiptIsOld. ReceiptIsOld'
  BY <1>0 DEF CaseInv, ReceiptIsOld
<1>LockHeld. LockHeld'
  BY <1>0 DEF CaseInv, TypeOK, LockHeld
<1>NotLoaded. NotLoaded'
  BY <1>0 DEF NotLoaded
<1>NoOrphanClaim. NoOrphanClaim'
  BY <1>0, <1>1, <1>e, <1>f, CasePoolAssumption DEF CaseInv, TypeOK, Pool, NoOrphanClaim, FrozenIsHeld, UnknownIsFree
<1>kept. KeepsCases
  BY <1>1, <1>f, CasePoolAssumption DEF KeepsCases, CaseInv, TypeOK, Pool, Holder
<1> QED
  BY <1>TypeOK, <1>UnknownIsFree, <1>SubmittedIsHeld, <1>RegisteredKnown, <1>CreatedRegistered, <1>HeldIsRegistered, <1>StageStanding, <1>ResolverCommitted, <1>ResolvedIsHeld, <1>FrozenIsHeld, <1>ReceiptIsOld, <1>LockHeld, <1>NotLoaded, <1>NoOrphanClaim, <1>kept DEF CaseInv

LEMMA SameStep ==
    ASSUME CaseInv, UNCHANGED vars
    PROVE  CaseInv' /\ KeepsCases
<1>1. /\ pool' = pool /\ rows' = rows /\ stage' = stage /\ frozen' = frozen
      /\ receipt' = receipt /\ lock' = lock /\ before' = before
      /\ ready' = ready /\ crashes' = crashes
  BY DEF vars
<1>TypeOK. TypeOK'
  BY <1>1, CasePoolAssumption DEF CaseInv, TypeOK, Stages, Holder, Rows, Contribution
<1>UnknownIsFree. UnknownIsFree'
  BY <1>1, CasePoolAssumption DEF CaseInv, UnknownIsFree, TypeOK, Pool, Holder
<1>SubmittedIsHeld. SubmittedIsHeld'
  BY <1>1, CasePoolAssumption DEF CaseInv, SubmittedIsHeld, UnknownIsFree, TypeOK, Pool, Holder
<1>RegisteredKnown. RegisteredKnown'
  BY <1>1, CasePoolAssumption DEF CaseInv, RegisteredKnown, TypeOK, Pool
<1>CreatedRegistered. CreatedRegistered'
  BY <1>1, CasePoolAssumption DEF CaseInv, CreatedRegistered, TypeOK, Pool
<1>HeldIsRegistered. HeldIsRegistered'
  BY <1>1, CasePoolAssumption DEF CaseInv, HeldIsRegistered, StageStanding, TypeOK, Pool, Holder
<1>StageStanding. StageStanding'
  BY <1>1, CasePoolAssumption DEF CaseInv, StageStanding, ResolverCommitted, Writing, TypeOK, Pool, Holder
<1>ResolverCommitted. ResolverCommitted'
  BY <1>1, CasePoolAssumption DEF CaseInv, ResolverCommitted, TypeOK, Rows, Holder
<1>ResolvedIsHeld. ResolvedIsHeld'
  BY <1>1, CasePoolAssumption DEF CaseInv, ResolvedIsHeld, ResolverCommitted, TypeOK, Pool, Rows, Holder
<1>FrozenIsHeld. FrozenIsHeld'
  BY <1>1, CasePoolAssumption DEF CaseInv, FrozenIsHeld, StageStanding, Writing, TypeOK, Pool, Rows, Holder, Contribution
<1>ReceiptIsOld. ReceiptIsOld'
  BY <1>1, CasePoolAssumption DEF CaseInv, ReceiptIsOld, TypeOK, Rows, EmptyRows
<1>LockHeld. LockHeld'
  BY <1>1, CasePoolAssumption DEF CaseInv, LockHeld, StageStanding, TypeOK
<1>NotLoaded. NotLoaded'
  BY <1>1, CasePoolAssumption DEF CaseInv, NotLoaded, Writing
<1>NoOrphanClaim. NoOrphanClaim'
  BY <1>1, CasePoolAssumption DEF CaseInv, NoOrphanClaim, StageStanding, TypeOK, Pool, Holder
<1>kept. KeepsCases
  BY <1>1, CasePoolAssumption DEF KeepsCases, CaseInv, TypeOK, Pool, Holder
<1> QED
  BY <1>TypeOK, <1>UnknownIsFree, <1>SubmittedIsHeld, <1>RegisteredKnown, <1>CreatedRegistered, <1>HeldIsRegistered, <1>StageStanding, <1>ResolverCommitted, <1>ResolvedIsHeld, <1>FrozenIsHeld, <1>ReceiptIsOld, <1>LockHeld, <1>NotLoaded, <1>NoOrphanClaim, <1>kept DEF CaseInv

LEMMA AfterPush ==
    ASSUME CaseInv, NEW e \in Executions, NEW c \in Cases, stage[e] = "open", ready, lock = Nobody, e \in pool.executions,
           pool' = Pushed(pool, e, c),
           UNCHANGED <<rows, stage, frozen, receipt, lock, before, ready, crashes>>
    PROVE  CaseInv' /\ KeepsCases
<1>1. /\ pool' \in Pool
      /\ pool'.known = pool.known \cup {c}
      /\ pool'.owner = pool.owner
      /\ pool'.submitted = pool.submitted
      /\ pool'.registrations = [pool.registrations EXCEPT ![e] = @ \cup {c}]
      /\ pool'.created = [pool.created EXCEPT ![e] = IF c \in pool.known THEN @ ELSE @ \cup {c}]
      /\ pool'.executions = pool.executions
      /\ pool'.saved = pool.saved
  BY PushedFields DEF CaseInv, TypeOK
<1>TypeOK. TypeOK'
  BY <1>1, CasePoolAssumption DEF CaseInv, TypeOK, Stages, Holder, Rows, Contribution
<1>UnknownIsFree. UnknownIsFree'
  BY <1>1, CasePoolAssumption DEF CaseInv, UnknownIsFree, TypeOK, Pool, Holder
<1>SubmittedIsHeld. SubmittedIsHeld'
  BY <1>1, CasePoolAssumption DEF CaseInv, SubmittedIsHeld, UnknownIsFree, TypeOK, Pool, Holder
<1>RegisteredKnown. RegisteredKnown'
  BY <1>1, CasePoolAssumption DEF CaseInv, RegisteredKnown, TypeOK, Pool
<1>CreatedRegistered. CreatedRegistered'
  BY <1>1, CasePoolAssumption DEF CaseInv, CreatedRegistered, TypeOK, Pool
<1>HeldIsRegistered. HeldIsRegistered'
  BY <1>1, CasePoolAssumption DEF CaseInv, HeldIsRegistered, StageStanding, TypeOK, Pool, Holder
<1>StageStanding. StageStanding'
  BY <1>1, CasePoolAssumption DEF CaseInv, StageStanding, ResolverCommitted, Writing, TypeOK, Pool, Holder
<1>ResolverCommitted. ResolverCommitted'
  BY <1>1, CasePoolAssumption DEF CaseInv, ResolverCommitted, TypeOK, Rows, Holder
<1>ResolvedIsHeld. ResolvedIsHeld'
  BY <1>1, CasePoolAssumption DEF CaseInv, ResolvedIsHeld, ResolverCommitted, TypeOK, Pool, Rows, Holder
<1>FrozenIsHeld. FrozenIsHeld'
  BY <1>1, CasePoolAssumption DEF CaseInv, FrozenIsHeld, StageStanding, Writing, TypeOK, Pool, Rows, Holder, Contribution
<1>ReceiptIsOld. ReceiptIsOld'
  BY <1>1, CasePoolAssumption DEF CaseInv, ReceiptIsOld, TypeOK, Rows, EmptyRows
<1>LockHeld. LockHeld'
  BY <1>1, CasePoolAssumption DEF CaseInv, LockHeld, StageStanding, TypeOK
<1>NotLoaded. NotLoaded'
  BY <1>1, CasePoolAssumption DEF CaseInv, NotLoaded, Writing
<1>NoOrphanClaim. NoOrphanClaim'
  BY <1>1, CasePoolAssumption DEF CaseInv, NoOrphanClaim, StageStanding, TypeOK, Pool, Holder, UnknownIsFree
<1>kept. KeepsCases
  BY <1>1, CasePoolAssumption DEF KeepsCases, CaseInv, TypeOK, Pool, Holder
<1> QED
  BY <1>TypeOK, <1>UnknownIsFree, <1>SubmittedIsHeld, <1>RegisteredKnown, <1>CreatedRegistered, <1>HeldIsRegistered, <1>StageStanding, <1>ResolverCommitted, <1>ResolvedIsHeld, <1>FrozenIsHeld, <1>ReceiptIsOld, <1>LockHeld, <1>NotLoaded, <1>NoOrphanClaim, <1>kept DEF CaseInv

LEMMA AfterClaim ==
    ASSUME CaseInv, NEW e \in Executions, NEW c \in Cases, stage[e] = "open", ready, lock = Nobody, e \in pool.executions,
           c \in pool.known, pool.owner[c] = Nobody, pool' = Claimed(pool, e, c),
           UNCHANGED <<rows, stage, frozen, receipt, lock, before, ready, crashes>>
    PROVE  CaseInv' /\ KeepsCases
<1>1. /\ pool' \in Pool
      /\ pool'.known = pool.known
      /\ pool'.owner = [pool.owner EXCEPT ![c] = e]
      /\ pool'.submitted = pool.submitted
      /\ pool'.registrations = [pool.registrations EXCEPT ![e] = @ \cup {c}]
      /\ pool'.created = pool.created
      /\ pool'.executions = pool.executions
      /\ pool'.saved = pool.saved
  <2>1. pool \in Pool
    BY DEF CaseInv, TypeOK
  <2>2. QED
    BY <2>1, ClaimedFields
<1>TypeOK. TypeOK'
  BY <1>1, CasePoolAssumption DEF CaseInv, TypeOK, Stages, Holder, Rows, Contribution
<1>UnknownIsFree. UnknownIsFree'
  BY <1>1, CasePoolAssumption DEF CaseInv, UnknownIsFree, TypeOK, Pool, Holder
<1>SubmittedIsHeld. SubmittedIsHeld'
  BY <1>1, CasePoolAssumption DEF CaseInv, SubmittedIsHeld, UnknownIsFree, TypeOK, Pool, Holder
<1>RegisteredKnown. RegisteredKnown'
  BY <1>1, CasePoolAssumption DEF CaseInv, RegisteredKnown, TypeOK, Pool
<1>CreatedRegistered. CreatedRegistered'
  BY <1>1, CasePoolAssumption DEF CaseInv, CreatedRegistered, TypeOK, Pool
<1>HeldIsRegistered. HeldIsRegistered'
  BY <1>1, CasePoolAssumption DEF CaseInv, HeldIsRegistered, StageStanding, TypeOK, Pool, Holder
<1>StageStanding. StageStanding'
  BY <1>1, CasePoolAssumption DEF CaseInv, StageStanding, ResolverCommitted, Writing, TypeOK, Pool, Holder
<1>ResolverCommitted. ResolverCommitted'
  BY <1>1, CasePoolAssumption DEF CaseInv, ResolverCommitted, TypeOK, Rows, Holder
<1>ResolvedIsHeld. ResolvedIsHeld'
  BY <1>1, CasePoolAssumption DEF CaseInv, ResolvedIsHeld, ResolverCommitted, TypeOK, Pool, Rows, Holder
<1>FrozenIsHeld. FrozenIsHeld'
  BY <1>1, CasePoolAssumption DEF CaseInv, FrozenIsHeld, StageStanding, Writing, TypeOK, Pool, Rows, Holder, Contribution
<1>ReceiptIsOld. ReceiptIsOld'
  BY <1>1, CasePoolAssumption DEF CaseInv, ReceiptIsOld, TypeOK, Rows, EmptyRows
<1>LockHeld. LockHeld'
  BY <1>1, CasePoolAssumption DEF CaseInv, LockHeld, StageStanding, TypeOK
<1>NotLoaded. NotLoaded'
  BY <1>1, CasePoolAssumption DEF CaseInv, NotLoaded, Writing
<1>NoOrphanClaim. NoOrphanClaim'
  BY <1>1, CasePoolAssumption DEF CaseInv, NoOrphanClaim, StageStanding, TypeOK, Pool, Holder
<1>kept. KeepsCases
  BY <1>1, CasePoolAssumption DEF KeepsCases, CaseInv, TypeOK, Pool, Holder
<1> QED
  BY <1>TypeOK, <1>UnknownIsFree, <1>SubmittedIsHeld, <1>RegisteredKnown, <1>CreatedRegistered, <1>HeldIsRegistered, <1>StageStanding, <1>ResolverCommitted, <1>ResolvedIsHeld, <1>FrozenIsHeld, <1>ReceiptIsOld, <1>LockHeld, <1>NotLoaded, <1>NoOrphanClaim, <1>kept DEF CaseInv

LEMMA AfterSubmit ==
    ASSUME CaseInv, NEW e \in Executions, NEW c \in Cases, stage[e] = "open", ready, lock = Nobody, e \in pool.executions,
           c \in pool.known, pool.owner[c] = e, pool' = Submitted(pool, e, c),
           UNCHANGED <<rows, stage, frozen, receipt, lock, before, ready, crashes>>
    PROVE  CaseInv' /\ KeepsCases
<1>1. /\ pool' \in Pool
      /\ pool'.known = pool.known
      /\ pool'.owner = pool.owner
      /\ pool'.submitted = pool.submitted \cup {c}
      /\ pool'.registrations = pool.registrations
      /\ pool'.created = pool.created
      /\ pool'.executions = pool.executions
      /\ pool'.saved = pool.saved
  BY SubmittedFields DEF CaseInv, TypeOK
<1>TypeOK. TypeOK'
  BY <1>1, CasePoolAssumption DEF CaseInv, TypeOK, Stages, Holder, Rows, Contribution
<1>UnknownIsFree. UnknownIsFree'
  BY <1>1, CasePoolAssumption DEF CaseInv, UnknownIsFree, TypeOK, Pool, Holder
<1>SubmittedIsHeld. SubmittedIsHeld'
  BY <1>1, CasePoolAssumption DEF CaseInv, SubmittedIsHeld, UnknownIsFree, TypeOK, Pool, Holder
<1>RegisteredKnown. RegisteredKnown'
  BY <1>1, CasePoolAssumption DEF CaseInv, RegisteredKnown, TypeOK, Pool
<1>CreatedRegistered. CreatedRegistered'
  BY <1>1, CasePoolAssumption DEF CaseInv, CreatedRegistered, TypeOK, Pool
<1>HeldIsRegistered. HeldIsRegistered'
  BY <1>1, CasePoolAssumption DEF CaseInv, HeldIsRegistered, StageStanding, TypeOK, Pool, Holder
<1>StageStanding. StageStanding'
  BY <1>1, CasePoolAssumption DEF CaseInv, StageStanding, ResolverCommitted, Writing, TypeOK, Pool, Holder
<1>ResolverCommitted. ResolverCommitted'
  BY <1>1, CasePoolAssumption DEF CaseInv, ResolverCommitted, TypeOK, Rows, Holder
<1>ResolvedIsHeld. ResolvedIsHeld'
  BY <1>1, CasePoolAssumption DEF CaseInv, ResolvedIsHeld, ResolverCommitted, TypeOK, Pool, Rows, Holder
<1>FrozenIsHeld. FrozenIsHeld'
  BY <1>1, CasePoolAssumption DEF CaseInv, FrozenIsHeld, StageStanding, Writing, TypeOK, Pool, Rows, Holder, Contribution
<1>ReceiptIsOld. ReceiptIsOld'
  BY <1>1, CasePoolAssumption DEF CaseInv, ReceiptIsOld, TypeOK, Rows, EmptyRows
<1>LockHeld. LockHeld'
  BY <1>1, CasePoolAssumption DEF CaseInv, LockHeld, StageStanding, TypeOK
<1>NotLoaded. NotLoaded'
  BY <1>1, CasePoolAssumption DEF CaseInv, NotLoaded, Writing
<1>NoOrphanClaim. NoOrphanClaim'
  BY <1>1, CasePoolAssumption DEF CaseInv, NoOrphanClaim, StageStanding, TypeOK, Pool, Holder
<1>kept. KeepsCases
  BY <1>1, CasePoolAssumption DEF KeepsCases, CaseInv, TypeOK, Pool, Holder
<1> QED
  BY <1>TypeOK, <1>UnknownIsFree, <1>SubmittedIsHeld, <1>RegisteredKnown, <1>CreatedRegistered, <1>HeldIsRegistered, <1>StageStanding, <1>ResolverCommitted, <1>ResolvedIsHeld, <1>FrozenIsHeld, <1>ReceiptIsOld, <1>LockHeld, <1>NotLoaded, <1>NoOrphanClaim, <1>kept DEF CaseInv

LEMMA CallStep ==
    ASSUME CaseInv, NEW e \in Executions, Call(e)
    PROVE  CaseInv' /\ KeepsCases
<1>0. /\ stage[e] = "open" /\ pool' \in AfterCall(pool, e)
      /\ ready /\ lock = Nobody
      /\ UNCHANGED <<rows, stage, frozen, receipt, lock, before, ready, crashes>>
  BY DEF Call, Unlocked
<1>1. \/ pool' = pool
      \/ \E c \in Cases : pool' = Pushed(pool, e, c)
      \/ \E c \in pool.known : pool.owner[c] = Nobody /\ pool' = Claimed(pool, e, c)
      \/ \E c \in pool.known : pool.owner[c] = e /\ pool' = Submitted(pool, e, c)
  BY <1>0 DEF AfterCall, Claimed, Submitted
<1>2. e \in pool.executions /\ e \notin pool.saved
  BY <1>0 DEF CaseInv, StageStanding, Writing
<1>3. pool.known \subseteq Cases
  BY DEF CaseInv, TypeOK, Pool
<1>4. CASE pool' = pool
  BY <1>0, <1>4, SameStep DEF vars
<1>5. ASSUME NEW c \in Cases, pool' = Pushed(pool, e, c)
      PROVE  CaseInv' /\ KeepsCases
  BY <1>0, <1>2, <1>5, AfterPush
<1>6. ASSUME NEW c \in pool.known, pool.owner[c] = Nobody,
             pool' = Claimed(pool, e, c)
      PROVE  CaseInv' /\ KeepsCases
  BY <1>0, <1>2, <1>3, <1>6, AfterClaim
<1>7. ASSUME NEW c \in pool.known, pool.owner[c] = e,
             pool' = Submitted(pool, e, c)
      PROVE  CaseInv' /\ KeepsCases
  BY <1>0, <1>2, <1>3, <1>7, AfterSubmit
<1> QED
  BY <1>1, <1>4, <1>5, <1>6, <1>7

\* A call that is undone leaves the pool as it found it.
LEMMA CallUndone ==
    ASSUME CaseInv, NEW e \in Executions, stage[e] = "open",
           NEW q \in AfterCall(pool, e)
    PROVE  Restored(q, pool, e) = pool
<1> DEFINE p == pool
           r == Restored(q, p, e)
           gone == {c \in ((q.created[e] \cap q.known) \ p.created[e]) \
                           RegisteredByOthers(q, e) : q.owner[c] \in {Nobody, e}}
           back == {c \in (q.known \ gone) \cap p.known :
                       p.owner[c] = e /\ q.owner[c] \in {Nobody, e}}
<1>1. /\ p \in Pool /\ p.known \subseteq Cases
      /\ e \in p.executions /\ e \notin p.saved
  BY DEF CaseInv, TypeOK, StageStanding, Writing, Pool
<1>2. \/ q = p
      \/ \E c \in Cases : q = Pushed(p, e, c)
      \/ \E c \in p.known : p.owner[c] = Nobody /\ q = Claimed(p, e, c)
      \/ \E c \in p.known : p.owner[c] = e /\ q = Submitted(p, e, c)
  BY DEF AfterCall, Claimed, Submitted
<1>3. /\ \A c \in Cases : c \notin p.known =>
            /\ p.owner[c] = Nobody /\ c \notin p.submitted
            /\ \A f \in Executions : c \notin p.registrations[f] /\ c \notin p.created[f]
      /\ \A c \in p.submitted : p.owner[c] # Nobody
  BY <1>1 DEF CaseInv, UnknownIsFree, RegisteredKnown, CreatedRegistered,
              SubmittedIsHeld, TypeOK, Pool
<1>4. ASSUME q \in Pool, q.executions = p.executions, q.saved = p.saved,
             q.known \ gone = p.known,
             \A c \in Cases : q.owner[c] # p.owner[c] => q.owner[c] = e /\ p.owner[c] = Nobody,
             \A f \in Executions \ {e} : q.registrations[f] = p.registrations[f],
             \A f \in Executions \ {e} : q.created[f] = p.created[f],
             \A c \in Cases : p.owner[c] # e => (c \in q.submitted <=> c \in p.submitted)
      PROVE  r = p
  <2>1. /\ gone \subseteq q.known
        /\ r \in Pool
        /\ r.known = q.known \ gone
        /\ r.owner = [c \in Cases |-> IF c \in back THEN e
                                      ELSE IF c \in gone \/ q.owner[c] = e
                                      THEN Nobody ELSE q.owner[c]]
        /\ r.submitted = {c \in q.submitted \ gone : q.owner[c] # e}
                             \cup (back \cap p.submitted)
        /\ r.registrations = [q.registrations EXCEPT ![e] = p.registrations[e]]
        /\ r.created = [q.created EXCEPT ![e] = p.created[e]]
        /\ r.executions = IF e \in p.executions THEN q.executions
                              ELSE q.executions \ {e}
        /\ r.saved = q.saved
    BY <1>1, <1>4, RestoredFields
  <2>g. \A c \in gone : c \in Cases /\ c \notin p.known /\ q.owner[c] \in {Nobody, e}
    BY <1>1, <1>4 DEF Pool
  <2> HIDE DEF gone, r
  <2>2. back = {c \in p.known : p.owner[c] = e}
    BY <1>1, <1>4 DEF Pool
  <2> HIDE DEF back
  <2>3. ASSUME NEW c \in Cases
        PROVE  r.owner[c] = p.owner[c]
    <3>1. CASE p.owner[c] = e
      BY <1>1, <1>3, <2>1, <2>2, <2>3, <3>1, CasePoolAssumption
    <3>2. CASE p.owner[c] # e
      BY <1>1, <1>3, <1>4, <2>1, <2>2, <2>g, <3>2
    <3>3. QED
      BY <3>1, <3>2
  <2>4. r.owner = p.owner
    BY <1>1, <2>1, <2>3 DEF Pool
  <2>5. ASSUME NEW c \in Cases
        PROVE  c \in r.submitted <=> c \in p.submitted
    <3>1. CASE p.owner[c] = e
      BY <1>1, <1>3, <1>4, <2>1, <2>2, <2>g, <3>1, CasePoolAssumption DEF Pool
    <3>2. CASE p.owner[c] # e
      BY <1>1, <1>3, <1>4, <2>1, <2>2, <2>g, <3>2 DEF Pool
    <3>3. QED
      BY <3>1, <3>2
  <2>6. r.submitted = p.submitted
    BY <1>1, <2>1, <2>5 DEF Pool
  <2>7. r.registrations = p.registrations /\ r.created = p.created
    BY <1>1, <1>4, <2>1 DEF Pool
  <2>8. r.known = p.known /\ r.executions = p.executions /\ r.saved = p.saved
    BY <1>1, <1>4, <2>1
  <2>9. QED
    BY <1>1, <2>1, <2>4, <2>6, <2>7, <2>8 DEF Pool
<1>5. CASE q = p
  <2>1. gone = {}
    BY <1>5
  <2>2. QED
    BY <1>1, <1>4, <1>5, <2>1
<1>6. ASSUME NEW c \in Cases, q = Pushed(p, e, c)
      PROVE  r = p
  <2>1. /\ q \in Pool /\ q.known = p.known \cup {c} /\ q.owner = p.owner
        /\ q.submitted = p.submitted
        /\ q.registrations = [p.registrations EXCEPT ![e] = @ \cup {c}]
        /\ q.created =
              [p.created EXCEPT ![e] = IF c \in p.known THEN @ ELSE @ \cup {c}]
        /\ q.executions = p.executions /\ q.saved = p.saved
    BY <1>1, <1>6, PushedFields
  <2>2. \A f \in Executions \ {e} :
            q.registrations[f] = p.registrations[f] /\ q.created[f] = p.created[f]
    BY <1>1, <2>1 DEF Pool
  <2>3. CASE c \in p.known
    <3>1. gone = {} /\ q.known = p.known
      BY <1>1, <2>1, <2>3 DEF Pool
    <3>2. QED
      BY <1>4, <2>1, <2>2, <3>1
  <2>4. CASE c \notin p.known
    <3>1. c \notin RegisteredByOthers(q, e)
      BY <1>3, <2>2, <2>4 DEF RegisteredByOthers
    <3>2. q.created[e] = p.created[e] \cup {c}
      BY <1>1, <2>1, <2>4 DEF Pool
    <3>3. gone = {c}
      BY <1>3, <2>1, <2>4, <3>1, <3>2
    <3>4. q.known \ gone = p.known
      BY <2>1, <2>4, <3>3
    <3>5. QED
      BY <1>4, <2>1, <2>2, <3>4
  <2>5. QED
    BY <2>3, <2>4
<1>7. ASSUME NEW c \in p.known, p.owner[c] = Nobody, q = Claimed(p, e, c)
      PROVE  r = p
  <2>0. c \in Cases
    BY <1>1
  <2>1. /\ q \in Pool /\ q.known = p.known /\ q.owner = [p.owner EXCEPT ![c] = e]
        /\ q.submitted = p.submitted
        /\ q.registrations = [p.registrations EXCEPT ![e] = @ \cup {c}]
        /\ q.created = p.created
        /\ q.executions = p.executions /\ q.saved = p.saved
    BY <1>1, <1>7, <2>0, ClaimedFields
  <2>2. gone = {}
    BY <2>1
  <2>3. \A d \in Cases : q.owner[d] # p.owner[d] => q.owner[d] = e /\ p.owner[d] = Nobody
    BY <1>1, <1>7, <2>1 DEF Pool
  <2>4. \A f \in Executions \ {e} :
            q.registrations[f] = p.registrations[f] /\ q.created[f] = p.created[f]
    BY <1>1, <2>1 DEF Pool
  <2>5. QED
    BY <1>4, <2>1, <2>2, <2>3, <2>4
<1>8. ASSUME NEW c \in p.known, p.owner[c] = e, q = Submitted(p, e, c)
      PROVE  r = p
  <2>0. c \in Cases
    BY <1>1
  <2>1. /\ q \in Pool /\ q.known = p.known /\ q.owner = p.owner
        /\ q.submitted = p.submitted \cup {c}
        /\ q.registrations = p.registrations
        /\ q.created = p.created
        /\ q.executions = p.executions /\ q.saved = p.saved
    BY <1>1, <1>8, <2>0, SubmittedFields
  <2>2. gone = {}
    BY <2>1
  <2>3. QED
    BY <1>4, <1>8, <2>1, <2>2
<1>9. QED
  BY <1>2, <1>5, <1>6, <1>7, <1>8


LEMMA FailedCallStep ==
    ASSUME CaseInv, NEW e \in Executions, FailedCall(e)
    PROVE  CaseInv' /\ KeepsCases
<1>1. /\ stage[e] = "open"
      /\ UNCHANGED <<rows, stage, frozen, receipt, lock, before, ready, crashes>>
      /\ \E q \in AfterCall(pool, e) : pool' = Restored(q, pool, e)
  BY DEF FailedCall
<1>2. pool' = pool
  BY <1>1, CallUndone
<1> QED
  BY <1>1, <1>2, SameStep DEF vars

LEMMA ConsolidationSavedStep ==
    ASSUME CaseInv, NEW e \in Executions, ConsolidationSaved(e)
    PROVE  CaseInv' /\ KeepsCases
<1>0. /\ stage[e] = "consolidating"
      /\ stage' = [stage EXCEPT ![e] = "confirmed"]
      /\ lock = e /\ lock' = Nobody /\ before' = EmptyPool
      /\ rows' = [rows EXCEPT !.cases = @ \cup pool.registrations[e]]
      /\ frozen' = frozen /\ receipt' = receipt
      /\ ready' = ready /\ crashes' = crashes
      /\ \A c \in Cases : pool.owner[c] # e
      /\ \A f \in Executions : stage[f] = "consolidating" => f = e
      /\ ready
  BY CasePoolAssumption DEF ConsolidationSaved, Moves, CaseInv, StageStanding, LockHeld, NotLoaded
<1>a. pool.registrations[e] \subseteq Cases
  BY DEF CaseInv, TypeOK, Pool
<1>b. /\ rows' \in Rows
      /\ rows'.cases = rows.cases \cup pool.registrations[e]
      /\ rows'.resolver = rows.resolver
  BY <1>0, <1>a DEF CaseInv, TypeOK, Rows
<1>1. /\ pool' \in Pool
      /\ pool'.known = pool.known
      /\ pool'.owner = pool.owner
      /\ pool'.submitted = pool.submitted
      /\ pool'.registrations = pool.registrations
      /\ pool'.created = pool.created
      /\ pool'.executions = pool.executions \ {e}
      /\ pool'.saved = pool.saved \cup {e}
  <2>1. pool' = Confirmed(pool, e)
    BY DEF ConsolidationSaved
  <2>2. /\ pool' \in Pool
        /\ pool'.known = pool.known
        /\ pool'.owner = [c \in Cases |-> IF pool.owner[c] = e /\ c \notin pool.submitted
                                          THEN Nobody ELSE pool.owner[c]]
        /\ pool'.submitted = pool.submitted
        /\ pool'.registrations = pool.registrations
        /\ pool'.created = pool.created
        /\ pool'.executions = pool.executions \ {e}
        /\ pool'.saved = pool.saved \cup {e}
    BY <2>1, ConfirmedFields DEF CaseInv, TypeOK
  <2>3. pool'.owner = pool.owner
    BY <1>0, <2>2 DEF CaseInv, TypeOK, Pool
  <2>4. QED
    BY <2>2, <2>3
<1>TypeOK. TypeOK'
  <2>1. EmptyPool \in Pool
    BY DEF EmptyPool, Pool, Holder
  <2>2. QED
    BY <1>0, <1>b, <1>1, <2>1 DEF CaseInv, TypeOK, Stages, Holder
<1>UnknownIsFree. UnknownIsFree'
  BY <1>1 DEF CaseInv, TypeOK, Pool, UnknownIsFree
<1>SubmittedIsHeld. SubmittedIsHeld'
  BY <1>1 DEF CaseInv, TypeOK, Pool, SubmittedIsHeld
<1>RegisteredKnown. RegisteredKnown'
  BY <1>1 DEF CaseInv, TypeOK, Pool, RegisteredKnown
<1>CreatedRegistered. CreatedRegistered'
  BY <1>1 DEF CaseInv, TypeOK, Pool, CreatedRegistered
<1>HeldIsRegistered. HeldIsRegistered'
  BY <1>1, CasePoolAssumption DEF CaseInv, TypeOK, Pool, HeldIsRegistered
<1>StageStanding. StageStanding'
  BY <1>0, <1>b, <1>1, CasePoolAssumption DEF CaseInv, TypeOK, Pool, StageStanding, Writing
<1>ResolverCommitted. ResolverCommitted'
  BY <1>0, <1>b DEF CaseInv, TypeOK, Rows, Holder, ResolverCommitted
<1>ResolvedIsHeld. ResolvedIsHeld'
  BY <1>0, <1>b, <1>1 DEF CaseInv, TypeOK, Pool, ResolvedIsHeld
<1>FrozenIsHeld. FrozenIsHeld'
  BY <1>0, <1>b, <1>1 DEF CaseInv, TypeOK, Pool, FrozenIsHeld
<1>ReceiptIsOld. ReceiptIsOld'
  BY <1>0, <1>b DEF CaseInv, ReceiptIsOld
<1>LockHeld. LockHeld'
  BY <1>0 DEF CaseInv, TypeOK, LockHeld
<1>NotLoaded. NotLoaded'
  BY <1>0 DEF NotLoaded
<1>NoOrphanClaim. NoOrphanClaim'
  BY <1>0, <1>b, <1>1 DEF CaseInv, TypeOK, Pool, NoOrphanClaim
<1>kept. KeepsCases
  BY <1>1, CasePoolAssumption DEF KeepsCases, CaseInv, TypeOK, Pool, Holder
<1> QED
  BY <1>TypeOK, <1>UnknownIsFree, <1>SubmittedIsHeld, <1>RegisteredKnown, <1>CreatedRegistered, <1>HeldIsRegistered, <1>StageStanding, <1>ResolverCommitted, <1>ResolvedIsHeld, <1>FrozenIsHeld, <1>ReceiptIsOld, <1>LockHeld, <1>NotLoaded, <1>NoOrphanClaim, <1>kept DEF CaseInv

LEMMA ConsolidationFailsStep ==
    ASSUME CaseInv, NEW e \in Executions, ConsolidationFails(e)
    PROVE  CaseInv' /\ KeepsCases
<1>0. /\ stage[e] = "consolidating"
      /\ stage' = [stage EXCEPT ![e] = "over"]
      /\ lock = e /\ lock' = Nobody /\ before' = EmptyPool
      /\ rows' = rows /\ frozen' = frozen /\ receipt' = receipt
      /\ ready' = ready /\ crashes' = crashes
      /\ \A c \in Cases : pool.owner[c] # e
      /\ \A f \in Executions : stage[f] = "consolidating" => f = e
      /\ ready /\ e \notin pool.saved
      /\ before.registrations[e] = {} /\ before.created[e] = {}
      /\ \A c \in Cases : before.owner[c] # e
      /\ e \notin before.executions
      /\ before \in Pool /\ pool \in Pool
      /\ pool' = Restored(pool, before, e)
  BY CasePoolAssumption DEF ConsolidationFails, Moves, CaseInv, StageStanding, LockHeld, NotLoaded, Writing, TypeOK
<1> DEFINE gone == {c \in ((pool.created[e] \cap pool.known) \ before.created[e]) \
                           RegisteredByOthers(pool, e) : pool.owner[c] \in {Nobody, e}}
           back == {c \in (pool.known \ gone) \cap before.known :
                       before.owner[c] = e /\ pool.owner[c] \in {Nobody, e}}
<1>a. back = {}
  BY <1>0 DEF Pool
<1>b. \A f \in Executions \ {e} : pool.registrations[f] \cap gone = {}
  BY DEF RegisteredByOthers
<1>d. \A c \in gone : pool.owner[c] = Nobody
  BY <1>0 DEF Pool
<1> DEFINE r == Restored(pool, before, e)
<1>r. /\ gone \subseteq pool.known
      /\ r \in Pool
      /\ r.known = pool.known \ gone
      /\ r.owner = [c \in Cases |-> IF c \in back THEN e
                                        ELSE IF c \in gone \/ pool.owner[c] = e
                                        THEN Nobody ELSE pool.owner[c]]
      /\ r.submitted = {c \in pool.submitted \ gone : pool.owner[c] # e}
                             \cup (back \cap before.submitted)
      /\ r.registrations =
            [pool.registrations EXCEPT ![e] = before.registrations[e]]
      /\ r.created = [pool.created EXCEPT ![e] = before.created[e]]
      /\ r.executions = IF e \in before.executions THEN pool.executions
                            ELSE pool.executions \ {e}
      /\ r.saved = pool.saved
  <2>1. pool \in Pool /\ before \in Pool /\ e \notin pool.saved
    BY <1>0
  <2>2. QED
    BY <2>1, RestoredFields
<1>q. pool' = r
  BY <1>0
<1> HIDE DEF r
<1>c. /\ gone \subseteq pool.known
      /\ pool' \in Pool
      /\ pool'.known = pool.known \ gone
      /\ pool'.owner = [c \in Cases |-> IF c \in back THEN e
                                        ELSE IF c \in gone \/ pool.owner[c] = e
                                        THEN Nobody ELSE pool.owner[c]]
      /\ pool'.submitted = {c \in pool.submitted \ gone : pool.owner[c] # e}
                             \cup (back \cap before.submitted)
      /\ pool'.registrations =
            [pool.registrations EXCEPT ![e] = before.registrations[e]]
      /\ pool'.created = [pool.created EXCEPT ![e] = before.created[e]]
      /\ pool'.executions = IF e \in before.executions THEN pool.executions
                            ELSE pool.executions \ {e}
      /\ pool'.saved = pool.saved
  BY <1>r, <1>q
<1> HIDE DEF gone, back
<1>1. /\ pool' \in Pool
      /\ pool'.known = pool.known \ gone
      /\ pool'.owner = pool.owner
      /\ pool'.submitted = pool.submitted
      /\ pool'.registrations = [pool.registrations EXCEPT ![e] = {}]
      /\ pool'.created = [pool.created EXCEPT ![e] = {}]
      /\ pool'.executions = pool.executions \ {e}
      /\ pool'.saved = pool.saved
  <2>1. pool'.owner = pool.owner
    BY <1>0, <1>a, <1>c, <1>d DEF Pool
  <2>2. pool'.submitted = pool.submitted
    BY <1>0, <1>a, <1>c, <1>d DEF Pool, CaseInv, SubmittedIsHeld
  <2>3. QED
    BY <1>0, <1>c, <2>1, <2>2
<1>TypeOK. TypeOK'
  <2>1. EmptyPool \in Pool
    BY DEF EmptyPool, Pool, Holder
  <2>2. QED
    BY <1>0, <1>1, <2>1 DEF CaseInv, TypeOK, Stages, Holder
<1>UnknownIsFree. UnknownIsFree'
  BY <1>1, <1>d DEF CaseInv, TypeOK, Pool, UnknownIsFree, SubmittedIsHeld
<1>SubmittedIsHeld. SubmittedIsHeld'
  BY <1>1 DEF CaseInv, TypeOK, Pool, SubmittedIsHeld
<1>RegisteredKnown. RegisteredKnown'
  BY <1>1, <1>b DEF CaseInv, TypeOK, Pool, RegisteredKnown
<1>CreatedRegistered. CreatedRegistered'
  BY <1>1 DEF CaseInv, TypeOK, Pool, CreatedRegistered
<1>HeldIsRegistered. HeldIsRegistered'
  BY <1>1, CasePoolAssumption DEF CaseInv, TypeOK, Pool, HeldIsRegistered
<1>StageStanding. StageStanding'
  BY <1>0, <1>1, CasePoolAssumption DEF CaseInv, TypeOK, Pool, StageStanding, Writing
<1>ResolverCommitted. ResolverCommitted'
  BY <1>0 DEF CaseInv, TypeOK, Rows, Holder, ResolverCommitted
<1>ResolvedIsHeld. ResolvedIsHeld'
  BY <1>0, <1>1, <1>d, CasePoolAssumption DEF CaseInv, TypeOK, Pool, ResolvedIsHeld
<1>FrozenIsHeld. FrozenIsHeld'
  BY <1>0, <1>1 DEF CaseInv, TypeOK, Pool, FrozenIsHeld
<1>ReceiptIsOld. ReceiptIsOld'
  BY <1>0 DEF CaseInv, ReceiptIsOld
<1>LockHeld. LockHeld'
  BY <1>0 DEF CaseInv, TypeOK, LockHeld
<1>NotLoaded. NotLoaded'
  BY <1>0 DEF NotLoaded
<1>NoOrphanClaim. NoOrphanClaim'
  BY <1>0, <1>1 DEF CaseInv, TypeOK, Pool, NoOrphanClaim
<1>kept. KeepsCases
  BY <1>1, CasePoolAssumption DEF KeepsCases, CaseInv, TypeOK, Pool, Holder
<1> QED
  BY <1>TypeOK, <1>UnknownIsFree, <1>SubmittedIsHeld, <1>RegisteredKnown, <1>CreatedRegistered, <1>HeldIsRegistered, <1>StageStanding, <1>ResolverCommitted, <1>ResolvedIsHeld, <1>FrozenIsHeld, <1>ReceiptIsOld, <1>LockHeld, <1>NotLoaded, <1>NoOrphanClaim, <1>kept DEF CaseInv

LEMMA CrashStep ==
    ASSUME CaseInv, Crash
    PROVE  CaseInv' /\ KeepsCases
<1>1. /\ pool' = EmptyPool /\ before' = EmptyPool /\ EmptyPool \in Pool
      /\ lock' = Nobody /\ ready' = FALSE /\ rows' = rows
      /\ crashes' \in 0..MaxCrashes
      /\ stage' = [e \in Executions |->
                      IF stage[e] = "new" THEN "new" ELSE "over"]
      /\ frozen' = [e \in Executions |-> NoContribution]
      /\ receipt' = [e \in Executions |-> EmptyRows]
      /\ EmptyRows \in Rows /\ NoContribution \in Contribution
  BY CaseExecutionsAssumption
     DEF Crash, EmptyPool, Pool, Holder, EmptyRows, Rows, NoContribution, Contribution, CaseInv, TypeOK
<1>2. /\ \A e \in Executions : stage'[e] = IF stage[e] = "new" THEN "new" ELSE "over"
      /\ \A e \in Executions : stage[e] = "new" => \A c \in Cases : rows.resolver[c] # e
  BY <1>1, CasePoolAssumption DEF CaseInv, TypeOK, Rows, Holder, ResolverCommitted
<1>TypeOK. TypeOK'
  BY <1>1, <1>2 DEF CaseInv, TypeOK, Stages, Holder
<1>UnknownIsFree. UnknownIsFree'
  BY <1>1 DEF UnknownIsFree, EmptyPool
<1>SubmittedIsHeld. SubmittedIsHeld'
  BY <1>1 DEF SubmittedIsHeld, EmptyPool
<1>RegisteredKnown. RegisteredKnown'
  BY <1>1 DEF RegisteredKnown, EmptyPool
<1>CreatedRegistered. CreatedRegistered'
  BY <1>1 DEF CreatedRegistered, EmptyPool
<1>HeldIsRegistered. HeldIsRegistered'
  BY <1>1 DEF HeldIsRegistered, EmptyPool
<1>StageStanding. StageStanding'
  BY <1>1, <1>2, CasePoolAssumption DEF StageStanding, Writing, EmptyPool
<1>ResolverCommitted. ResolverCommitted'
  BY <1>1, <1>2 DEF CaseInv, TypeOK, Rows, Holder, ResolverCommitted
<1>ResolvedIsHeld. ResolvedIsHeld'
  BY <1>1 DEF ResolvedIsHeld
<1>FrozenIsHeld. FrozenIsHeld'
  BY <1>1, <1>2 DEF FrozenIsHeld, EmptyPool
<1>ReceiptIsOld. ReceiptIsOld'
  BY <1>1 DEF ReceiptIsOld, EmptyRows
<1>LockHeld. LockHeld'
  BY <1>1, <1>2 DEF LockHeld
<1>NotLoaded. NotLoaded'
  BY <1>1, <1>2 DEF NotLoaded
<1>NoOrphanClaim. NoOrphanClaim'
  BY <1>1 DEF NoOrphanClaim, EmptyPool
<1>kept. KeepsCases
  BY <1>1 DEF KeepsCases, EmptyPool
<1> QED
  BY <1>TypeOK, <1>UnknownIsFree, <1>SubmittedIsHeld, <1>RegisteredKnown, <1>CreatedRegistered, <1>HeldIsRegistered, <1>StageStanding, <1>ResolverCommitted, <1>ResolvedIsHeld, <1>FrozenIsHeld, <1>ReceiptIsOld, <1>LockHeld, <1>NotLoaded, <1>NoOrphanClaim, <1>kept DEF CaseInv
LEMMA NextStep ==
    ASSUME CaseInv, [Next]_vars
    PROVE  CaseInv' /\ KeepsCases
<1>1. CASE UNCHANGED vars
  BY <1>1, SameStep
<1>2. CASE Recover
  BY <1>2, RecoverStep
<1>3. CASE Crash
  BY <1>3, CrashStep
<1>4. ASSUME NEW e \in Executions,
             \/ Begin(e) \/ Call(e) \/ FailedCall(e)
             \/ Complete(e) \/ Withdraw(e)
             \/ Commit(e) \/ SaveFails(e)
             \/ Confirm(e) \/ ConfirmRaises(e) \/ RecoverWork(e)
      PROVE  CaseInv' /\ KeepsCases
  BY <1>4, BeginStep, CallStep, FailedCallStep, CompleteStep, WithdrawStep,
     CommitStep, SaveFailsStep, ConfirmStep, ConfirmRaisesStep, RecoverWorkStep
<1>5. ASSUME NEW e \in Executions,
             \/ ConsolidationBegins(e) \/ ConsolidationSaved(e)
             \/ ConsolidationFails(e)
             \/ \E c \in Cases : RegisterIssue(e, c)
      PROVE  CaseInv' /\ KeepsCases
  BY <1>5, ConsolidationBeginsStep, ConsolidationSavedStep,
     ConsolidationFailsStep, RegisterIssueStep
<1>6. QED
  BY <1>1, <1>2, <1>3, <1>4, <1>5 DEF Next

LEMMA InitHolds == Init => CaseInv
<1> SUFFICES ASSUME Init PROVE CaseInv
  OBVIOUS
<1>1. /\ EmptyPool \in Pool /\ EmptyRows \in Rows /\ NoContribution \in Contribution
      /\ \A c \in Cases : EmptyPool.owner[c] = Nobody /\ EmptyRows.resolver[c] = Nobody
      /\ EmptyPool.known = {} /\ EmptyPool.submitted = {} /\ EmptyPool.executions = {}
      /\ EmptyPool.saved = {} /\ EmptyRows.cases = {}
      /\ EmptyPool.registrations = [e \in Executions |-> {}]
      /\ EmptyPool.created = [e \in Executions |-> {}]
  BY DEF EmptyPool, EmptyRows, NoContribution, Pool, Rows, Contribution, Holder
<1>2. TypeOK
  <2>1. 0 \in 0..MaxCrashes
    BY CaseExecutionsAssumption
  <2>2. Nobody \in Holder /\ "new" \in Stages
    BY DEF Holder, Stages
  <2>3. QED
    BY <1>1, <2>1, <2>2 DEF Init, TypeOK
<1>3. UnknownIsFree /\ SubmittedIsHeld /\ RegisteredKnown /\ CreatedRegistered
  BY <1>1 DEF Init, UnknownIsFree, SubmittedIsHeld, RegisteredKnown, CreatedRegistered
<1>4. HeldIsRegistered /\ NoOrphanClaim
  BY <1>1 DEF Init, HeldIsRegistered, NoOrphanClaim
<1>5. StageStanding
  BY <1>1, CasePoolAssumption DEF Init, StageStanding, Writing
<1>6. ResolverCommitted /\ ResolvedIsHeld
  BY <1>1 DEF Init, ResolverCommitted, ResolvedIsHeld
<1>7. FrozenIsHeld /\ ReceiptIsOld
  BY <1>1 DEF Init, FrozenIsHeld, ReceiptIsOld
<1>8. LockHeld /\ NotLoaded
  BY <1>1 DEF Init, LockHeld, NotLoaded
<1>9. QED
  BY <1>2, <1>3, <1>4, <1>5, <1>6, <1>7, <1>8 DEF CaseInv

\* In every reachable state the pool, the rows and the stages agree in all
\* the ways CaseInv lists.
THEOREM CaseInvariant == Spec => []CaseInv
<1>1. CaseInv /\ [Next]_vars => CaseInv'
  BY NextStep
<1>2. QED
  BY InitHolds, <1>1, PTL DEF Spec

-----------------------------------------------------------------------------
(* The properties *)

\* Every value of the state is of its type: memory and rows never hold an
\* owner or a resolver that is not an execution (case_pool, case_writes).
THEOREM CaseTypes == Spec => []TypeOK
<1>1. CaseInv => TypeOK
  BY DEF CaseInv
<1>2. QED
  BY <1>1, CaseInvariant, PTL

\* save_work() never refuses a frozen contribution because of a case that
\* somebody else resolved in the meantime.
THEOREM SubmissionsAccepted == Spec => []SubmissionsNeverRefused
<1>1. CaseInv => SubmissionsNeverRefused
  <2> SUFFICES ASSUME CaseInv, NEW e \in Executions, stage[e] = "complete",
                      NEW c \in frozen[e].submissions
               PROVE  rows.resolver[c] \in {Nobody, e}
    BY DEF SubmissionsNeverRefused, MayCommit
  <2>1. c \in pool.submitted /\ pool.owner[c] = e /\ ready /\ c \in Cases
    BY CasePoolAssumption DEF CaseInv, FrozenIsHeld, NotLoaded, TypeOK, Contribution
  <2>2. QED
    BY <2>1 DEF CaseInv, ResolvedIsHeld
<1>2. QED
  BY <1>1, CaseInvariant, PTL

\* A case whose row has a resolver is submitted by that resolver in memory
\* too: claim() never offers it again, from the commit on.
THEOREM ResolvedStaysHeld == Spec => []ResolvedIsNotOffered
<1>1. CaseInv => ResolvedIsNotOffered
  <2> SUFFICES ASSUME CaseInv, NEW c \in Resolved(rows) \cap pool.known
               PROVE  pool.owner[c] = rows.resolver[c] /\ c \in pool.submitted
    BY DEF ResolvedIsNotOffered
  <2>1. c \in Cases /\ rows.resolver[c] # Nobody
    BY DEF Resolved, CaseInv, TypeOK, Rows
  <2>2. ready
    BY DEF CaseInv, NotLoaded, EmptyPool
  <2>3. QED
    BY <2>1, <2>2 DEF CaseInv, ResolvedIsHeld
<1>2. QED
  BY <1>1, CaseInvariant, PTL

\* rollback() and restore() of one execution never delete a case that a
\* running execution registered.
THEOREM RegisteredIsKept == Spec => []RegisteredStaysKnown
<1>1. CaseInv => RegisteredStaysKnown
  BY DEF CaseInv, RegisteredKnown, RegisteredStaysKnown, TypeOK, Pool
<1>2. QED
  BY <1>1, CaseInvariant, PTL

\* No claim outlives the execution that made it.
THEOREM ClaimsDieWithTheirExecution == Spec => []NoOrphanClaim
<1>1. CaseInv => NoOrphanClaim
  BY DEF CaseInv
<1>2. QED
  BY <1>1, CaseInvariant, PTL

\* snapshot() and restore() around a failing tool call leave the pool as it
\* was, for every call and every reachable pool.
THEOREM FailedCallsAreUndone == Spec => []FailedCallsUndone
<1>1. CaseInv => FailedCallsUndone
  BY CallUndone DEF FailedCallsUndone
<1>2. QED
  BY <1>1, CaseInvariant, PTL

\* Claims in memory and resolvers in the store always agree.
THEOREM CasesAlwaysSafe == Spec => []CasesAreSafe
<1>1. SubmissionsNeverRefused /\ ResolvedIsNotOffered /\ NoOrphanClaim => CasesAreSafe
  BY DEF CasesAreSafe
<1>2. QED
  BY <1>1, SubmissionsAccepted, ResolvedStaysHeld, ClaimsDieWithTheirExecution, PTL

\* Failures are local, for any number of executions.
THEOREM FailuresStayLocal == Spec => []FailuresAreLocal
<1>1. FailedCallsUndone /\ RegisteredStaysKnown => FailuresAreLocal
  BY DEF FailuresAreLocal
<1>2. QED
  BY <1>1, FailedCallsAreUndone, RegisteredIsKept, PTL

\* A running execution loses a case only by its own end.
THEOREM OthersKeep == Spec => OthersKeepTheirCases
<1>1. CaseInv /\ [Next]_vars =>
        [\A c \in Cases :
          pool.owner[c] \in pool.executions =>
              \/ pool'.owner[c] = pool.owner[c]
              \/ pool.owner[c] \notin pool'.executions]_vars
  BY NextStep DEF KeepsCases
<1>2. QED
  BY <1>1, CaseInvariant, PTL DEF Spec, OthersKeepTheirCases

LEMMA ResolvedOnceStep ==
    ASSUME CaseInv, [Next]_vars, NEW c \in Resolved(rows)
    PROVE  rows'.resolver[c] = rows.resolver[c]
<1>1. CASE UNCHANGED rows
  BY <1>1
<1>2. c \in Cases /\ rows.resolver[c] # Nobody
  BY DEF Resolved, CaseInv, TypeOK, Rows
<1>3. ASSUME NEW e \in Executions, Commit(e)
      PROVE  rows'.resolver[c] = rows.resolver[c]
  <2>1. rows'.resolver = [d \in Cases |-> IF d \in frozen[e].submissions
                                          THEN e ELSE rows.resolver[d]]
    BY <1>3 DEF Commit, Committed
  <2>2. QED
    BY <1>2, <1>3, <2>1 DEF Commit, MayCommit
<1>4. ASSUME NEW e \in Executions, ConsolidationSaved(e)
      PROVE  rows'.resolver[c] = rows.resolver[c]
  BY <1>4 DEF ConsolidationSaved, CaseInv, TypeOK, Rows
<1>5. QED
  BY <1>1, <1>3, <1>4
     DEF Next, vars, Recover, Crash, Begin, Call, FailedCall, Complete, Withdraw,
         SaveFails, Confirm, ConfirmRaises, RecoverWork, ConsolidationBegins,
         ConsolidationFails, RegisterIssue

\* The promised_agent_id of a resolved row never changes, across restarts.
THEOREM RowsResolveOnce == Spec => ResolvedOnce
<1>1. CaseInv /\ [Next]_vars =>
        [\A c \in Resolved(rows) : rows'.resolver[c] = rows.resolver[c]]_vars
  BY ResolvedOnceStep
<1>2. QED
  BY <1>1, CaseInvariant, PTL DEF Spec, ResolvedOnce

=============================================================================
