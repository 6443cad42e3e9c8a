------------------------------ MODULE CasePool ------------------------------
(***************************************************************************)
(* The case pool of one run: what CasePool keeps in memory, the rows of    *)
(* the store it is saved to, and one operator for each of its methods.     *)
(* Every method holds the lock of the pool from its first statement to its *)
(* last, so each is a function from a pool to a pool; the modules that     *)
(* extend this one say who calls it and when.                              *)
(*                                                                         *)
(* A case is named by its type and description: push() finds a case by     *)
(* both and makes a new id only when it finds none, so one name never has  *)
(* two ids in a pool.                                                      *)
(***************************************************************************)
EXTENDS Naturals, FiniteSets

CONSTANTS
    Executions,  \* invocation ids: the writers of cases
    Cases,       \* cases of the run, by type and description
    Nobody       \* no owner, no resolver, no producer

ASSUME CasePoolAssumption == Nobody \notin Executions

-----------------------------------------------------------------------------
(* Records *)

Holder == Executions \cup {Nobody}

Pool == [known         : SUBSET Cases,
         owner         : [Cases -> Holder],
         submitted     : SUBSET Cases,
         registrations : [Executions -> SUBSET Cases],
         created       : [Executions -> SUBSET Cases],
         executions    : SUBSET Executions,
         saved         : SUBSET Executions]

\* The rows of the run: a row is pending until it has a resolver, its
\* promised_agent_id.  A program (and not an execution) may be the producer.
Rows == [cases : SUBSET Cases, resolver : [Cases -> Holder]]

Contribution == [registrations : SUBSET Cases, submissions : SUBSET Cases]

EmptyPool ==
    [known         |-> {},
     owner         |-> [c \in Cases |-> Nobody],
     submitted     |-> {},
     registrations |-> [e \in Executions |-> {}],
     created       |-> [e \in Executions |-> {}],
     executions    |-> {},
     saved         |-> {}]

EmptyRows == [cases |-> {}, resolver |-> [c \in Cases |-> Nobody]]

NoContribution == [registrations |-> {}, submissions |-> {}]

-----------------------------------------------------------------------------
(* Reading the pool *)

ClaimsFor(p, e) == {c \in p.known : p.owner[c] = e}
SubmissionsFor(p, e) == ClaimsFor(p, e) \cap p.submitted
Available(p) == {c \in p.known \ p.submitted : p.owner[c] = Nobody}
Unsubmitted(p) == {c \in p.known \ p.submitted : p.owner[c] # Nobody}

ContributionOf(p, e) == [registrations |-> p.registrations[e],
                         submissions   |-> SubmissionsFor(p, e)]

RegisteredByOthers(p, e) ==
    UNION {p.registrations[f] : f \in Executions \ {e}}

-----------------------------------------------------------------------------
(* Registering, claiming and submitting *)

Begun(p, e) == [p EXCEPT !.executions = @ \cup {e}]

Stopped(p, e) == [p EXCEPT !.executions = @ \ {e}]

Pushed(p, e, c) ==
    [p EXCEPT !.known = @ \cup {c},
              !.created[e] = IF c \in p.known THEN @ ELSE @ \cup {c},
              !.registrations[e] = @ \cup {c}]

\* Mutant: a claim takes a case from the execution that holds it.
ClaimedFromAnybody(p, e, c) ==
    IF p.owner[c] = e THEN p
    ELSE [p EXCEPT !.owner[c] = e, !.registrations[e] = @ \cup {c}]

Claimed(p, e, c) ==
    IF p.owner[c] # Nobody THEN p
    ELSE [p EXCEPT !.owner[c] = e, !.registrations[e] = @ \cup {c}]

Submitted(p, e, c) ==
    IF p.owner[c] = e THEN [p EXCEPT !.submitted = @ \cup {c}] ELSE p

\* The pools one call of a tool of e can leave behind.
AfterCall(p, e) ==
         {Pushed(p, e, c) : c \in Cases}
    \cup {Claimed(p, e, c) : c \in p.known}
    \cup {Submitted(p, e, c) : c \in p.known}

-----------------------------------------------------------------------------
(* The end of an execution *)

Confirmed(p, e) ==
    [Stopped(p, e) EXCEPT
        !.owner = [c \in Cases |-> IF @[c] = e /\ c \notin p.submitted
                                   THEN Nobody ELSE @[c]],
        !.saved = @ \cup {e}]

\* The claims and submissions of e are given back.
Freed(p, e) ==
    [p EXCEPT !.owner = [c \in Cases |-> IF @[c] = e THEN Nobody ELSE @[c]],
              !.submitted = {c \in @ : p.owner[c] # e}]

Forgotten(p, gone) ==
    [p EXCEPT !.known = @ \ gone,
              !.owner = [c \in Cases |-> IF c \in gone THEN Nobody ELSE @[c]],
              !.submitted = @ \ gone]

Abandoned(p, e) == IF e \in p.saved THEN p ELSE Stopped(Freed(p, e), e)

\* What e created goes with it, unless another execution registered it or
\* holds it.
CreatedAlone(p, e) ==
    {c \in (p.created[e] \cap p.known) \ RegisteredByOthers(p, e) :
        p.owner[c] \in {Nobody, e}}

RolledBack(p, e) ==
    IF e \in p.saved THEN p
    ELSE [Stopped(Freed(Forgotten(p, CreatedAlone(p, e)), e), e) EXCEPT
            !.registrations[e] = {}, !.created[e] = {}]

\* restore(): what author e did since the snapshot s is undone, what others
\* did meanwhile is kept.
\* Mutant: the claims the author made since the snapshot are kept.
RestoredKeepingClaims(p, s, e) ==
    IF e \in p.saved THEN p
    ELSE LET gone == {c \in ((p.created[e] \cap p.known) \ s.created[e]) \
                            RegisteredByOthers(p, e) : p.owner[c] \in {Nobody, e}}
             q == Forgotten(p, gone)
         IN  [q EXCEPT !.registrations[e] = s.registrations[e],
                       !.created[e] = s.created[e]]

Restored(p, s, e) ==
    IF e \in p.saved THEN p
    ELSE LET gone == {c \in ((p.created[e] \cap p.known) \ s.created[e]) \
                            RegisteredByOthers(p, e) : p.owner[c] \in {Nobody, e}}
             q == Freed(Forgotten(p, gone), e)
             back == {c \in q.known \cap s.known :
                        s.owner[c] = e /\ q.owner[c] = Nobody}
         IN  [q EXCEPT
                !.owner = [c \in Cases |-> IF c \in back THEN e ELSE @[c]],
                !.submitted = @ \cup (back \cap s.submitted),
                !.registrations[e] = s.registrations[e],
                !.created[e] = s.created[e],
                !.executions = IF e \in s.executions THEN @ ELSE @ \ {e}]

-----------------------------------------------------------------------------
(* The store *)

Resolved(rows) == {c \in rows.cases : rows.resolver[c] # Nobody}

\* merge_committed(): a pending row never takes a claim away, a resolved one
\* always does.
\* Mutant: a pending row resets the claim that stands in memory.
MergedResetting(p, rows) ==
    [p EXCEPT !.known = @ \cup rows.cases,
              !.owner = [c \in Cases |-> IF c \in rows.cases
                                         THEN rows.resolver[c] ELSE @[c]],
              !.submitted = (@ \ rows.cases) \cup Resolved(rows)]

Merged(p, rows) ==
    [p EXCEPT !.known = @ \cup rows.cases,
              !.owner = [c \in Cases |-> IF c \in Resolved(rows)
                                         THEN rows.resolver[c] ELSE @[c]],
              !.submitted = @ \cup Resolved(rows)]

\* save_work() refuses the whole contribution when a row it resolves is
\* already the work of another execution.
MayCommit(rows, e, frozen) ==
    \A c \in frozen.submissions : rows.resolver[c] \in {Nobody, e}

\* Mutant: a registration writes a pending row over the one that is there.
CommittedOverwriting(rows, e, frozen) ==
    [cases    |-> rows.cases \cup frozen.registrations,
     resolver |-> [c \in Cases |-> IF c \in frozen.submissions THEN e
                                   ELSE IF c \in frozen.registrations THEN Nobody
                                   ELSE rows.resolver[c]]]

Committed(rows, e, frozen) ==
    [cases    |-> rows.cases \cup frozen.registrations,
     resolver |-> [c \in Cases |-> IF c \in frozen.submissions
                                   THEN e ELSE rows.resolver[c]]]

\* recover_work() puts the saved rows of one execution back into memory.
MayRecover(p, e, mine) == \A c \in mine.submissions : p.owner[c] \in {Nobody, e}

Recovered(p, e, mine) ==
    Confirmed(
        [Begun(p, e) EXCEPT
            !.known = @ \cup mine.registrations,
            !.registrations[e] = @ \cup mine.registrations,
            !.owner = [c \in Cases |-> IF c \in mine.submissions THEN e ELSE @[c]],
            !.submitted = @ \cup mine.submissions],
        e)

=============================================================================
