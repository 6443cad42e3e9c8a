------------------------- MODULE OrganizationDraft -------------------------
(* The events of a book and how they contain and concern each other, as the *)
(* sessions of a diagnosis write them together into one draft in memory     *)
(* (EventOrganizationDraft) and each saves its own share of it when it ends *)
(* (DiagnosisDomain.save_session_progress).  A session that fails takes its *)
(* unsaved rows back; the report is written over all that remains.  Every   *)
(* writing tool, save and abort holds the draft's lock, so each is a step.  *)
(*                                                                          *)
(* What a row says is data.  The relations of a session and the events that *)
(* its evidence cites are one set: the events it refers to.                 *)
EXTENDS Naturals, FiniteSets

CONSTANTS
    Agents,         \* executions: each attempt of a session has its own
    Keys,           \* the local keys under which an execution writes events
    Noted,          \* events that the annotation has stored
    NotedEdges,     \* and which of them contain which, as <<parent, child>>
    Annotation,     \* the producer of those
    Unread,         \* no stored rows in the cache of the draft
    Related,        \* bound: the pairs of events somebody may see a relation in
    MaxRestarts     \* bound: how often the process starts again

\* The identity of an event is its producer's alone (_identifier).
Events == Noted \cup (Agents \X Keys)
Author(e) == IF e \in Noted THEN Annotation ELSE e[1]

Producers == Agents \cup {Annotation}
Edges == [parent : Events, child : Events, by : Producers]

UniqueParent(E) == \A e, f \in E : e.child = f.child => e.parent = f.parent

\* Every set of events has one whose parents are all outside the set.
Acyclic(E) ==
    \A T \in SUBSET Events : T # {} =>
        \E c \in T : \A e \in E : e.child = c => e.parent \notin T

Forest(E) == UniqueParent(E) /\ Acyclic(E)

Contained(pairs) ==
    {[parent |-> p[1], child |-> p[2], by |-> Annotation] : p \in pairs}

ASSUME Identities ==
    /\ Annotation \notin Agents
    /\ Noted \cap (Agents \X Keys) = {}
    /\ Unread \notin [events : SUBSET Events, edges : SUBSET Edges]

\* The annotation stores a forest over events it stores as well.
ASSUME NotedIsForest ==
    /\ NotedEdges \subseteq Noted \X Noted
    /\ \A p, q \in NotedEdges : p[2] = q[2] => p = q
    /\ Acyclic(Contained(NotedEdges))

VARIABLES
    events,     \* EventOrganizationDraft.events
    edges,      \* .containments
    referred,   \* .relations, by producer: the events they refer to
    cache,      \* ._stored_view
    session,    \* of each execution: unused, open, failing, gone or saved
    inStore,    \* the rows of the store: events, edges, referred
    reported,   \* the report is stored
    restarts

vars == <<events, edges, referred, cache, session, inStore, reported, restarts>>

SessionStates == {"unused", "open", "failing", "gone", "saved"}

Init ==
    /\ inStore = [events |-> Noted, edges |-> Contained(NotedEdges),
                  referred |-> [a \in Agents |-> {}]]
    /\ events = inStore.events
    /\ edges = inStore.edges
    /\ referred = inStore.referred
    /\ cache = Unread
    /\ session = [a \in Agents |-> "unused"]
    /\ reported = FALSE
    /\ restarts = 0

-----------------------------------------------------------------------------
(* Reading. *)

StoredView == [events |-> inStore.events, edges |-> inStore.edges]

View == IF cache = Unread THEN StoredView ELSE cache

\* What the tools of a session see: the stored rows as last read, and over
\* them the draft.
Visible == View.events \cup events
VisibleEdges == View.edges \cup edges

Unfinished == {a \in Agents : session[a] \in {"open", "failing"}}

\* Mutant: a thread writes for an execution whose cases were taken from it.
MayWriteLate(a) == session[a] \in {"open", "failing", "gone"}

\* A tool writes for a session that holds a case.  A session that fails leaves
\* a thread behind that may still write until its cases are taken from it.
MayWrite(a) == session[a] \in {"open", "failing"}

\* Following the parents from p one meets c.
Below(p, c, E) ==
    \A S \in SUBSET Events :
        /\ p \in S
        /\ \A e \in E : e.child \in S => e.parent \in S
        => c \in S

-----------------------------------------------------------------------------
(* The tools of a session. *)

Open(a) ==
    /\ ~reported
    /\ session[a] = "unused"
    /\ session' = [session EXCEPT ![a] = "open"]
    /\ UNCHANGED <<events, edges, referred, cache, inStore, reported, restarts>>

Read(a) ==
    /\ MayWrite(a)
    /\ cache' = View
    /\ UNCHANGED <<events, edges, referred, session, inStore, reported, restarts>>

\* An event, once written, is never changed.
WriteEvent(a, k) ==
    /\ MayWrite(a)
    /\ events' = events \cup {<<a, k>>}
    /\ UNCHANGED <<edges, referred, cache, session, inStore, reported, restarts>>

Contain(a, p, c) ==
    /\ MayWrite(a)
    /\ {p, c} \subseteq Visible
    /\ cache' = View
    /\ p # c
    /\ \A e \in VisibleEdges : e.child = c => e.parent = p
    /\ ~Below(p, c, VisibleEdges)
    /\ \A e \in edges : e.parent = p /\ e.child = c => e.by = a
    /\ edges' = edges \cup {[parent |-> p, child |-> c, by |-> a]}
    /\ UNCHANGED <<events, referred, session, inStore, reported, restarts>>

\* A relation between two events, which replaces what the execution has said
\* under the same key.
Relate(a, s, t) ==
    /\ MayWrite(a)
    /\ <<s, t>> \in Related
    /\ {s, t} \subseteq Visible
    /\ cache' = View
    /\ referred' = [referred EXCEPT ![a] = {s, t}]
    /\ UNCHANGED <<events, edges, session, inStore, reported, restarts>>

RetractContainment(a, p, c) ==
    /\ MayWrite(a)
    /\ [parent |-> p, child |-> c, by |-> a] \in edges
    /\ \A e \in inStore.edges : ~(e.parent = p /\ e.child = c)
    /\ edges' = edges \ {[parent |-> p, child |-> c, by |-> a]}
    /\ UNCHANGED <<events, referred, cache, session, inStore, reported, restarts>>

RetractRelation(a) ==
    /\ MayWrite(a)
    /\ referred[a] # {}
    /\ referred' = [referred EXCEPT ![a] = {}]
    /\ UNCHANGED <<events, edges, cache, session, inStore, reported, restarts>>

-----------------------------------------------------------------------------
(* The end of a session. *)

OwnEvents(a) == {e \in events : Author(e) = a}
OwnEdges(a) == {e \in edges : e.by = a}

\* The events that rows refer to, which must exist when the rows are stored.
Ends(E) == {e.parent : e \in E} \cup {e.child : e \in E}
RefersTo(a) == Ends(OwnEdges(a)) \cup referred[a]

\* A stored containment is never stored again by another producer, and the
\* store has one parent per child (uq_narrative_links_containment).
Agrees(E) == \A e \in E, f \in inStore.edges : e.child = f.child => e = f

Storable(a) ==
    /\ RefersTo(a) \subseteq inStore.events \cup events
    /\ Agrees(OwnEdges(a))

\* Mutant: only the rows of the execution itself.
StoredOwnOnly(a) ==
    [events |-> inStore.events \cup OwnEvents(a),
     edges |-> inStore.edges \cup OwnEdges(a),
     referred |-> [inStore.referred EXCEPT ![a] = referred[a]]]

\* The rows of one execution, and with them the drafted events of others that
\* they refer to, under the names of their producers.
Stored(a) ==
    [events |-> inStore.events \cup OwnEvents(a) \cup (RefersTo(a) \cap events),
     edges |-> inStore.edges \cup OwnEdges(a),
     referred |-> [inStore.referred EXCEPT ![a] = referred[a]]]

Save(a) ==
    /\ session[a] = "open"
    /\ Storable(a)
    /\ inStore' = Stored(a)
    /\ session' = [session EXCEPT ![a] = "saved"]
    /\ cache' = Unread
    /\ UNCHANGED <<events, edges, referred, reported, restarts>>

\* The transaction is committed, its answer is lost, and the session fails.
SaveUnacknowledged(a) ==
    /\ session[a] = "open"
    /\ Storable(a)
    /\ inStore' = Stored(a)
    /\ session' = [session EXCEPT ![a] = "failing"]
    /\ UNCHANGED <<events, edges, referred, cache, reported, restarts>>

\* A call of the model fails, the task is cancelled, or the store refuses the
\* rows.
Fail(a) ==
    /\ session[a] = "open"
    /\ session' = [session EXCEPT ![a] = "failing"]
    /\ UNCHANGED <<events, edges, referred, cache, inStore, reported, restarts>>

\* Mutant: the next reader sees what was read before.
AbortKeepingView(a) ==
    /\ session[a] = "failing"
    /\ session' = [session EXCEPT ![a] = "gone"]
    /\ events' = events \ OwnEvents(a)
    /\ edges' = edges \ OwnEdges(a)
    /\ referred' = [referred EXCEPT ![a] = {}]
    /\ UNCHANGED <<cache, inStore, reported, restarts>>

\* What the execution has drafted goes, and the next reader reads the store.
Abort(a) ==
    /\ session[a] = "failing"
    /\ session' = [session EXCEPT ![a] = "gone"]
    /\ events' = events \ OwnEvents(a)
    /\ edges' = edges \ OwnEdges(a)
    /\ referred' = [referred EXCEPT ![a] = {}]
    /\ cache' = Unread
    /\ UNCHANGED <<inStore, reported, restarts>>

-----------------------------------------------------------------------------
(* The report, and the start of another process. *)

\* EventOrganizationDraft.finish and save_diagnosis_events: the draft as a
\* whole is checked and what the store lacks of it is added.
Complete ==
    /\ Ends(VisibleEdges) \subseteq Visible
    /\ \A a \in Agents : referred[a] \subseteq inStore.events \cup events
    /\ Forest(VisibleEdges)
    /\ Agrees(edges)

Report ==
    /\ ~reported
    /\ Unfinished = {}
    /\ Complete
    /\ inStore' = [events |-> inStore.events \cup events,
                   edges |-> inStore.edges \cup edges,
                   referred |-> [a \in Agents |-> IF referred[a] = {}
                                   THEN inStore.referred[a] ELSE referred[a]]]
    /\ reported' = TRUE
    /\ cache' = View
    /\ UNCHANGED <<events, edges, referred, session, restarts>>

\* The stage begins again, after a failure or a crash, with the draft that the
\* store holds (hydrate_draft_from_run).
Restart ==
    /\ restarts < MaxRestarts
    /\ ~reported
    /\ restarts' = restarts + 1
    /\ events' = inStore.events
    /\ edges' = inStore.edges
    /\ referred' = inStore.referred
    /\ cache' = Unread
    /\ session' = [a \in Agents |-> IF a \in Unfinished THEN "gone" ELSE session[a]]
    /\ UNCHANGED <<inStore, reported>>

-----------------------------------------------------------------------------

Writes(a) ==
    \/ Read(a)
    \/ \E k \in Keys : WriteEvent(a, k)
    \/ \E p, c \in Events : Contain(a, p, c) \/ RetractContainment(a, p, c)
    \/ \E s, t \in Events : Relate(a, s, t)
    \/ RetractRelation(a)

Next ==
    \/ \E a \in Agents :
        \/ Open(a) \/ Writes(a) \/ Save(a) \/ SaveUnacknowledged(a)
        \/ Fail(a) \/ Abort(a)
    \/ Report
    \/ Restart

Spec == Init /\ [][Next]_vars

-----------------------------------------------------------------------------
(* Properties *)

Rows == [events : SUBSET Events, edges : SUBSET Edges,
         referred : [Agents -> SUBSET Events]]

TypeOK ==
    /\ events \in SUBSET Events
    /\ edges \in SUBSET Edges
    /\ referred \in [Agents -> SUBSET Events]
    /\ cache \in [events : SUBSET Events, edges : SUBSET Edges] \cup {Unread}
    /\ session \in [Agents -> SessionStates]
    /\ inStore \in Rows
    /\ reported \in BOOLEAN
    /\ restarts \in Nat

\* The containments of the store and of the draft together never give an event
\* two parents and never form a circle, whoever has read what before whoever
\* else saved, failed or lost its answer; each call is checked against what the
\* cache and the draft show at that moment only.  (contain, refresh_read_cache)
BookIsForest == Forest(inStore.edges \cup edges)

\* A row that is not in the store belongs to a session that will still save it
\* or take it back: no failure leaves rows behind that nobody answers for.
\* (abort_session, against a thread that writes late)
UnsavedHasAuthor ==
    /\ \A e \in events \ inStore.events : Author(e) \in Unfinished
    /\ \A e \in edges \ inStore.edges : e.by \in Unfinished
    /\ \A a \in Agents :
          referred[a] \notin {{}, inStore.referred[a]} => a \in Unfinished

\* When the last session has ended the report finds nothing to refuse: every
\* row refers to events that are there, and no containment contradicts a
\* stored one, also after sessions failed whose events others had used.
\* (finish, validate_organization, save_diagnosis_events)
ReportIsTaken == Unfinished = {} => Complete
=============================================================================
