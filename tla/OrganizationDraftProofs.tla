---------------------- MODULE OrganizationDraftProofs ----------------------
(* The organisation of a book stays a forest, unsaved rows have an author,  *)
(* and the report is never refused, for any number of executions, events    *)
(* and restarts.                                                            *)
EXTENDS OrganizationDraft, TLAPS

\* What is visible is what there is: rows are missing from the cache only
\* while the draft still shows them.
ReadsAreFresh ==
    cache # Unread =>
        /\ cache.events \subseteq inStore.events
        /\ cache.edges \subseteq inStore.edges
        /\ inStore.events \subseteq cache.events \cup events
        /\ inStore.edges \subseteq cache.edges \cup edges

\* Whatever a stored row refers to is stored.
StoreIsClosed ==
    /\ Ends(inStore.edges) \subseteq inStore.events
    /\ \A a \in Agents : inStore.referred[a] \subseteq inStore.events

\* The store has one containment per child.
StoreAgrees == Agrees(inStore.edges)

OrganizationInv ==
    /\ TypeOK
    /\ ReadsAreFresh
    /\ BookIsForest
    /\ StoreIsClosed
    /\ StoreAgrees
    /\ UnsavedHasAuthor

-----------------------------------------------------------------------------
(* Forests *)

\* Taking containments away leaves a forest.
LEMMA FewerEdges ==
    ASSUME NEW E, NEW F, F \subseteq E, Forest(E)
    PROVE  Forest(F)
<1>1. UniqueParent(F)
    BY DEF Forest, UniqueParent
<1>2. Acyclic(F)
    BY DEF Forest, Acyclic
<1> QED BY <1>1, <1>2 DEF Forest

\* The walk along the parents that contain() makes is enough: a set of events
\* that the new edge would close would lie above the new parent.
LEMMA OneMoreEdge ==
    ASSUME NEW E, NEW p, NEW c, NEW a,
           Forest(E),
           \A e \in E : e.child = c => e.parent = p,
           ~Below(p, c, E)
    PROVE  Forest(E \cup {[parent |-> p, child |-> c, by |-> a]})
<1> DEFINE x == [parent |-> p, child |-> c, by |-> a]
<1>x. x.parent = p /\ x.child = c
    OBVIOUS
<1> HIDE DEF x
<1>1. UniqueParent(E \cup {x})
    BY <1>x DEF Forest, UniqueParent
<1>2. Acyclic(E \cup {x})
    <2> SUFFICES ASSUME NEW T \in SUBSET Events, T # {}
                 PROVE  \E d \in T : \A e \in E \cup {x} :
                            e.child = d => e.parent \notin T
        BY DEF Acyclic
    <2>1. PICK S \in SUBSET Events :
                /\ p \in S
                /\ \A e \in E : e.child \in S => e.parent \in S
                /\ c \notin S
        BY DEF Below
    <2>2. CASE p \in T
        <3>1. T \cap S # {} /\ T \cap S \in SUBSET Events
            BY <2>1, <2>2
        <3>2. PICK d \in T \cap S :
                    \A e \in E : e.child = d => e.parent \notin T \cap S
            BY <3>1 DEF Forest, Acyclic
        <3>3. \A e \in E : e.child = d => e.parent \notin T
            BY <3>2, <2>1
        <3>4. x.child # d
            BY <3>2, <2>1, <1>x
        <3> QED BY <3>2, <3>3, <3>4
    <2>3. CASE p \notin T
        <3>1. PICK d \in T : \A e \in E : e.child = d => e.parent \notin T
            BY DEF Forest, Acyclic
        <3> QED BY <3>1, <2>3, <1>x
    <2> QED BY <2>2, <2>3
<1> QED BY <1>1, <1>2 DEF Forest, x

\* The cache hides nothing and invents nothing.
LEMMA SeenIsThere ==
    ASSUME ReadsAreFresh
    PROVE  /\ Visible = inStore.events \cup events
           /\ VisibleEdges = inStore.edges \cup edges
<1>1. CASE cache = Unread
    BY <1>1 DEF Visible, VisibleEdges, View, StoredView
<1>2. CASE cache # Unread
    BY <1>2 DEF ReadsAreFresh, Visible, VisibleEdges, View
<1> QED BY <1>1, <1>2

-----------------------------------------------------------------------------
(* Initial states *)

LEMMA OrganizationInit == Init => OrganizationInv
<1> SUFFICES ASSUME Init PROVE OrganizationInv
    OBVIOUS
<1> USE Identities, NotedIsForest DEF Init
<1> DEFINE C == Contained(NotedEdges)
<1>1. C \in SUBSET Edges
    BY DEF Contained, Edges, Producers, Events
<1>2. \A e \in C : \E q \in NotedEdges : e.parent = q[1] /\ e.child = q[2]
                       /\ e = [parent |-> q[1], child |-> q[2], by |-> Annotation]
    BY DEF Contained
<1>3. TypeOK
    BY <1>1 DEF TypeOK, Rows, SessionStates, Events
<1>4. ReadsAreFresh
    BY DEF ReadsAreFresh
<1>5. UniqueParent(C) /\ \A e, f \in C : e.child = f.child => e = f
    BY <1>2 DEF UniqueParent
<1>6. BookIsForest
    BY <1>5 DEF BookIsForest, Forest
<1>7. Ends(C) \subseteq Noted
    BY <1>2 DEF Ends
<1>8. StoreIsClosed
    BY <1>7 DEF StoreIsClosed
<1>9. StoreAgrees
    BY <1>5 DEF StoreAgrees, Agrees
<1>10. UnsavedHasAuthor
    BY DEF UnsavedHasAuthor
<1> QED BY <1>3, <1>4, <1>6, <1>8, <1>9, <1>10 DEF OrganizationInv

-----------------------------------------------------------------------------
(* Steps *)

LEMMA TypeStep == OrganizationInv /\ [Next]_vars => TypeOK'
<1> SUFFICES ASSUME OrganizationInv, [Next]_vars PROVE TypeOK'
    OBVIOUS
<1> USE DEF OrganizationInv, TypeOK, SessionStates
<1>v. View \in [events : SUBSET Events, edges : SUBSET Edges]
    BY DEF View, StoredView, Rows
<1>1. ASSUME NEW a \in Agents, Open(a) PROVE TypeOK'
    BY <1>1 DEF Open
<1>2. ASSUME NEW a \in Agents, Read(a) PROVE TypeOK'
    BY <1>2, <1>v DEF Read
<1>3. ASSUME NEW a \in Agents, NEW k \in Keys, WriteEvent(a, k) PROVE TypeOK'
    <2>1. <<a, k>> \in Events
        BY DEF Events
    <2> QED BY <2>1, <1>3 DEF WriteEvent
<1>4. ASSUME NEW a \in Agents, NEW p \in Events, NEW c \in Events, Contain(a, p, c)
      PROVE TypeOK'
    <2>1. [parent |-> p, child |-> c, by |-> a] \in Edges
        BY DEF Edges, Producers
    <2> QED BY <2>1, <1>4, <1>v DEF Contain
<1>5. ASSUME NEW a \in Agents, NEW p \in Events, NEW c \in Events,
             RetractContainment(a, p, c)
      PROVE TypeOK'
    BY <1>5 DEF RetractContainment
<1>6. ASSUME NEW a \in Agents, NEW s \in Events, NEW t \in Events, Relate(a, s, t)
      PROVE TypeOK'
    BY <1>6, <1>v DEF Relate
<1>7. ASSUME NEW a \in Agents, RetractRelation(a) PROVE TypeOK'
    BY <1>7 DEF RetractRelation
<1>8. ASSUME NEW a \in Agents PROVE Stored(a) \in Rows
    BY DEF Stored, Rows, OwnEvents, OwnEdges
<1>9. ASSUME NEW a \in Agents, Save(a) PROVE TypeOK'
    BY <1>8, <1>9 DEF Save
<1>10. ASSUME NEW a \in Agents, SaveUnacknowledged(a) PROVE TypeOK'
    BY <1>8, <1>10 DEF SaveUnacknowledged
<1>11. ASSUME NEW a \in Agents, Fail(a) PROVE TypeOK'
    BY <1>11 DEF Fail
<1>12. ASSUME NEW a \in Agents, Abort(a) PROVE TypeOK'
    BY <1>12 DEF Abort, OwnEvents, OwnEdges
<1>13. CASE Report
    <2>1. inStore' \in Rows
        BY <1>13 DEF Report, Rows
    <2> QED BY <2>1, <1>13, <1>v DEF Report
<1>14. CASE Restart
    BY <1>14 DEF Restart, Rows
<1>15. CASE UNCHANGED vars
    BY <1>15 DEF vars
<1> QED
    BY <1>1, <1>2, <1>3, <1>4, <1>5, <1>6, <1>7, <1>9, <1>10, <1>11, <1>12,
       <1>13, <1>14, <1>15 DEF Next, Writes

\* What a save adds to the store the draft holds already.
LEMMA SavedIsDrafted ==
    ASSUME OrganizationInv, NEW a \in Agents, Storable(a)
    PROVE  /\ inStore.events \subseteq Stored(a).events
           /\ inStore.edges \subseteq Stored(a).edges
           /\ Stored(a).events \subseteq inStore.events \cup events
           /\ Stored(a).edges \subseteq inStore.edges \cup edges
           /\ Ends(Stored(a).edges) \subseteq Stored(a).events
           /\ \A b \in Agents : Stored(a).referred[b] \subseteq Stored(a).events
           /\ Agrees(OwnEdges(a))
           /\ \A e, f \in Stored(a).edges : e.child = f.child => e = f
<1> USE DEF Stored, OwnEvents, OwnEdges
<1>1. Agrees(OwnEdges(a)) /\ RefersTo(a) \subseteq inStore.events \cup events
    BY DEF Storable
<1>2. Ends(OwnEdges(a)) \subseteq Stored(a).events
    BY <1>1 DEF RefersTo
<1>3. Ends(Stored(a).edges) \subseteq Stored(a).events
    BY <1>2 DEF Ends, OrganizationInv, StoreIsClosed
<1>4. \A b \in Agents : Stored(a).referred[b] \subseteq Stored(a).events
    BY <1>1 DEF RefersTo, OrganizationInv, StoreIsClosed, TypeOK, Rows
<1>5. ASSUME NEW e \in OwnEdges(a), NEW f \in OwnEdges(a), e.child = f.child
      PROVE  e = f
    <2>1. e.parent = f.parent /\ e.by = f.by
        BY <1>5 DEF OrganizationInv, BookIsForest, Forest, UniqueParent
    <2>2. e \in Edges /\ f \in Edges
        BY DEF OrganizationInv, TypeOK
    <2> QED BY <2>1, <2>2, <1>5 DEF Edges
<1>6. \A e, f \in Stored(a).edges : e.child = f.child => e = f
    BY <1>1, <1>5 DEF Agrees, OrganizationInv, StoreAgrees
<1> QED BY <1>1, <1>3, <1>4, <1>6

\* A report finds everything stored already.
LEMMA NothingUnsaved ==
    ASSUME OrganizationInv, Unfinished = {}
    PROVE  /\ events \subseteq inStore.events
           /\ edges \subseteq inStore.edges
           /\ \A a \in Agents : referred[a] \in {{}, inStore.referred[a]}
BY DEF OrganizationInv, UnsavedHasAuthor

LEMMA ReportAddsNothing ==
    ASSUME OrganizationInv, Report
    PROVE  /\ inStore'.events = inStore.events
           /\ inStore'.edges = inStore.edges
           /\ \A a \in Agents : inStore'.referred[a] = inStore.referred[a]
<1>1. Unfinished = {}
    BY DEF Report
<1>2. inStore'.events = inStore.events \cup events
      /\ inStore'.edges = inStore.edges \cup edges
    BY DEF Report
<1>3. \A a \in Agents : inStore'.referred[a] =
          IF referred[a] = {} THEN inStore.referred[a] ELSE referred[a]
    BY DEF Report
<1> QED BY <1>1, <1>2, <1>3, NothingUnsaved

LEMMA FreshStep == OrganizationInv /\ [Next]_vars => ReadsAreFresh'
<1> SUFFICES ASSUME OrganizationInv, [Next]_vars PROVE ReadsAreFresh'
    OBVIOUS
<1> USE DEF ReadsAreFresh
<1>0. ReadsAreFresh
    BY DEF OrganizationInv
<1>v. /\ View.events \subseteq inStore.events
      /\ View.edges \subseteq inStore.edges
      /\ inStore.events \subseteq View.events \cup events
      /\ inStore.edges \subseteq View.edges \cup edges
    BY <1>0 DEF View, StoredView
<1>1. ASSUME NEW a \in Agents, Open(a) PROVE ReadsAreFresh'
    BY <1>0, <1>1 DEF Open
<1>2. ASSUME NEW a \in Agents, Read(a) PROVE ReadsAreFresh'
    BY <1>v, <1>2 DEF Read
<1>3. ASSUME NEW a \in Agents, NEW k \in Keys, WriteEvent(a, k) PROVE ReadsAreFresh'
    BY <1>0, <1>3 DEF WriteEvent
<1>4. ASSUME NEW a \in Agents, NEW p \in Events, NEW c \in Events, Contain(a, p, c)
      PROVE ReadsAreFresh'
    BY <1>v, <1>4 DEF Contain
<1>5. ASSUME NEW a \in Agents, NEW p \in Events, NEW c \in Events,
             RetractContainment(a, p, c)
      PROVE ReadsAreFresh'
    <2>1. [parent |-> p, child |-> c, by |-> a] \notin inStore.edges
        BY <1>5 DEF RetractContainment
    <2> QED BY <2>1, <1>0, <1>5 DEF RetractContainment
<1>6. ASSUME NEW a \in Agents, NEW s \in Events, NEW t \in Events, Relate(a, s, t)
      PROVE ReadsAreFresh'
    BY <1>v, <1>6 DEF Relate
<1>7. ASSUME NEW a \in Agents, RetractRelation(a) PROVE ReadsAreFresh'
    BY <1>0, <1>7 DEF RetractRelation
<1>8. ASSUME NEW a \in Agents, Save(a) PROVE ReadsAreFresh'
    BY <1>8 DEF Save
<1>9. ASSUME NEW a \in Agents, SaveUnacknowledged(a) PROVE ReadsAreFresh'
    BY <1>0, <1>9, SavedIsDrafted DEF SaveUnacknowledged
<1>10. ASSUME NEW a \in Agents, Fail(a) PROVE ReadsAreFresh'
    BY <1>0, <1>10 DEF Fail
<1>11. ASSUME NEW a \in Agents, Abort(a) PROVE ReadsAreFresh'
    BY <1>11 DEF Abort
<1>12. CASE Report
    <2>1. cache' = View /\ events' = events /\ edges' = edges
        BY <1>12 DEF Report
    <2> QED BY <2>1, <1>v, <1>12, ReportAddsNothing
<1>13. CASE Restart
    BY <1>13 DEF Restart
<1>14. CASE UNCHANGED vars
    BY <1>0, <1>14 DEF vars
<1> QED
    BY <1>1, <1>2, <1>3, <1>4, <1>5, <1>6, <1>7, <1>8, <1>9, <1>10, <1>11,
       <1>12, <1>13, <1>14 DEF Next, Writes

LEMMA ForestStep == OrganizationInv /\ [Next]_vars => BookIsForest'
<1> SUFFICES ASSUME OrganizationInv, [Next]_vars PROVE BookIsForest'
    OBVIOUS
<1> DEFINE All == inStore.edges \cup edges
<1>0. Forest(All)
    BY DEF OrganizationInv, BookIsForest
<1>s. ASSUME All' \subseteq All PROVE BookIsForest'
    <2>1. Forest(All')
        BY <1>0, <1>s, FewerEdges
    <2> QED BY <2>1 DEF BookIsForest, Forest, UniqueParent, Acyclic
<1>1. ASSUME NEW a \in Agents, Open(a) PROVE BookIsForest'
    BY <1>s, <1>1 DEF Open
<1>2. ASSUME NEW a \in Agents, Read(a) PROVE BookIsForest'
    BY <1>s, <1>2 DEF Read
<1>3. ASSUME NEW a \in Agents, NEW k \in Keys, WriteEvent(a, k) PROVE BookIsForest'
    BY <1>s, <1>3 DEF WriteEvent
<1>4. ASSUME NEW a \in Agents, NEW p \in Events, NEW c \in Events, Contain(a, p, c)
      PROVE BookIsForest'
    <2> DEFINE x == [parent |-> p, child |-> c, by |-> a]
    <2>1. VisibleEdges = All
        BY SeenIsThere DEF OrganizationInv
    <2>2. Forest(All \cup {x})
        BY <1>0, <1>4, <2>1, OneMoreEdge DEF Contain
    <2>3. All' = All \cup {x}
        BY <1>4 DEF Contain
    <2> QED BY <2>2, <2>3 DEF BookIsForest, Forest, UniqueParent, Acyclic
<1>5. ASSUME NEW a \in Agents, NEW p \in Events, NEW c \in Events,
             RetractContainment(a, p, c)
      PROVE BookIsForest'
    BY <1>s, <1>5 DEF RetractContainment
<1>6. ASSUME NEW a \in Agents, NEW s \in Events, NEW t \in Events, Relate(a, s, t)
      PROVE BookIsForest'
    BY <1>s, <1>6 DEF Relate
<1>7. ASSUME NEW a \in Agents, RetractRelation(a) PROVE BookIsForest'
    BY <1>s, <1>7 DEF RetractRelation
<1>8. ASSUME NEW a \in Agents, Save(a) PROVE BookIsForest'
    BY <1>s, <1>8, SavedIsDrafted DEF Save
<1>9. ASSUME NEW a \in Agents, SaveUnacknowledged(a) PROVE BookIsForest'
    BY <1>s, <1>9, SavedIsDrafted DEF SaveUnacknowledged
<1>10. ASSUME NEW a \in Agents, Fail(a) PROVE BookIsForest'
    BY <1>s, <1>10 DEF Fail
<1>11. ASSUME NEW a \in Agents, Abort(a) PROVE BookIsForest'
    BY <1>s, <1>11 DEF Abort
<1>12. CASE Report
    <2>1. edges' = edges
        BY <1>12 DEF Report
    <2> QED BY <1>s, <2>1, <1>12, ReportAddsNothing
<1>13. CASE Restart
    BY <1>s, <1>13 DEF Restart
<1>14. CASE UNCHANGED vars
    BY <1>s, <1>14 DEF vars
<1> QED
    BY <1>1, <1>2, <1>3, <1>4, <1>5, <1>6, <1>7, <1>8, <1>9, <1>10, <1>11,
       <1>12, <1>13, <1>14 DEF Next, Writes

\* Only saves and the report write to the store.
LEMMA StoreStep == OrganizationInv /\ [Next]_vars => StoreIsClosed' /\ StoreAgrees'
<1> SUFFICES ASSUME OrganizationInv, [Next]_vars PROVE StoreIsClosed' /\ StoreAgrees'
    OBVIOUS
<1>0. StoreIsClosed /\ StoreAgrees
    BY DEF OrganizationInv
<1> USE DEF StoreIsClosed, StoreAgrees, Agrees, Ends
<1>1. CASE inStore' = inStore
    BY <1>0, <1>1
<1>2. ASSUME NEW a \in Agents, Storable(a), inStore' = Stored(a)
      PROVE  StoreIsClosed' /\ StoreAgrees'
    BY <1>2, SavedIsDrafted
<1>3. CASE Report
    BY <1>0, <1>3, ReportAddsNothing
<1>4. inStore' = inStore \/ Report
          \/ \E a \in Agents : Storable(a) /\ inStore' = Stored(a)
    BY ZenonT(60) DEF Next, Writes, vars, Open, Read, WriteEvent, Contain, Relate,
           RetractContainment, RetractRelation, Save, SaveUnacknowledged, Fail,
           Abort, Restart
<1> QED BY <1>1, <1>2, <1>3, <1>4

LEMMA AuthorStep == OrganizationInv /\ [Next]_vars => UnsavedHasAuthor'
<1> SUFFICES ASSUME OrganizationInv, [Next]_vars PROVE UnsavedHasAuthor'
    OBVIOUS
<1>0. UnsavedHasAuthor /\ TypeOK
    BY DEF OrganizationInv
<1> USE DEF UnsavedHasAuthor, Unfinished
<1>1. ASSUME NEW a \in Agents, Open(a) PROVE UnsavedHasAuthor'
    BY <1>0, <1>1 DEF Open, TypeOK
<1>2. ASSUME NEW a \in Agents, Read(a) PROVE UnsavedHasAuthor'
    BY <1>0, <1>2 DEF Read
<1>3. ASSUME NEW a \in Agents, NEW k \in Keys, WriteEvent(a, k) PROVE UnsavedHasAuthor'
    <2>1. Author(<<a, k>>) = a
        BY Identities DEF Author
    <2> QED BY <2>1, <1>0, <1>3 DEF WriteEvent, MayWrite
<1>4. ASSUME NEW a \in Agents, NEW p \in Events, NEW c \in Events, Contain(a, p, c)
      PROVE UnsavedHasAuthor'
    BY <1>0, <1>4 DEF Contain, MayWrite
<1>5. ASSUME NEW a \in Agents, NEW p \in Events, NEW c \in Events,
             RetractContainment(a, p, c)
      PROVE UnsavedHasAuthor'
    BY <1>0, <1>5 DEF RetractContainment
<1>6. ASSUME NEW a \in Agents, NEW s \in Events, NEW t \in Events, Relate(a, s, t)
      PROVE UnsavedHasAuthor'
    BY <1>0, <1>6 DEF Relate, MayWrite, TypeOK
<1>7. ASSUME NEW a \in Agents, RetractRelation(a) PROVE UnsavedHasAuthor'
    BY <1>0, <1>7 DEF RetractRelation, TypeOK
<1>8. ASSUME NEW a \in Agents, inStore' = Stored(a), events' = events,
             edges' = edges, referred' = referred,
             \A b \in Agents \ {a} : session'[b] = session[b]
      PROVE  UnsavedHasAuthor'
    <2>1. ASSUME NEW e \in events \ inStore'.events
          PROVE  Author(e) \in Unfinished'
        BY <2>1, <1>0, <1>8 DEF Stored, OwnEvents
    <2>2. ASSUME NEW e \in edges \ inStore'.edges PROVE e.by \in Unfinished'
        BY <2>2, <1>0, <1>8 DEF Stored, OwnEdges
    <2>3. ASSUME NEW b \in Agents, referred[b] \notin {{}, inStore'.referred[b]}
          PROVE  b \in Unfinished'
        <3>1. inStore'.referred = [inStore.referred EXCEPT ![a] = referred[a]]
            BY <1>8 DEF Stored
        <3>2. inStore.referred \in [Agents -> SUBSET Events]
            BY <1>0 DEF TypeOK, Rows
        <3> QED BY <3>1, <3>2, <2>3, <1>0, <1>8
    <2> QED BY <2>1, <2>2, <2>3, <1>8
<1>9. ASSUME NEW a \in Agents, Save(a) \/ SaveUnacknowledged(a)
      PROVE  UnsavedHasAuthor'
    BY <1>8, <1>9, <1>0 DEF Save, SaveUnacknowledged, TypeOK
<1>10. ASSUME NEW a \in Agents, Fail(a) PROVE UnsavedHasAuthor'
    BY <1>0, <1>10 DEF Fail, TypeOK
<1>11. ASSUME NEW a \in Agents, Abort(a) PROVE UnsavedHasAuthor'
    BY <1>0, <1>11 DEF Abort, OwnEvents, OwnEdges, TypeOK
<1>12. CASE Report
    <2>1. events' = events /\ edges' = edges /\ referred' = referred
          /\ session' = session
        BY <1>12 DEF Report
    <2> QED BY <2>1, <1>0, <1>12, ReportAddsNothing
<1>13. CASE Restart
    BY <1>13 DEF Restart
<1>14. CASE UNCHANGED vars
    BY <1>0, <1>14 DEF vars
<1> QED
    BY <1>1, <1>2, <1>3, <1>4, <1>5, <1>6, <1>7, <1>9, <1>10, <1>11, <1>12,
       <1>13, <1>14 DEF Next, Writes

-----------------------------------------------------------------------------
(* Theorems *)

\* Draft, cache, store and sessions agree in every state.
THEOREM OrganizationSound == Spec => []OrganizationInv
<1>1. OrganizationInv /\ [Next]_vars => OrganizationInv'
    BY TypeStep, FreshStep, ForestStep, StoreStep, AuthorStep DEF OrganizationInv
<1> QED BY OrganizationInit, <1>1, PTL DEF Spec

\* The draft, the store and the sessions keep their types.
THEOREM OrganizationTypes == Spec => []TypeOK
<1>1. OrganizationInv => TypeOK
    BY DEF OrganizationInv
<1> QED BY OrganizationSound, <1>1, PTL

\* No event ever has two parents or contains itself, however reads, writes,
\* saves, failures and restarts of any number of sessions interleave.
THEOREM AlwaysForest == Spec => []BookIsForest
<1>1. OrganizationInv => BookIsForest
    BY DEF OrganizationInv
<1> QED BY OrganizationSound, <1>1, PTL

\* No failure leaves rows in the draft that nobody saves or takes back.
THEOREM UnsavedIsOwned == Spec => []UnsavedHasAuthor
<1>1. OrganizationInv => UnsavedHasAuthor
    BY DEF OrganizationInv
<1> QED BY OrganizationSound, <1>1, PTL

\* Once no session is at work the report is accepted.
THEOREM ReportAlwaysTaken == Spec => []ReportIsTaken
<1>1. OrganizationInv => ReportIsTaken
    <2> SUFFICES ASSUME OrganizationInv, Unfinished = {} PROVE Complete
        BY DEF ReportIsTaken
    <2>1. /\ events \subseteq inStore.events
          /\ edges \subseteq inStore.edges
          /\ \A a \in Agents : referred[a] \in {{}, inStore.referred[a]}
        BY NothingUnsaved
    <2>2. /\ Visible = inStore.events \cup events
          /\ VisibleEdges = inStore.edges
        BY <2>1, SeenIsThere DEF OrganizationInv
    <2>3. Ends(VisibleEdges) \subseteq Visible
        BY <2>2 DEF OrganizationInv, StoreIsClosed
    <2>4. \A a \in Agents : referred[a] \subseteq inStore.events \cup events
        BY <2>1 DEF OrganizationInv, StoreIsClosed
    <2>5. Forest(VisibleEdges)
        <3>1. inStore.edges \cup edges = inStore.edges
            BY <2>1
        <3> QED BY <2>2, <3>1 DEF OrganizationInv, BookIsForest
    <2>6. Agrees(edges)
        BY <2>1 DEF OrganizationInv, StoreAgrees, Agrees
    <2> QED BY <2>3, <2>4, <2>5, <2>6 DEF Complete
<1> QED BY OrganizationSound, <1>1, PTL
=============================================================================
