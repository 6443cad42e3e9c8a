----------------------- MODULE DiagnosisSessionsProofs -----------------------
(***************************************************************************)
(* Proofs about the diagnosis of a run.  The first part is about control:  *)
(* sessions, executions and seats, whatever becomes of the cases; the      *)
(* second says, field by field, what the methods of the pool do that the   *)
(* sessions call; the third proves the invariant of the cases, in memory   *)
(* and in the store, and the properties.                                   *)
(***************************************************************************)
EXTENDS DiagnosisSessions, FiniteSetTheorems, TLAPS

-----------------------------------------------------------------------------
(* The inductive invariant of the control *)

Working == {"running", "saving", "committed"}

\* The types of what the control is made of, but for the bound of free, which
\* follows from the count of the seats.
ControlTypes ==
    /\ phase \in {"working", "reporting", "done", "failed"}
    /\ failing \in BOOLEAN
    /\ stage \in [All -> Stages]
    /\ who \in [All -> Holder]
    /\ spent \in [All -> BOOLEAN]
    /\ elected \subseteq All
    /\ free \in Nat
    /\ used \subseteq Executions
    /\ restarts \in 0..MaxRestarts

\* A session has an execution of its own exactly while it works.
OneExecutionEach ==
    /\ \A s \in All : who[s] # Nobody <=> stage[s] \in Working
    /\ \A s \in All : who[s] \in used \cup {Nobody}
    /\ \A s, t \in All : (s # t /\ who[s] # Nobody) => who[s] # who[t]

\* Nobody holds a seat and is elected again, and no seat is lost or made.
SeatsCount ==
    /\ elected \cap Holding = {}
    /\ IsFiniteSet(elected)
    /\ IsFiniteSet(Holding)
    /\ free + Cardinality(elected) + Cardinality(Holding) = Seats

\* The report waits for the cases, and nothing is cancelled before a failure.
ReportIsAlone ==
    /\ stage[Report] # "committed"
    /\ phase = "working" => stage[Report] = "none"
    /\ phase = "reporting" => \A s \in Slots : stage[s] = "none"
    /\ \A s \in All : stage[s] \in {"cancelled", "unread", "stranded"} => failing

ControlInv == ControlTypes /\ OneExecutionEach /\ SeatsCount /\ ReportIsAlone

-----------------------------------------------------------------------------
(* Seats *)

\* Arithmetic of the counts.
LEMMA Less ==
    ASSUME NEW a \in Nat, NEW b \in Nat, NEW c \in Nat,
           NEW d \in Nat, a + b + c = d
    PROVE  /\ b # 0 => (a + 1) + (b - 1) + c = d
           /\ c # 0 => (a + 1) + b + (c - 1) = d
           /\ (b # 0 => a + (b - 1) + (c + 1) = d)
           /\ (a > 0 => (a - 1) + (b + 1) + c = d /\ a - 1 \in Nat)
           /\ a \in 0..d
OBVIOUS

\* A member less is one less to count.
LEMMA CountLess ==
    ASSUME NEW S, NEW x \in S, IsFiniteSet(S)
    PROVE  /\ IsFiniteSet(S \ {x})
           /\ Cardinality(S \ {x}) = Cardinality(S) - 1
           /\ Cardinality(S) # 0
           /\ Cardinality(S) \in Nat
<1>1. Cardinality(S) \in Nat
  BY FS_CardinalityType
<1>2. IsFiniteSet(S \ {x}) /\ Cardinality(S \ {x}) = Cardinality(S) - 1
  BY FS_RemoveElement
<1>3. Cardinality(S \ {x}) \in Nat
  BY <1>2, FS_CardinalityType
<1>4. QED
  BY <1>1, <1>2, <1>3

\* A new member is one more to count.
LEMMA CountMore ==
    ASSUME NEW S, NEW x, x \notin S, IsFiniteSet(S)
    PROVE  /\ IsFiniteSet(S \cup {x})
           /\ Cardinality(S \cup {x}) = Cardinality(S) + 1
           /\ Cardinality(S) \in Nat
BY FS_AddElement, FS_CardinalityType

\* As long as nobody takes or leaves a seat, the count stands.
LEMMA SeatsStand ==
    ASSUME ControlTypes, SeatsCount, free' = free, elected' = elected,
           Holding' = Holding
    PROVE  SeatsCount'
BY DEF SeatsCount

\* An assignment in the mail is no seat, and a session that ends leaves one.
LEMMA SeatLeft ==
    ASSUME ControlTypes, SeatsCount, NEW s \in Holding,
           free' = free + 1, elected' = elected, Holding' = Holding \ {s}
    PROVE  SeatsCount'
<1>1. /\ IsFiniteSet(Holding \ {s})
      /\ Cardinality(Holding \ {s}) = Cardinality(Holding) - 1
      /\ Cardinality(Holding) # 0
      /\ Cardinality(Holding) \in Nat
  BY CountLess DEF SeatsCount
<1>2. Cardinality(elected) \in Nat /\ free \in Nat /\ Seats \in Nat
  BY FS_CardinalityType, DiagnosisAssumption DEF SeatsCount, ControlTypes
<1>3. (free + 1) + Cardinality(elected) + (Cardinality(Holding) - 1) = Seats
  BY <1>1, <1>2, Less DEF SeatsCount
<1>4. free' + Cardinality(elected') + Cardinality(Holding') = Seats
  BY <1>1, <1>3
<1>5. elected' \cap Holding' = {}
  BY DEF SeatsCount
<1>6. QED
  BY <1>1, <1>4, <1>5 DEF SeatsCount

-----------------------------------------------------------------------------
(* The steps of the control *)

\* The attempt of a session ends: it goes, or it waits again.
LEMMA EndedStep ==
    ASSUME ControlInv, NEW s \in All, NEW to \in {"none", "again"},
           stage[s] \in Seated,
           stage' = [stage EXCEPT ![s] = to],
           who' = [who EXCEPT ![s] = Nobody],
           spent' \in [All -> BOOLEAN],
           free' = free + 1,
           elected' = elected, used' = used, restarts' = restarts,
           failing' = failing \/ failing' = TRUE,
           phase' = phase \/ phase' = "done"
    PROVE  ControlInv'
<1>1. ControlTypes'
  <2>1. stage' \in [All -> Stages]
    BY DEF ControlInv, ControlTypes, Stages
  <2>2. who' \in [All -> Holder]
    BY DEF ControlInv, ControlTypes, Holder
  <2>3. free' \in Nat
    BY DEF ControlInv, ControlTypes
  <2>4. QED
    BY <2>1, <2>2, <2>3 DEF ControlInv, ControlTypes
<1>2. OneExecutionEach'
  BY DEF ControlInv, ControlTypes, OneExecutionEach, Working, Holder
<1>3. SeatsCount'
  <2>1. s \in Holding
    BY DEF Holding
  <2>2. Holding' = Holding \ {s}
    BY DEF Holding, Seated, ControlInv, ControlTypes
  <2>3. QED
    BY <2>1, <2>2, SeatLeft DEF ControlInv
<1>4. ReportIsAlone'
  <2>1. s = Report => phase # "working"
    BY DEF ControlInv, ReportIsAlone, Seated
  <2>2. stage'[Report] # "committed" /\ (phase = "working" => stage'[Report] = "none")
    BY <2>1 DEF ControlInv, ControlTypes, ReportIsAlone, All
  <2>3. phase = "reporting" => \A t \in Slots : stage'[t] = "none"
    BY DEF ControlInv, ControlTypes, ReportIsAlone, All, Seated
  <2>4. \A t \in All : stage'[t] \in {"cancelled", "unread", "stranded"} => failing'
    BY DEF ControlInv, ControlTypes, ReportIsAlone
  <2>5. QED
    BY <2>2, <2>3, <2>4 DEF ReportIsAlone
<1>5. QED
  BY <1>1, <1>2, <1>3, <1>4 DEF ControlInv

\* A session that works goes on with its work.
LEMMA MovedStep ==
    ASSUME ControlInv, NEW s \in All, NEW to \in {"saving", "committed"},
           Running,
           stage[s] \in Working, stage' = [stage EXCEPT ![s] = to],
           s = Report => to # "committed",
           who' = who, spent' \in [All -> BOOLEAN], free' = free,
           elected' = elected, used' = used, restarts' = restarts,
           failing' = failing, phase' = phase
    PROVE  ControlInv'
<1>1. ControlTypes'
  BY DEF ControlInv, ControlTypes, Stages
<1>2. OneExecutionEach'
  BY DEF ControlInv, ControlTypes, OneExecutionEach, Working
<1>3. SeatsCount'
  <2>1. Holding' = Holding
    BY DEF Holding, Seated, Working, ControlInv, ControlTypes
  <2>2. QED
    BY <2>1, SeatsStand DEF ControlInv
<1>4. ReportIsAlone'
  BY DEF ControlInv, ControlTypes, ReportIsAlone, All, Working
<1>5. QED
  BY <1>1, <1>2, <1>3, <1>4 DEF ControlInv

\* A session begins with an execution nobody has used.
LEMMA BegunControl ==
    ASSUME ControlInv, NEW s \in All, NEW e \in Executions, Begin(s, e)
    PROVE  ControlInv'
<1>1. /\ stage[s] = "granted" /\ stage' = [stage EXCEPT ![s] = "running"]
      /\ e \notin used /\ e # Nobody
      /\ who' = [who EXCEPT ![s] = e] /\ used' = used \cup {e}
      /\ UNCHANGED <<phase, failing, spent, elected, free, restarts>>
  BY CasePoolAssumption DEF Begin, Enters
<1>2. ControlTypes'
  BY <1>1 DEF ControlInv, ControlTypes, Stages, Holder
<1>3. OneExecutionEach'
  <2>1. \A t \in All : who'[t] = IF t = s THEN e ELSE who[t]
    BY <1>1 DEF ControlInv, ControlTypes
  <2>2. \A t \in All : stage'[t] = IF t = s THEN "running" ELSE stage[t]
    BY <1>1 DEF ControlInv, ControlTypes
  <2>3. \A t \in All : who[t] # e
    BY <1>1 DEF ControlInv, OneExecutionEach
  <2>4. QED
    BY <1>1, <2>1, <2>2, <2>3 DEF ControlInv, OneExecutionEach, Working
<1>4. SeatsCount'
  <2>1. Holding' = Holding
    BY <1>1 DEF Holding, Seated, ControlInv, ControlTypes
  <2>2. QED
    BY <1>1, <2>1, SeatsStand DEF ControlInv
<1>5. ReportIsAlone'
  BY <1>1 DEF ControlInv, ControlTypes, ReportIsAlone, All
<1>6. QED
  BY <1>2, <1>3, <1>4, <1>5 DEF ControlInv

\* A session that waits, or does not exist, changes its place: it holds
\* nothing before and after.
LEMMA WaitingStep ==
    ASSUME ControlInv,
           stage' \in [All -> Stages],
           \A s \in All : \/ stage'[s] = stage[s]
                          \/ /\ stage[s] \notin Seated
                             /\ stage'[s] \notin Seated,
           ReportIsAlone', phase' \in {"working", "reporting", "done", "failed"},
           failing' \in BOOLEAN,
           UNCHANGED <<who, spent, free, elected, used, restarts>>
    PROVE  ControlInv'
<1>1. ControlTypes'
  BY DEF ControlInv, ControlTypes
<1>2. OneExecutionEach'
  BY DEF ControlInv, ControlTypes, OneExecutionEach, Working, Seated
<1>3. SeatsCount'
  <2>1. Holding' = Holding
    BY DEF Holding, ControlInv, ControlTypes
  <2>2. QED
    BY <2>1, SeatsStand DEF ControlInv
<1>4. QED
  BY <1>1, <1>2, <1>3 DEF ControlInv

LEMMA SpawnControl == ControlInv /\ Spawn => ControlInv'
<1> SUFFICES ASSUME ControlInv, Spawn PROVE ControlInv'
  OBVIOUS
<1>1. PICK fresh \in SUBSET {s \in Slots \ (Waiting \cup elected) : stage[s] = "none"} :
         stage' = [s \in All |-> IF s \in fresh THEN "asking" ELSE stage[s]]
  BY DEF Spawn
<1>2. /\ phase = "working" /\ ~failing
      /\ UNCHANGED <<phase, failing, who, spent, elected, free, used, restarts>>
  BY DEF Spawn
<1>3. \A s \in All : stage'[s] = IF s \in fresh THEN "asking" ELSE stage[s]
  BY <1>1
<1>4. stage' \in [All -> Stages]
  BY <1>1 DEF ControlInv, ControlTypes, Stages
<1>5. Report \notin fresh /\ Report \in All
  BY <1>1, DiagnosisAssumption DEF All
<1>6. ReportIsAlone'
  BY <1>1, <1>2, <1>3, <1>5 DEF ControlInv, ControlTypes, ReportIsAlone
<1>7. \A s \in All : \/ stage'[s] = stage[s]
                     \/ stage[s] = "none" /\ stage'[s] = "asking"
  BY <1>1, <1>3
<1>8. QED
  BY <1>2, <1>4, <1>6, <1>7, WaitingStep DEF ControlInv, ControlTypes, Seated

LEMMA ReportBeginsControl == ControlInv /\ ReportBegins => ControlInv'
<1> SUFFICES ASSUME ControlInv, ReportBegins PROVE ControlInv'
  OBVIOUS
<1>1. /\ phase' = "reporting" /\ ~failing /\ Active = {}
      /\ stage' = [stage EXCEPT ![Report] = "asking"]
      /\ UNCHANGED <<failing, who, spent, elected, free, used, restarts>>
  BY DEF ReportBegins
<1>2. \A s \in All : stage[s] = "none"
  BY <1>1 DEF Active, ControlInv, ReportIsAlone
<1>3. Report \in All /\ Slots \subseteq All /\ Report \notin Slots
  BY DiagnosisAssumption DEF All
<1>4. ReportIsAlone'
  BY <1>1, <1>2, <1>3 DEF ControlInv, ControlTypes, ReportIsAlone
<1>5. stage' \in [All -> Stages]
  BY <1>1 DEF ControlInv, ControlTypes, Stages
<1>6. \A s \in All : \/ stage'[s] = stage[s]
                     \/ stage[s] = "none" /\ stage'[s] = "asking"
  BY <1>1, <1>2 DEF ControlInv, ControlTypes
<1>7. QED
  BY <1>1, <1>4, <1>5, <1>6, WaitingStep DEF ControlInv, ControlTypes, Seated

LEMMA ElectControl ==
    ASSUME ControlInv, NEW s \in All, Elect(s)
    PROVE  ControlInv'
<1>1. /\ s \notin Holding /\ s \notin elected /\ free > 0
      /\ free' = free - 1 /\ elected' = elected \cup {s}
      /\ UNCHANGED <<phase, failing, stage, who, spent, used, restarts>>
  BY DEF Elect
<1>2. /\ IsFiniteSet(elected \cup {s})
      /\ Cardinality(elected \cup {s}) = Cardinality(elected) + 1
      /\ Cardinality(elected) \in Nat
  BY <1>1, CountMore DEF ControlInv, SeatsCount
<1>3. Cardinality(Holding) \in Nat /\ free \in Nat /\ Seats \in Nat
  BY FS_CardinalityType, DiagnosisAssumption DEF ControlInv, ControlTypes, SeatsCount
<1>4. /\ (free - 1) + (Cardinality(elected) + 1) + Cardinality(Holding) = Seats
      /\ free - 1 \in Nat
  BY <1>1, <1>2, <1>3, Less DEF ControlInv, SeatsCount
<1>5. Holding' = Holding
  BY <1>1 DEF Holding
<1>6. ControlTypes'
  BY <1>1, <1>4 DEF ControlInv, ControlTypes
<1>7. SeatsCount'
  <2>1. free' + Cardinality(elected') + Cardinality(Holding') = Seats
    BY <1>1, <1>2, <1>4, <1>5
  <2>2. elected' \cap Holding' = {}
    BY <1>1, <1>5 DEF ControlInv, SeatsCount
  <2>3. QED
    BY <1>1, <1>2, <1>5, <2>1, <2>2 DEF ControlInv, SeatsCount
<1>8. OneExecutionEach' /\ ReportIsAlone'
  BY <1>1 DEF ControlInv, OneExecutionEach, ReportIsAlone
<1>9. QED
  BY <1>6, <1>7, <1>8 DEF ControlInv

LEMMA AssignControl ==
    ASSUME ControlInv, NEW s \in All, Assign(s)
    PROVE  ControlInv'
<1>1. /\ s \in elected /\ elected' = elected \ {s}
      /\ UNCHANGED <<phase, failing, who, spent, used, restarts>>
  BY DEF Assign
<1>2. /\ IsFiniteSet(elected \ {s})
      /\ Cardinality(elected \ {s}) = Cardinality(elected) - 1
      /\ Cardinality(elected) # 0
      /\ Cardinality(elected) \in Nat
  BY <1>1, CountLess DEF ControlInv, SeatsCount
<1>3. Cardinality(Holding) \in Nat /\ free \in Nat /\ Seats \in Nat
  BY FS_CardinalityType, DiagnosisAssumption DEF ControlInv, ControlTypes, SeatsCount
<1>4. ASSUME NEW from \in {"queued", "unread"}, NEW to \in {"granted", "stranded"},
             Enters(s, from, to), free' = free, to = "stranded" => from = "unread"
      PROVE  ControlInv'
  <2>1. stage[s] = from /\ stage' = [stage EXCEPT ![s] = to]
    BY <1>4 DEF Enters
  <2>2. Holding' = Holding \cup {s} /\ s \notin Holding
    BY <1>4, <2>1 DEF Holding, Seated, ControlInv, ControlTypes
  <2>3. /\ IsFiniteSet(Holding \cup {s})
        /\ Cardinality(Holding \cup {s}) = Cardinality(Holding) + 1
    BY <2>2, CountMore DEF ControlInv, SeatsCount
  <2>4. free + (Cardinality(elected) - 1) + (Cardinality(Holding) + 1) = Seats
    BY <1>2, <1>3, Less DEF ControlInv, SeatsCount
  <2>5. ControlTypes'
    BY <1>1, <1>4, <2>1 DEF ControlInv, ControlTypes, Stages
  <2>6. OneExecutionEach'
    BY <1>1, <1>4, <2>1 DEF ControlInv, ControlTypes, OneExecutionEach, Working
  <2>7. SeatsCount'
    <3>1. free' + Cardinality(elected') + Cardinality(Holding') = Seats
      BY <1>1, <1>2, <1>4, <2>2, <2>3, <2>4
    <3>2. elected' \cap Holding' = {}
      BY <1>1, <2>2 DEF ControlInv, SeatsCount
    <3>3. QED
      BY <1>1, <1>2, <2>2, <2>3, <3>1, <3>2 DEF SeatsCount
  <2>8. ReportIsAlone'
    BY <1>1, <1>4, <2>1 DEF ControlInv, ControlTypes, ReportIsAlone, All
  <2>9. QED
    BY <2>5, <2>6, <2>7, <2>8 DEF ControlInv
<1>5. CASE Enters(s, "cancelled", "none") /\ free' = free + 1
  <2>1. stage[s] = "cancelled" /\ stage' = [stage EXCEPT ![s] = "none"]
    BY <1>5 DEF Enters
  <2>2. Holding' = Holding
    BY <2>1 DEF Holding, Seated, ControlInv, ControlTypes
  <2>3. (free + 1) + (Cardinality(elected) - 1) + Cardinality(Holding) = Seats
    BY <1>2, <1>3, Less DEF ControlInv, SeatsCount
  <2>4. ControlTypes'
    BY <1>1, <1>5, <2>1 DEF ControlInv, ControlTypes, Stages
  <2>5. OneExecutionEach'
    BY <1>1, <2>1 DEF ControlInv, ControlTypes, OneExecutionEach, Working
  <2>6. SeatsCount'
    <3>1. free' + Cardinality(elected') + Cardinality(Holding') = Seats
      BY <1>1, <1>2, <1>5, <2>2, <2>3
    <3>2. elected' \cap Holding' = {}
      BY <1>1, <2>2 DEF ControlInv, SeatsCount
    <3>3. QED
      BY <1>1, <1>2, <2>2, <3>1, <3>2 DEF ControlInv, SeatsCount
  <2>7. ReportIsAlone'
    BY <1>1, <2>1 DEF ControlInv, ControlTypes, ReportIsAlone, All
  <2>8. QED
    BY <2>4, <2>5, <2>6, <2>7 DEF ControlInv
<1>6. QED
  BY <1>4, <1>5 DEF Assign

\* A session that asks the pool, or is cancelled while it waits, holds nothing
\* before and after.
LEMMA MovedWaiting ==
    ASSUME ControlInv, NEW s \in All, NEW from, NEW to, Enters(s, from, to),
           from \in {"asking", "again", "queued"},
           to \in {"none", "queued"} \/ (to \in {"cancelled", "unread"} /\ failing),
           UNCHANGED <<phase, failing, who, spent, free, elected, used, restarts>>
    PROVE  ControlInv'
<1>1. stage[s] = from /\ stage' = [stage EXCEPT ![s] = to] /\ Running
  BY DEF Enters
<1>2. stage' \in [All -> Stages]
  BY <1>1 DEF ControlInv, ControlTypes, Stages
<1>3. s = Report => phase # "working"
  BY <1>1 DEF ControlInv, ReportIsAlone
<1>4. \A t \in All : stage'[t] = IF t = s THEN to ELSE stage[t]
  BY <1>1 DEF ControlInv, ControlTypes
<1>5. Report \in All /\ Slots \subseteq All
  BY DEF All
<1>6. ReportIsAlone'
  BY <1>1, <1>3, <1>4, <1>5 DEF ControlInv, ReportIsAlone
<1>7. QED
  BY <1>1, <1>2, <1>4, <1>6, WaitingStep DEF ControlInv, ControlTypes, Seated

\* Nothing of the control changes, but for a failure or the end of the stage.
LEMMA StandingStep ==
    ASSUME ControlInv, failing' = failing \/ failing' = TRUE,
           phase' = phase \/ phase' = "failed",
           UNCHANGED <<stage, who, spent, elected, free, used, restarts>>
    PROVE  ControlInv'
<1>1. Holding' = Holding
  BY DEF Holding
<1>2. QED
  BY <1>1 DEF ControlInv, ControlTypes, OneExecutionEach, SeatsCount, ReportIsAlone

LEMMA ResumeControl == ControlInv /\ Resume => ControlInv'
<1> SUFFICES ASSUME ControlInv, Resume PROVE ControlInv'
  OBVIOUS
<1>1. /\ phase' = "working" /\ failing' = FALSE
      /\ stage' = [s \in All |-> "none"] /\ who' = [s \in All |-> Nobody]
      /\ spent' = [s \in All |-> FALSE] /\ elected' = {} /\ free' = Seats
      /\ used' = used /\ restarts < MaxRestarts /\ restarts' = restarts + 1
  BY DEF Resume
<1>2. Holding' = {}
  BY <1>1 DEF Holding, Seated
<1>3. ControlTypes'
  <2>1. stage' \in [All -> Stages] /\ who' \in [All -> Holder]
    BY <1>1 DEF Stages, Holder
  <2>2. restarts' \in 0..MaxRestarts /\ free' \in Nat
    BY <1>1, DiagnosisAssumption DEF ControlInv, ControlTypes
  <2>3. spent' \in [All -> BOOLEAN]
    BY <1>1
  <2>4. QED
    BY <1>1, <2>1, <2>2, <2>3 DEF ControlInv, ControlTypes
<1>4. OneExecutionEach' /\ ReportIsAlone'
  BY <1>1 DEF OneExecutionEach, ReportIsAlone, Working, All
<1>5. SeatsCount'
  <2>1. IsFiniteSet({}) /\ Cardinality({}) = 0
    BY FS_EmptySet
  <2>2. Seats + 0 + 0 = Seats
    BY DiagnosisAssumption
  <2>3. QED
    BY <1>1, <1>2, <2>1, <2>2 DEF SeatsCount
<1>6. QED
  BY <1>3, <1>4, <1>5 DEF ControlInv

LEMMA InitControl == Init => ControlInv
<1> SUFFICES ASSUME Init PROVE ControlInv
  OBVIOUS
<1>1. Holding = {}
  BY DEF Init, Holding, Seated
<1>2. ControlTypes
  <2>1. stage \in [All -> Stages] /\ who \in [All -> Holder]
    BY DEF Init, Stages, Holder
  <2>2. restarts \in 0..MaxRestarts /\ free \in Nat
    BY DiagnosisAssumption DEF Init
  <2>3. spent \in [All -> BOOLEAN]
    BY DEF Init
  <2>4. QED
    BY <2>1, <2>2, <2>3 DEF Init, ControlTypes
<1>3. OneExecutionEach /\ ReportIsAlone
  BY DEF Init, OneExecutionEach, ReportIsAlone, Working, All
<1>4. SeatsCount
  <2>1. IsFiniteSet({}) /\ Cardinality({}) = 0
    BY FS_EmptySet
  <2>2. Seats + 0 + 0 = Seats
    BY DiagnosisAssumption
  <2>3. QED
    BY <1>1, <2>1, <2>2 DEF Init, SeatsCount
<1>5. QED
  BY <1>2, <1>3, <1>4 DEF ControlInv

\* Every step of the stage keeps the control.
LEMMA ControlStep == ControlInv /\ [Next]_vars => ControlInv'
<1> SUFFICES ASSUME ControlInv, [Next]_vars PROVE ControlInv'
  OBVIOUS
<1> USE DEF Seated, Working
<1>1. CASE Spawn
  BY <1>1, SpawnControl
<1>2. CASE ReportBegins
  BY <1>2, ReportBeginsControl
<1>3. ASSUME NEW s \in All, Elect(s) PROVE ControlInv'
  BY <1>3, ElectControl
<1>4. ASSUME NEW s \in All, Call(s) PROVE ControlInv'
  BY <1>4, StandingStep DEF Call
<1>5. ASSUME NEW s \in All, Assign(s) PROVE ControlInv'
  BY <1>5, AssignControl
<1>6. ASSUME NEW s \in All, NEW to \in {"none", "again"}, Ends(s, to),
             stage[s] \in Seated, failing' = failing \/ failing' = TRUE
      PROVE  ControlInv'
  <2>1. /\ stage' = [stage EXCEPT ![s] = to] /\ who' = [who EXCEPT ![s] = Nobody]
        /\ spent' = [spent EXCEPT ![s] = FALSE] /\ free' = free + 1
        /\ UNCHANGED <<elected, used, phase, restarts>>
    BY <1>6 DEF Ends, Released
  <2>2. spent' \in [All -> BOOLEAN]
    BY <2>1 DEF ControlInv, ControlTypes
  <2>3. QED
    BY <1>6, <2>1, <2>2, EndedStep
<1>7. ASSUME NEW s \in All, NothingLeft(s) PROVE ControlInv'
  BY <1>6, <1>7 DEF NothingLeft
<1>8. ASSUME NEW s \in All, BeginFails(s) PROVE ControlInv'
  BY <1>6, <1>8 DEF BeginFails
<1>9. ASSUME NEW s \in All, NEW e \in Executions, Begin(s, e) PROVE ControlInv'
  BY <1>9, BegunControl
<1>10. ASSUME NEW s \in All, Complete(s) PROVE ControlInv'
  <2>1. /\ Running /\ stage[s] = "running" /\ stage' = [stage EXCEPT ![s] = "saving"]
        /\ UNCHANGED <<phase, failing, who, spent, elected, free, used, restarts>>
    BY <1>10 DEF Complete, Enters
  <2>2. QED
    BY <2>1, MovedStep DEF ControlInv, ControlTypes
<1>11. ASSUME NEW s \in All, SpendRounds(s) PROVE ControlInv'
  <2>1. /\ Running /\ stage[s] = "running" /\ stage' = [stage EXCEPT ![s] = "saving"]
        /\ spent' = [spent EXCEPT ![s] = TRUE]
        /\ UNCHANGED <<phase, failing, who, elected, free, used, restarts>>
    BY <1>11 DEF SpendRounds, Enters
  <2>2. spent' \in [All -> BOOLEAN]
    BY <2>1 DEF ControlInv, ControlTypes
  <2>3. QED
    BY <2>1, <2>2, MovedStep
<1>12. ASSUME NEW s \in All, Retry(s) PROVE ControlInv'
  BY <1>6, <1>12 DEF Retry
<1>13. ASSUME NEW s \in All, Fatal(s) PROVE ControlInv'
  BY <1>6, <1>13 DEF Fatal
<1>14. ASSUME NEW s \in All, Commit(s) PROVE ControlInv'
  <2>1. /\ Running /\ stage[s] = "saving" /\ stage' = [stage EXCEPT ![s] = "committed"]
        /\ s \in Slots
        /\ UNCHANGED <<phase, failing, who, spent, elected, free, used, restarts>>
    BY <1>14 DEF Commit, Enters
  <2>2. QED
    BY <2>1, MovedStep, DiagnosisAssumption DEF ControlInv, ControlTypes
<1>15. ASSUME NEW s \in All, CommitUnacknowledged(s) PROVE ControlInv'
  BY <1>6, <1>15 DEF CommitUnacknowledged
<1>16. ASSUME NEW s \in All, Confirm(s) PROVE ControlInv'
  BY <1>6, <1>16 DEF Confirm
<1>17. ASSUME NEW s \in All, StopSession(s) PROVE ControlInv'
  <2>1. CASE Ends(s, "none") /\ stage[s] \in {"granted", "running"} /\ failing' = failing
    BY <1>6, <2>1
  <2>2. ASSUME NEW from \in {"asking", "again", "queued"},
               NEW to \in {"none", "cancelled", "unread"},
               Enters(s, from, to), failing,
               UNCHANGED <<failing, who, spent, free, elected, used, phase, restarts>>
        PROVE  ControlInv'
    BY <2>2, MovedWaiting
  <2>3. \/ Ends(s, "none") /\ stage[s] \in {"granted", "running"} /\ failing' = failing
        \/ /\ \E from \in {"asking", "again", "queued"},
                 to \in {"none", "cancelled", "unread"} : Enters(s, from, to)
           /\ failing
           /\ UNCHANGED <<failing, who, spent, free, elected, used, phase, restarts>>
    BY <1>17 DEF StopSession
  <2>4. QED
    BY <2>1, <2>2, <2>3
<1>18. CASE SaveReport
  <2>1. /\ stage[Report] = "saving"
        /\ phase' = IF failing THEN phase ELSE "done"
        /\ stage' = [stage EXCEPT ![Report] = "none"]
        /\ who' = [who EXCEPT ![Report] = Nobody] /\ free' = free + 1
        /\ UNCHANGED <<failing, spent, elected, used, restarts>>
    BY <1>18 DEF SaveReport
  <2>2. Report \in All
    BY DEF All
  <2>3. spent' \in [All -> BOOLEAN]
    BY <2>1 DEF ControlInv, ControlTypes
  <2>4. QED
    BY <2>1, <2>2, <2>3, EndedStep
<1>19. CASE Cancel
  BY <1>19, StandingStep DEF Cancel
<1>20. CASE StageFails
  BY <1>20, StandingStep DEF StageFails
<1>21. CASE Resume
  BY <1>21, ResumeControl
<1>22. CASE UNCHANGED vars
  BY <1>22, StandingStep DEF vars
<1>23. CASE Publish
  BY <1>23, StandingStep DEF Publish
<1>24. ASSUME NEW s \in All, Ask(s) PROVE ControlInv'
  <2>1. PICK from \in {"asking", "again"} : Enters(s, from, "queued")
    BY <1>24 DEF Ask, Enters
  <2>2. UNCHANGED <<phase, failing, who, spent, free, elected, used, restarts>>
    BY <1>24 DEF Ask
  <2>3. QED
    BY <2>1, <2>2, MovedWaiting
<1>25. ASSUME NEW s \in All, Misdirected(s) PROVE ControlInv'
  BY <1>25, StandingStep DEF Misdirected
<1>26. QED
  BY <1>1, <1>2, <1>3, <1>4, <1>5, <1>7, <1>8, <1>9, <1>10, <1>11, <1>12, <1>13,
     <1>14, <1>15, <1>16, <1>17, <1>18, <1>19, <1>20, <1>21, <1>22, <1>23, <1>24,
     <1>25 DEF Next, Over

\* Sessions, executions and seats are in order in every state.
THEOREM ControlHolds == Spec => []ControlInv
<1>1. Init => ControlInv
  BY InitControl
<1>2. ControlInv /\ [Next]_vars => ControlInv'
  BY ControlStep
<1>3. QED
  BY <1>1, <1>2, PTL DEF Spec

\* Every seat is free, on its way to a session, or held by one, whatever entries
\* the queue of the pool is left with.  (_assignments, _attempt)
THEOREM NoSeatIsLost == Spec => []SeatsGivenBack
<1>1. ControlInv => SeatsGivenBack
  BY DEF ControlInv, SeatsCount, SeatsGivenBack
<1>2. QED
  BY <1>1, ControlHolds, PTL

-----------------------------------------------------------------------------
(* The methods of the pool that the sessions call, field by field *)

LEMMA BegunFields ==
    ASSUME NEW p \in Pool, NEW e \in Executions
    PROVE  /\ Begun(p, e) \in Pool
           /\ Begun(p, e).known = p.known
           /\ Begun(p, e).owner = p.owner
           /\ Begun(p, e).submitted = p.submitted
           /\ Begun(p, e).registrations = p.registrations
           /\ Begun(p, e).saved = p.saved
BY DEF Begun, Pool, Holder

\* One call of a tool of e: a case is registered, a free one claimed, or one
\* that is claimed submitted.
Called(p, q, e, c) ==
    /\ q \in Pool
    /\ q.saved = p.saved
    /\ \/ /\ q.known = p.known \cup {c}
          /\ q.owner = p.owner /\ q.submitted = p.submitted
          /\ q.registrations = [p.registrations EXCEPT ![e] = @ \cup {c}]
       \/ /\ c \in p.known /\ p.owner[c] = Nobody
          /\ q.known = p.known /\ q.submitted = p.submitted
          /\ q.owner = [p.owner EXCEPT ![c] = e]
          /\ q.registrations = [p.registrations EXCEPT ![e] = @ \cup {c}]
       \/ /\ c \in p.known /\ p.owner[c] = e
          /\ q.known = p.known /\ q.submitted = p.submitted \cup {c}
          /\ q.owner = p.owner /\ q.registrations = p.registrations

LEMMA CallFields ==
    ASSUME NEW p \in Pool, NEW e \in Executions, NEW q \in AfterCall(p, e) \ {p}
    PROVE  \E c \in Cases : Called(p, q, e, c)
<1>1. ASSUME NEW c \in Cases, q = Pushed(p, e, c)
      PROVE  /\ q \in Pool /\ q.saved = p.saved
             /\ q.known = p.known \cup {c}
             /\ q.owner = p.owner /\ q.submitted = p.submitted
             /\ q.registrations = [p.registrations EXCEPT ![e] = @ \cup {c}]
  <2>1. /\ [p.created EXCEPT ![e] = IF c \in p.known THEN @ ELSE @ \cup {c}]
              \in [Executions -> SUBSET Cases]
        /\ [p.registrations EXCEPT ![e] = @ \cup {c}] \in [Executions -> SUBSET Cases]
        /\ p.known \cup {c} \in SUBSET Cases
    BY DEF Pool
  <2>2. /\ q \in Pool /\ q.known = p.known \cup {c}
        /\ q.owner = p.owner /\ q.submitted = p.submitted /\ q.saved = p.saved
    BY <1>1, <2>1 DEF Pushed, Pool
  <2>3. q.registrations = [p.registrations EXCEPT ![e] = @ \cup {c}]
    BY <1>1 DEF Pushed, Pool
  <2>4. QED
    BY <2>2, <2>3
<1>2. ASSUME NEW c \in p.known, q = Claimed(p, e, c)
      PROVE  /\ c \in Cases /\ q \in Pool /\ q.saved = p.saved
             /\ p.owner[c] = Nobody
             /\ q.known = p.known /\ q.submitted = p.submitted
             /\ q.owner = [p.owner EXCEPT ![c] = e]
             /\ q.registrations = [p.registrations EXCEPT ![e] = @ \cup {c}]
  BY <1>2 DEF Claimed, Pool, Holder
<1>3. ASSUME NEW c \in p.known, q = Submitted(p, e, c)
      PROVE  /\ c \in Cases /\ q \in Pool /\ q.saved = p.saved
             /\ p.owner[c] = e
             /\ q.known = p.known /\ q.submitted = p.submitted \cup {c}
             /\ q.owner = p.owner /\ q.registrations = p.registrations
  BY <1>3 DEF Submitted, Pool, Holder
<1>4. \/ \E c \in Cases : q = Pushed(p, e, c)
      \/ \E c \in p.known : q = Claimed(p, e, c)
      \/ \E c \in p.known : q = Submitted(p, e, c)
  BY DEF AfterCall
<1>5. CASE \E c \in Cases : q = Pushed(p, e, c)
  <2>1. PICK c \in Cases : q = Pushed(p, e, c)
    BY <1>5
  <2>2. QED
    BY <1>1, <2>1 DEF Called
<1>6. CASE \E c \in p.known : q = Claimed(p, e, c)
  <2>1. PICK c \in p.known : q = Claimed(p, e, c)
    BY <1>6
  <2>2. QED
    BY <1>2, <2>1 DEF Called
<1>7. CASE \E c \in p.known : q = Submitted(p, e, c)
  <2>1. PICK c \in p.known : q = Submitted(p, e, c)
    BY <1>7
  <2>2. QED
    BY <1>3, <2>1 DEF Called
<1>8. QED
  BY <1>4, <1>5, <1>6, <1>7

LEMMA AbandonedFields ==
    ASSUME NEW p \in Pool, NEW e \in Executions, e \notin p.saved
    PROVE  LET q == Abandoned(p, e) IN
           /\ q \in Pool
           /\ q.known = p.known
           /\ q.owner =
                 [c \in Cases |-> IF p.owner[c] = e THEN Nobody ELSE p.owner[c]]
           /\ q.submitted = {c \in p.submitted : p.owner[c] # e}
           /\ q.registrations = p.registrations
           /\ q.saved = p.saved
<1> DEFINE f == Freed(p, e)
<1>1. /\ f \in Pool
      /\ f.known = p.known
      /\ f.owner =
            [c \in Cases |-> IF p.owner[c] = e THEN Nobody ELSE p.owner[c]]
      /\ f.submitted = {c \in p.submitted : p.owner[c] # e}
      /\ f.registrations = p.registrations
      /\ f.saved = p.saved
  BY DEF Freed, Pool, Holder
<1>2. Abandoned(p, e) = Stopped(f, e)
  BY DEF Abandoned
<1> HIDE DEF f
<1>3. /\ Stopped(f, e) \in Pool
      /\ Stopped(f, e).known = f.known
      /\ Stopped(f, e).owner = f.owner
      /\ Stopped(f, e).submitted = f.submitted
      /\ Stopped(f, e).registrations = f.registrations
      /\ Stopped(f, e).saved = f.saved
  BY <1>1 DEF Stopped, Pool
<1>4. QED
  BY <1>1, <1>2, <1>3

LEMMA ConfirmedFields ==
    ASSUME NEW p \in Pool, NEW e \in Executions
    PROVE  LET q == Confirmed(p, e) IN
           /\ q \in Pool
           /\ q.known = p.known
           /\ q.owner =
                 [c \in Cases |-> IF p.owner[c] = e /\ c \notin p.submitted
                                  THEN Nobody ELSE p.owner[c]]
           /\ q.submitted = p.submitted
           /\ q.registrations = p.registrations
           /\ q.saved = p.saved \cup {e}
BY DEF Confirmed, Stopped, Pool, Holder

LEMMA MergedFields ==
    ASSUME NEW p \in Pool, NEW r \in Rows
    PROVE  LET q == Merged(p, r) IN
           /\ q \in Pool
           /\ q.known = p.known \cup r.cases
           /\ q.owner = [c \in Cases |-> IF c \in Resolved(r)
                                         THEN r.resolver[c] ELSE p.owner[c]]
           /\ q.submitted = p.submitted \cup Resolved(r)
           /\ q.registrations = p.registrations
           /\ q.saved = p.saved
BY DEF Merged, Resolved, Pool, Rows, Holder

\* The pool a stage begins with: the rows of the store, and nothing else.
LEMMA FreshPool ==
    ASSUME NEW r \in Rows,
           \A c \in Cases : r.resolver[c] # Nobody => c \in r.cases
    PROVE  LET q == Merged(EmptyPool, r) IN
           /\ q \in Pool
           /\ q.known = r.cases
           /\ q.owner = r.resolver
           /\ q.submitted = Resolved(r)
           /\ q.registrations = [e \in Executions |-> {}]
           /\ q.saved = {}
<1>1. EmptyPool \in Pool
  BY DEF EmptyPool, Pool, Holder
<1>2. /\ EmptyPool.known = {} /\ EmptyPool.submitted = {} /\ EmptyPool.saved = {}
      /\ EmptyPool.owner = [c \in Cases |-> Nobody]
      /\ EmptyPool.registrations = [e \in Executions |-> {}]
  BY DEF EmptyPool
<1> DEFINE q == Merged(EmptyPool, r)
<1>3. /\ q \in Pool
      /\ q.known = EmptyPool.known \cup r.cases
      /\ q.owner = [c \in Cases |-> IF c \in Resolved(r)
                                    THEN r.resolver[c] ELSE EmptyPool.owner[c]]
      /\ q.submitted = EmptyPool.submitted \cup Resolved(r)
      /\ q.registrations = EmptyPool.registrations
      /\ q.saved = EmptyPool.saved
  BY <1>1, MergedFields
<1> HIDE DEF q
<1>4. r.resolver \in [Cases -> Holder]
  BY DEF Rows
<1>5. \A c \in Cases : r.resolver[c] = IF c \in Resolved(r)
                                       THEN r.resolver[c] ELSE Nobody
  BY DEF Resolved
<1>6. q.owner = r.resolver
  BY <1>2, <1>3, <1>4, <1>5
<1>7. /\ q.known = r.cases /\ q.submitted = Resolved(r) /\ q.saved = {}
      /\ q.registrations = [e \in Executions |-> {}]
  BY <1>2, <1>3
<1>8. QED
  BY <1>3, <1>6, <1>7 DEF q

\* What a session saves is in the store.
LEMMA CommittedFields ==
    ASSUME NEW r \in Rows, NEW e \in Executions, NEW p \in Pool
    PROVE  LET q == Committed(r, e, ContributionOf(p, e)) IN
           /\ q \in Rows
           /\ q.cases = r.cases \cup p.registrations[e]
           /\ \A c \in Cases : q.resolver[c] =
                 IF c \in p.known /\ p.owner[c] = e /\ c \in p.submitted
                 THEN e ELSE r.resolver[c]
<1>1. ContributionOf(p, e) =
         [registrations |-> p.registrations[e],
          submissions   |-> {c \in p.known : p.owner[c] = e} \cap p.submitted]
  BY DEF ContributionOf, SubmissionsFor, ClaimsFor
<1>2. QED
  BY <1>1 DEF Committed, Rows, Pool, Holder

-----------------------------------------------------------------------------
(* The inductive invariant of the cases *)

DataTypes ==
    /\ pool \in Pool
    /\ rows \in Rows
    /\ sessions \subseteq used
    /\ saved \subseteq used
    /\ receipt \in [All -> Rows]
    /\ reported \in BOOLEAN

\* Owners and resolvers are executions there have been; what is owned or
\* resolved is known, and what is resolved is a row.
OwnersExist ==
    \A c \in Cases :
        /\ pool.owner[c] \in used \cup {Nobody}
        /\ rows.resolver[c] \in used \cup {Nobody}
        /\ pool.owner[c] # Nobody => c \in pool.known
        /\ c \in pool.submitted => pool.owner[c] # Nobody
        /\ rows.resolver[c] # Nobody => c \in pool.known \cap rows.cases

\* What an execution registers is known, and the report registers nothing; a
\* case that a session claims is one of its registrations.
ClaimsRegistered ==
    /\ \A e \in Executions : \A c \in pool.registrations[e] :
          c \in pool.known /\ e \in used /\ e # who[Report]
    /\ \A s \in All : \A c \in Cases :
          (who[s] # Nobody /\ pool.owner[c] = who[s])
              => c \in pool.registrations[who[s]]

\* The domain and the pool agree on what is saved, and an execution that is not
\* is that of a session at work.
SavedAgree ==
    /\ pool.saved = saved
    /\ \A s \in All : who[s] \notin saved
    /\ \A e \in sessions : e \in saved \/ \E s \in Slots : who[s] = e

\* A row that a session at work resolves is of its own transaction, and the
\* memory holds it as submitted.
CommittedHeld ==
    \A s \in All : \A c \in Cases :
        (who[s] # Nobody /\ rows.resolver[c] = who[s]) =>
            /\ stage[s] = "committed"
            /\ pool.owner[c] = who[s]
            /\ c \in pool.submitted

\* What a committed session contributed is in the store, and nothing has been
\* added to it.
CommittedStored ==
    \A s \in All : stage[s] = "committed" =>
        /\ pool.registrations[who[s]] \subseteq rows.cases
        /\ \A c \in pool.submitted :
              pool.owner[c] = who[s] => rows.resolver[c] = who[s]

\* The rows a transaction returned may be old when they are merged, but never
\* wrong.
ReceiptsOld ==
    \A s \in All :
        /\ receipt[s].cases \subseteq rows.cases
        /\ \A c \in Cases : receipt[s].resolver[c] # Nobody =>
              rows.resolver[c] = receipt[s].resolver[c]
        /\ stage[s] # "committed" => receipt[s] = EmptyRows

\* A row of the store is known or about to be merged; what is known and not in
\* the store was registered by an execution that is not saved.
KnownOrArriving ==
    /\ ~reported => \A c \in rows.cases \ pool.known :
                        \E s \in Slots : c \in receipt[s].cases
    /\ \A c \in pool.known \ rows.cases :
          \E e \in Executions \ pool.saved : c \in pool.registrations[e]

CasesInv ==
    /\ OwnersExist
    /\ ClaimsRegistered
    /\ SavedAgree
    /\ CommittedHeld
    /\ CommittedStored
    /\ ReceiptsOld
    /\ KnownOrArriving
    /\ NoOrphanClaim
    /\ ResolvedIsNotOffered

\* What the stage may rely on at its turning points.
TurnsInv == ReportIsNeverRefused /\ FoundCasesSurvive

DomainInv == ControlInv /\ DataTypes /\ CasesInv

-----------------------------------------------------------------------------
(* The steps of the cases *)

\* No case is touched: sessions wait, are granted a seat, go on or go away
\* without one of theirs having an execution more or less.
LEMMA RearrangedStep ==
    ASSUME DomainInv, failing => failing',
           \A s \in All : stage'[s] = "committed" <=> stage[s] = "committed",
           UNCHANGED <<pool, rows, reported, sessions, saved, receipt, used, who>>
    PROVE  DataTypes' /\ CasesInv'
<1>1. DataTypes'
  BY DEF DomainInv, DataTypes
<1>2. OwnersExist' /\ ClaimsRegistered' /\ SavedAgree' /\ CommittedHeld'
  BY DEF DomainInv, CasesInv, OwnersExist, ClaimsRegistered, SavedAgree,
         CommittedHeld
<1>3. CommittedStored' /\ ReceiptsOld' /\ KnownOrArriving'
  BY DEF DomainInv, CasesInv, CommittedStored, ReceiptsOld, KnownOrArriving
<1>4. NoOrphanClaim' /\ ResolvedIsNotOffered'
  BY DEF DomainInv, CasesInv, NoOrphanClaim, ResolvedIsNotOffered, Resolved
<1>5. QED
  BY <1>1, <1>2, <1>3, <1>4 DEF CasesInv

\* A new execution has no case yet.
LEMMA BeginStep ==
    ASSUME DomainInv, NEW s \in All, NEW e \in Executions, Begin(s, e)
    PROVE  DataTypes' /\ CasesInv'
<1>1. /\ stage[s] = "granted" /\ stage' = [stage EXCEPT ![s] = "running"]
      /\ e \notin used
      /\ who' = [who EXCEPT ![s] = e] /\ used' = used \cup {e}
      /\ pool' = Begun(pool, e)
      /\ sessions' = IF s = Report THEN sessions ELSE sessions \cup {e}
      /\ UNCHANGED <<saved, rows, reported, failing, receipt>>
  BY DEF Begin, Enters, store
<1>2. /\ pool' \in Pool /\ pool'.known = pool.known /\ pool'.owner = pool.owner
      /\ pool'.submitted = pool.submitted
      /\ pool'.registrations = pool.registrations
      /\ pool'.saved = pool.saved
  BY <1>1, BegunFields DEF DomainInv, DataTypes
<1>3. \A t \in All : who'[t] = IF t = s THEN e ELSE who[t]
  BY <1>1 DEF DomainInv, ControlInv, ControlTypes
<1>4. \A t \in All : stage'[t] = "committed" <=> stage[t] = "committed"
  BY <1>1 DEF DomainInv, ControlInv, ControlTypes
<1>5. who[s] = Nobody /\ e # Nobody /\ Report \in All /\ Slots \subseteq All
  BY <1>1, CasePoolAssumption
     DEF DomainInv, ControlInv, OneExecutionEach, Working, All
<1>6. \A c \in Cases : pool.owner[c] # e /\ rows.resolver[c] # e
  BY <1>1, <1>5 DEF DomainInv, CasesInv, OwnersExist
<1>7. DataTypes'
  BY <1>1, <1>2 DEF DomainInv, DataTypes
<1>8. OwnersExist'
  BY <1>1, <1>2 DEF DomainInv, CasesInv, OwnersExist
<1>9. ClaimsRegistered'
  <2>1. \A f \in Executions : \A c \in pool'.registrations[f] :
           c \in pool'.known /\ f \in used' /\ f # who'[Report]
    BY <1>1, <1>2, <1>3, <1>5 DEF DomainInv, CasesInv, ClaimsRegistered
  <2>2. \A t \in All : \A c \in Cases :
           (who'[t] # Nobody /\ pool'.owner[c] = who'[t])
               => c \in pool'.registrations[who'[t]]
    BY <1>2, <1>3, <1>6 DEF DomainInv, CasesInv, ClaimsRegistered
  <2>3. QED
    BY <2>1, <2>2 DEF ClaimsRegistered
<1>10. SavedAgree'
  <2>1. pool'.saved = saved' /\ \A t \in All : who'[t] \notin saved'
    BY <1>1, <1>2, <1>3 DEF DomainInv, DataTypes, CasesInv, SavedAgree
  <2>2. ASSUME NEW f \in sessions'
        PROVE  f \in saved' \/ \E t \in Slots : who'[t] = f
    <3>1. CASE f \in sessions
      <4>1. f # Nobody
        BY <3>1, CasePoolAssumption DEF DomainInv, DataTypes, ControlInv, ControlTypes
      <4>2. f \in saved \/ \E t \in Slots : who[t] = f
        BY <3>1 DEF DomainInv, CasesInv, SavedAgree
      <4>3. QED
        BY <1>1, <1>3, <1>5, <4>1, <4>2
    <3>2. CASE f = e /\ s # Report
      BY <1>3, <3>2 DEF All
    <3>3. QED
      BY <1>1, <2>2, <3>1, <3>2
  <2>3. QED
    BY <2>1, <2>2 DEF SavedAgree
<1>11. CommittedHeld'
  BY <1>1, <1>2, <1>3, <1>4, <1>6 DEF DomainInv, CasesInv, CommittedHeld
<1>12. CommittedStored' /\ ReceiptsOld'
  <2>1. stage'[s] # "committed"
    BY <1>1, <1>4
  <2>2. QED
    BY <1>1, <1>2, <1>3, <1>4, <2>1 DEF DomainInv, CasesInv, CommittedStored, ReceiptsOld
<1>13. KnownOrArriving'
  BY <1>1, <1>2 DEF DomainInv, CasesInv, KnownOrArriving
<1>14. NoOrphanClaim'
  BY <1>1, <1>2, <1>3, <1>5 DEF DomainInv, CasesInv, NoOrphanClaim
<1>15. ResolvedIsNotOffered'
  BY <1>1, <1>2 DEF DomainInv, CasesInv, ResolvedIsNotOffered, Resolved
<1>16. QED
  BY <1>7, <1>8, <1>9, <1>10, <1>11, <1>12, <1>13, <1>14, <1>15 DEF CasesInv

\* A session registers, claims or submits one case.
LEMMA CallStep ==
    ASSUME DomainInv, NEW s \in All, Call(s)
    PROVE  DataTypes' /\ CasesInv'
<1> DEFINE e == who[s]
<1>1. /\ s \in Slots /\ stage[s] = "running"
      /\ pool' \in AfterCall(pool, e) \ {pool}
      /\ UNCHANGED <<sessions, saved, rows, reported, failing, stage, who, used,
                     receipt>>
  BY DEF Call, store
<1>2. e # Nobody /\ e \in Executions /\ e \in used /\ s # Report /\ Report \in All
  BY <1>1, DiagnosisAssumption
     DEF DomainInv, ControlInv, ControlTypes, OneExecutionEach, Working, Holder, All
<1>3. e # who[Report] /\ e \notin pool.saved
  BY <1>2 DEF DomainInv, ControlInv, OneExecutionEach, CasesInv, SavedAgree
<1>4. \A t \in All : who[t] = e => t = s
  BY <1>2 DEF DomainInv, ControlInv, OneExecutionEach
<1> HIDE DEF e
<1>5. PICK c \in Cases : Called(pool, pool', e, c)
  <2>1. pool \in Pool /\ e \in Executions /\ pool' \in AfterCall(pool, e) \ {pool}
    BY <1>1, <1>2 DEF DomainInv, DataTypes
  <2>2. QED
    BY <2>1, CallFields
<1>6. /\ pool.known \subseteq pool'.known /\ pool'.known \subseteq pool.known \cup {c}
      /\ \A d \in Cases : pool'.owner[d] = pool.owner[d]
                              \/ (d = c /\ pool.owner[d] = Nobody /\ pool'.owner[d] = e)
      /\ \A d \in Cases : d \in pool'.submitted =>
              d \in pool.submitted \/ (d = c /\ pool'.owner[d] = e)
      /\ pool.submitted \subseteq pool'.submitted
      /\ \A f \in Executions : /\ pool.registrations[f] \subseteq pool'.registrations[f]
                               /\ f # e => pool'.registrations[f] = pool.registrations[f]
                               /\ pool'.registrations[f] \subseteq pool.registrations[f] \cup {c}
  <2>1. pool.owner \in [Cases -> Holder] /\ pool.registrations \in [Executions -> SUBSET Cases]
    BY DEF DomainInv, DataTypes, Pool
  <2>2. QED
    BY <1>5, <2>1 DEF Called
<1>7. /\ \A d \in pool'.known \ pool.known : d \in pool'.registrations[e]
      /\ \A d \in Cases : pool'.owner[d] # pool.owner[d] =>
              d \in pool'.registrations[e] /\ d \in pool.known
      /\ \A f \in Executions : \A d \in pool'.registrations[f] : d \in pool.registrations[f] \/ d \in pool'.known
  <2>1. pool.owner \in [Cases -> Holder] /\ pool.registrations \in [Executions -> SUBSET Cases]
    BY DEF DomainInv, DataTypes, Pool
  <2>2. QED
    BY <1>2, <1>5, <2>1 DEF Called
<1>8. DataTypes'
  BY <1>1, <1>5 DEF Called, DomainInv, DataTypes
<1>9. OwnersExist'
  BY <1>1, <1>2, <1>6, <1>7 DEF DomainInv, CasesInv, OwnersExist
<1>10. ClaimsRegistered'
  <2>1. \A f \in Executions : \A d \in pool'.registrations[f] :
           d \in pool'.known /\ f \in used' /\ f # who'[Report]
    BY <1>1, <1>2, <1>3, <1>6, <1>7 DEF DomainInv, CasesInv, ClaimsRegistered
  <2>2. \A t \in All : who[t] \in Holder
    BY DEF DomainInv, ControlInv, ControlTypes
  <2>3. ASSUME NEW t \in All, NEW d \in Cases, who'[t] # Nobody, pool'.owner[d] = who'[t]
        PROVE  d \in pool'.registrations[who'[t]]
    <3>1. who'[t] \in Executions /\ who'[t] = who[t]
      BY <1>1, <2>2, <2>3 DEF Holder
    <3>2. CASE pool'.owner[d] = pool.owner[d]
      BY <1>6, <2>3, <3>1, <3>2 DEF DomainInv, CasesInv, ClaimsRegistered
    <3>3. CASE pool'.owner[d] # pool.owner[d]
      BY <1>6, <1>7, <2>3, <3>3
    <3>4. QED
      BY <3>2, <3>3
  <2>4. QED
    BY <2>1, <2>3 DEF ClaimsRegistered
<1>11. SavedAgree'
  BY <1>1, <1>5 DEF Called, DomainInv, CasesInv, SavedAgree
<1>12. CommittedHeld'
  BY <1>1, <1>6 DEF DomainInv, CasesInv, CommittedHeld
<1>13. CommittedStored' /\ ReceiptsOld'
  <2>1. \A t \in All : stage[t] = "committed" => who[t] # e /\ who[t] \in Executions
    BY <1>1, <1>4 DEF DomainInv, ControlInv, ControlTypes, OneExecutionEach,
                      Working, Holder
  <2>2. pool'.submitted \subseteq Cases
    BY <1>5 DEF Called, Pool
  <2>3. CommittedStored'
    BY <1>1, <1>6, <2>1, <2>2 DEF DomainInv, CasesInv, CommittedStored
  <2>4. QED
    BY <1>1, <2>3 DEF DomainInv, CasesInv, ReceiptsOld
<1>14. KnownOrArriving'
  BY <1>1, <1>2, <1>3, <1>5, <1>6, <1>7 DEF Called, DomainInv, CasesInv, KnownOrArriving
<1>15. NoOrphanClaim'
  <2>1. ASSUME NEW d \in pool'.known, pool'.owner[d] # Nobody
        PROVE  \/ \E t \in Slots : who'[t] = pool'.owner[d]
               \/ d \in pool'.submitted /\ rows'.resolver[d] = pool'.owner[d]
    <3>1. d \in Cases
      BY <1>5 DEF Called, Pool
    <3>2. CASE pool'.owner[d] = e
      BY <1>1, <3>2 DEF e
    <3>3. CASE pool'.owner[d] = pool.owner[d]
      BY <1>1, <1>6, <2>1, <3>1, <3>3
         DEF DomainInv, CasesInv, NoOrphanClaim, OwnersExist
    <3>4. QED
      BY <1>6, <3>1, <3>2, <3>3
  <2>2. QED
    BY <2>1 DEF NoOrphanClaim
<1>16. ResolvedIsNotOffered'
  <2>1. ASSUME ~failing, NEW d \in Resolved(rows)
        PROVE  d \in pool'.submitted /\ pool'.owner[d] = rows.resolver[d]
    <3>1. d \in Cases /\ rows.resolver[d] # Nobody
      BY DEF Resolved, DomainInv, DataTypes, Rows
    <3>2. d \in pool.submitted /\ pool.owner[d] = rows.resolver[d]
      BY <2>1, <3>1 DEF DomainInv, CasesInv, OwnersExist, ResolvedIsNotOffered
    <3>3. QED
      BY <1>6, <3>1, <3>2
  <2>2. QED
    BY <1>1, <2>1 DEF ResolvedIsNotOffered
<1>17. QED
  BY <1>8, <1>9, <1>10, <1>11, <1>12, <1>13, <1>14, <1>15, <1>16 DEF CasesInv

\* What a session at work may lean on.
LEMMA AtWork ==
    ASSUME DomainInv, NEW s \in All, stage[s] \in Working
    PROVE  /\ who[s] \in Executions /\ who[s] # Nobody /\ who[s] \in used
           /\ who[s] \notin saved /\ who[s] \notin pool.saved
           /\ \A t \in All : t # s => who[t] # who[s]
           /\ pool \in Pool /\ rows \in Rows
           /\ who \in [All -> Holder] /\ stage \in [All -> Stages]
           /\ Report \in All /\ Slots \subseteq All /\ Report \notin Slots
<1>1. who[s] # Nobody /\ who[s] \in Executions /\ who[s] \in used
  BY DEF DomainInv, ControlInv, ControlTypes, OneExecutionEach, Holder
<1>2. who[s] \notin saved /\ who[s] \notin pool.saved
  BY DEF DomainInv, CasesInv, SavedAgree
<1>3. \A t \in All : t # s => who[t] # who[s]
  BY <1>1 DEF DomainInv, ControlInv, OneExecutionEach
<1>4. QED
  BY <1>1, <1>2, <1>3, DiagnosisAssumption
     DEF DomainInv, DataTypes, ControlInv, ControlTypes, All

\* A session gives up what it has not saved.  The store may have it all the
\* same, if it is the answer of the transaction that was lost.
LEMMA AbortStep ==
    ASSUME DomainInv, NEW s \in All, NEW to \in {"none", "again"},
           stage[s] \in {"running", "saving"},
           Aborted(who[s]),
           stage' = [stage EXCEPT ![s] = to],
           who' = [who EXCEPT ![s] = Nobody],
           failing => failing',
           UNCHANGED <<saved, reported, receipt, used>>,
           rows' \in Rows,
           rows.cases \subseteq rows'.cases,
           rows'.cases \subseteq rows.cases \cup pool.known,
           \A c \in Cases :
               \/ rows'.resolver[c] = rows.resolver[c]
               \/ /\ failing'
                  /\ rows'.resolver[c] = who[s]
                  /\ rows.resolver[c] = Nobody
                  /\ c \in pool.known \cap rows'.cases
    PROVE  DataTypes' /\ CasesInv'
<1> DEFINE e == who[s]
<1>1. /\ e \in Executions /\ e # Nobody /\ e \in used /\ e \notin pool.saved
      /\ \A t \in All : t # s => who[t] # e
      /\ pool \in Pool
      /\ who \in [All -> Holder] /\ stage \in [All -> Stages]
  BY AtWork DEF Working
<1>2. /\ pool' = Abandoned(pool, e) /\ sessions' = sessions \ {e}
  BY DEF Aborted
<1>3. \A c \in Cases :
         \/ rows'.resolver[c] = rows.resolver[c]
         \/ /\ failing' /\ rows'.resolver[c] = e /\ rows.resolver[c] = Nobody
            /\ c \in pool.known \cap rows'.cases
  OBVIOUS
<1>4. \A c \in Cases : rows.resolver[c] # e
  BY <1>1 DEF DomainInv, CasesInv, CommittedHeld
<1>5. /\ \A t \in All : who'[t] = IF t = s THEN Nobody ELSE who[t]
      /\ \A t \in All : stage'[t] = "committed" => t # s /\ stage[t] = "committed"
      /\ \A t \in All : stage[t] = "committed" => stage'[t] = "committed"
  BY <1>1
<1> HIDE DEF e
<1>6. /\ pool' \in Pool
      /\ pool'.known = pool.known
      /\ \A c \in Cases :
            /\ pool'.owner[c] = IF pool.owner[c] = e THEN Nobody ELSE pool.owner[c]
            /\ c \in pool'.submitted <=> c \in pool.submitted /\ pool.owner[c] # e
      /\ pool'.registrations = pool.registrations
      /\ pool'.saved = pool.saved
  <2>1. /\ pool' \in Pool
        /\ pool'.known = pool.known
        /\ pool'.owner =
              [c \in Cases |-> IF pool.owner[c] = e THEN Nobody ELSE pool.owner[c]]
        /\ pool'.submitted = {c \in pool.submitted : pool.owner[c] # e}
        /\ pool'.registrations = pool.registrations
        /\ pool'.saved = pool.saved
    BY <1>1, <1>2, AbandonedFields
  <2>2. QED
    BY <2>1
<1>7. DataTypes'
  BY <1>2, <1>6 DEF DomainInv, DataTypes
<1>8. OwnersExist'
  BY <1>1, <1>3, <1>6 DEF DomainInv, CasesInv, OwnersExist
<1>9. ClaimsRegistered'
  <2>1. \A f \in Executions : f # Nobody
    BY CasePoolAssumption
  <2>2. Report \in All
    BY DEF All
  <2>3. QED
    BY <1>5, <1>6, <2>1, <2>2 DEF DomainInv, CasesInv, ClaimsRegistered
<1>10. SavedAgree'
  <2>1. Nobody \notin saved
    BY CasePoolAssumption DEF DomainInv, DataTypes, ControlInv, ControlTypes
  <2>2. \A f \in sessions' : f \in saved \/ \E t \in Slots : who[t] = f /\ t # s
    BY <1>2 DEF DomainInv, CasesInv, SavedAgree, e
  <2>3. \A f \in sessions' : f \in saved' \/ \E t \in Slots : who'[t] = f
    BY <1>5, <2>2 DEF All
  <2>4. QED
    BY <1>5, <1>6, <2>1, <2>3 DEF DomainInv, CasesInv, SavedAgree
<1>11. CommittedHeld'
  <2>1. ASSUME NEW t \in All, NEW c \in Cases, who'[t] # Nobody,
               rows'.resolver[c] = who'[t]
        PROVE  stage'[t] = "committed" /\ pool'.owner[c] = who'[t]
                  /\ c \in pool'.submitted
    <3>1. t # s /\ who'[t] = who[t] /\ who[t] # e
      BY <1>1, <1>5, <2>1
    <3>2. rows.resolver[c] = who[t]
      BY <1>3, <2>1, <3>1
    <3>3. stage[t] = "committed" /\ pool.owner[c] = who[t] /\ c \in pool.submitted
      BY <2>1, <3>1, <3>2 DEF DomainInv, CasesInv, CommittedHeld
    <3>4. QED
      BY <1>5, <1>6, <3>1, <3>3
  <2>2. QED
    BY <2>1 DEF CommittedHeld
<1>12. CommittedStored'
  <2>1. ASSUME NEW t \in All, stage'[t] = "committed"
        PROVE  /\ pool'.registrations[who'[t]] \subseteq rows'.cases
               /\ \A c \in pool'.submitted :
                     pool'.owner[c] = who'[t] => rows'.resolver[c] = who'[t]
    <3>1. t # s /\ who'[t] = who[t] /\ who[t] # e /\ stage[t] = "committed"
      BY <1>1, <1>5, <2>1
    <3>2. who[t] # Nobody
      BY <3>1 DEF DomainInv, ControlInv, OneExecutionEach, Working
    <3>3. pool'.registrations[who'[t]] \subseteq rows'.cases
      BY <1>6, <3>1 DEF DomainInv, CasesInv, CommittedStored
    <3>4. ASSUME NEW c \in pool'.submitted, pool'.owner[c] = who'[t]
          PROVE  rows'.resolver[c] = who'[t]
      <4>1. c \in Cases
        BY <1>6 DEF Pool
      <4>2. c \in pool.submitted /\ pool.owner[c] = who[t]
        BY <1>6, <3>1, <3>2, <3>4, <4>1
      <4>3. rows.resolver[c] = who[t]
        BY <3>1, <4>2 DEF DomainInv, CasesInv, CommittedStored
      <4>4. QED
        BY <1>3, <3>1, <3>2, <4>1, <4>3
    <3>5. QED
      BY <3>3, <3>4
  <2>2. QED
    BY <2>1 DEF CommittedStored
<1>13. ReceiptsOld'
  BY <1>3, <1>5 DEF DomainInv, CasesInv, ReceiptsOld
<1>14. KnownOrArriving'
  BY <1>6 DEF DomainInv, CasesInv, KnownOrArriving
<1>15. NoOrphanClaim'
  <2>1. ASSUME NEW c \in pool'.known, pool'.owner[c] # Nobody
        PROVE  \/ \E t \in Slots : who'[t] = pool'.owner[c]
               \/ c \in pool'.submitted /\ rows'.resolver[c] = pool'.owner[c]
    <3>1. c \in Cases /\ c \in pool.known
      BY <1>6 DEF Pool
    <3>2. pool.owner[c] # e /\ pool'.owner[c] = pool.owner[c]
      BY <1>6, <2>1, <3>1
    <3>3. \/ \E t \in Slots : who[t] = pool.owner[c]
          \/ c \in pool.submitted /\ rows.resolver[c] = pool.owner[c]
      BY <2>1, <3>1, <3>2 DEF DomainInv, CasesInv, NoOrphanClaim
    <3>4. CASE \E t \in Slots : who[t] = pool.owner[c]
      <4>1. PICK t \in Slots : who[t] = pool.owner[c]
        BY <3>4
      <4>2. t # s /\ t \in All
        BY <3>2, <4>1 DEF e, All
      <4>3. QED
        BY <1>5, <3>2, <4>1, <4>2
    <3>5. CASE c \in pool.submitted /\ rows.resolver[c] = pool.owner[c]
      BY <1>3, <1>6, <2>1, <3>1, <3>2, <3>5
    <3>6. QED
      BY <3>3, <3>4, <3>5
  <2>2. QED
    BY <2>1 DEF NoOrphanClaim
<1>16. ResolvedIsNotOffered'
  <2>1. ASSUME ~failing', NEW c \in Resolved(rows') \cap pool'.known
        PROVE  c \in pool'.submitted /\ pool'.owner[c] = rows'.resolver[c]
    <3>1. c \in Cases /\ c \in pool.known /\ rows'.resolver[c] # Nobody
      BY <1>6 DEF Resolved, Pool
    <3>2. rows'.resolver[c] = rows.resolver[c] /\ rows.resolver[c] # e
      BY <1>3, <1>4, <2>1, <3>1
    <3>3. c \in rows.cases
      BY <3>1, <3>2 DEF DomainInv, CasesInv, OwnersExist
    <3>4. c \in pool.submitted /\ pool.owner[c] = rows.resolver[c]
      BY <2>1, <3>1, <3>2, <3>3
         DEF DomainInv, CasesInv, ResolvedIsNotOffered, Resolved
    <3>5. QED
      BY <1>6, <3>1, <3>2, <3>4
  <2>2. QED
    BY <2>1 DEF ResolvedIsNotOffered
<1>17. QED
  BY <1>7, <1>8, <1>9, <1>10, <1>11, <1>12, <1>13, <1>14, <1>15, <1>16 DEF CasesInv

\* What a transaction of s writes.
LEMMA Written ==
    ASSUME DomainInv, NEW s \in All, stage[s] = "saving",
           MayCommit(rows, who[s], ContributionOf(pool, who[s])),
           NEW q, q = Committed(rows, who[s], ContributionOf(pool, who[s]))
    PROVE  /\ q \in Rows
           /\ q.cases = rows.cases \cup pool.registrations[who[s]]
           /\ pool.registrations[who[s]] \subseteq pool.known
           /\ \A c \in Cases :
                \/ /\ q.resolver[c] = rows.resolver[c]
                   /\ ~(pool.owner[c] = who[s] /\ c \in pool.submitted)
                \/ /\ q.resolver[c] = who[s] /\ rows.resolver[c] = Nobody
                   /\ pool.owner[c] = who[s] /\ c \in pool.submitted
                   /\ c \in pool.known /\ c \in q.cases
           /\ \A c \in Cases : rows.resolver[c] # who[s]
<1> DEFINE e == who[s]
<1>1. /\ e \in Executions /\ e # Nobody /\ pool \in Pool /\ rows \in Rows
  BY AtWork DEF Working
<1>2. /\ q \in Rows
      /\ q.cases = rows.cases \cup pool.registrations[e]
      /\ \A c \in Cases : q.resolver[c] =
            IF c \in pool.known /\ pool.owner[c] = e /\ c \in pool.submitted
            THEN e ELSE rows.resolver[c]
  BY <1>1, CommittedFields
<1>3. \A c \in Cases : (c \in pool.known /\ pool.owner[c] = e /\ c \in pool.submitted)
                           => rows.resolver[c] \in {Nobody, e}
  BY DEF MayCommit, ContributionOf, SubmissionsFor, ClaimsFor
<1>4. \A c \in Cases : rows.resolver[c] # e
  BY <1>1 DEF DomainInv, CasesInv, CommittedHeld
<1>5. \A c \in Cases : pool.owner[c] = e =>
         c \in pool.known /\ c \in pool.registrations[e]
  BY <1>1 DEF DomainInv, CasesInv, OwnersExist, ClaimsRegistered
<1>6. pool.registrations[e] \subseteq pool.known
  BY <1>1 DEF DomainInv, CasesInv, ClaimsRegistered
<1> HIDE DEF e
<1>7. \A c \in Cases :
         \/ /\ q.resolver[c] = rows.resolver[c]
            /\ ~(pool.owner[c] = e /\ c \in pool.submitted)
         \/ /\ q.resolver[c] = e /\ rows.resolver[c] = Nobody
            /\ pool.owner[c] = e /\ c \in pool.submitted
            /\ c \in pool.known /\ c \in q.cases
  BY <1>2, <1>3, <1>4, <1>5
<1>8. QED
  BY <1>2, <1>4, <1>6, <1>7 DEF e

\* The transaction of a session commits, and its answer arrives.
LEMMA CommitStep ==
    ASSUME DomainInv, NEW s \in All, Commit(s)
    PROVE  DataTypes' /\ CasesInv'
<1> DEFINE e == who[s]
           q == Committed(rows, e, ContributionOf(pool, e))
<1>1. /\ s \in Slots /\ stage[s] = "saving"
      /\ stage' = [stage EXCEPT ![s] = "committed"]
      /\ MayCommit(rows, e, ContributionOf(pool, e))
      /\ receipt' = [receipt EXCEPT ![s] = rows']
      /\ UNCHANGED <<pool, sessions, saved, reported, failing, who, used>>
  BY DEF Commit, Enters, domain
<1>2. PICK roots \in SUBSET RootCases : rows' = [q EXCEPT !.cases = @ \cup roots]
  BY DEF Commit
<1>3. /\ q \in Rows
      /\ q.cases = rows.cases \cup pool.registrations[e]
      /\ \A c \in Cases :
            \/ /\ q.resolver[c] = rows.resolver[c]
               /\ ~(pool.owner[c] = e /\ c \in pool.submitted)
            \/ /\ q.resolver[c] = e /\ rows.resolver[c] = Nobody
               /\ pool.owner[c] = e /\ c \in pool.submitted
               /\ c \in pool.known /\ c \in q.cases
      /\ \A c \in Cases : rows.resolver[c] # e
  BY <1>1, Written
<1>4. /\ e \in Executions /\ e # Nobody /\ e \in used
      /\ \A t \in All : t # s => who[t] # e
      /\ stage \in [All -> Stages] /\ pool \in Pool /\ rows \in Rows
  BY <1>1, AtWork DEF Working
<1> HIDE DEF q
<1>5. /\ rows' \in Rows /\ rows'.cases = q.cases \cup roots
      /\ rows'.resolver = q.resolver
  BY <1>2, <1>3, DiagnosisAssumption DEF Rows
<1>6. /\ rows.cases \subseteq rows'.cases
      /\ pool.registrations[e] \subseteq rows'.cases
      /\ \A c \in Cases :
            \/ /\ rows'.resolver[c] = rows.resolver[c]
               /\ ~(pool.owner[c] = e /\ c \in pool.submitted)
            \/ /\ rows'.resolver[c] = e /\ rows.resolver[c] = Nobody
               /\ pool.owner[c] = e /\ c \in pool.submitted
               /\ c \in pool.known /\ c \in rows'.cases
  BY <1>3, <1>5
<1>7. /\ receipt \in [All -> Rows]
      /\ \A t \in All : receipt'[t] = IF t = s THEN rows' ELSE receipt[t]
      /\ \A t \in All : stage'[t] = IF t = s THEN "committed" ELSE stage[t]
  BY <1>1, <1>4 DEF DomainInv, DataTypes
<1> HIDE DEF e
<1>8. DataTypes'
  BY <1>1, <1>5, <1>7 DEF DomainInv, DataTypes
<1>9. OwnersExist'
  BY <1>1, <1>4, <1>6 DEF DomainInv, CasesInv, OwnersExist
<1>10. ClaimsRegistered' /\ SavedAgree'
  BY <1>1 DEF DomainInv, CasesInv, ClaimsRegistered, SavedAgree
<1>11. CommittedHeld'
  <2>1. ASSUME NEW t \in All, NEW c \in Cases, who[t] # Nobody,
               rows'.resolver[c] = who[t]
        PROVE  stage'[t] = "committed" /\ pool.owner[c] = who[t] /\ c \in pool.submitted
    <3>1. CASE t = s
      BY <1>3, <1>6, <1>7, <2>1, <3>1 DEF e
    <3>2. CASE t # s
      <4>1. rows.resolver[c] = who[t]
        BY <1>4, <1>6, <2>1, <3>2
      <4>2. QED
        BY <1>7, <2>1, <3>2, <4>1 DEF DomainInv, CasesInv, CommittedHeld
    <3>3. QED
      BY <3>1, <3>2
  <2>2. QED
    BY <1>1, <2>1 DEF CommittedHeld
<1>12. CommittedStored'
  <2>1. ASSUME NEW t \in All, stage'[t] = "committed"
        PROVE  /\ pool.registrations[who[t]] \subseteq rows'.cases
               /\ \A c \in pool.submitted :
                     pool.owner[c] = who[t] => rows'.resolver[c] = who[t]
    <3>1. pool.submitted \subseteq Cases
      BY <1>4 DEF Pool
    <3>2. CASE t = s
      BY <1>6, <3>1, <3>2 DEF e
    <3>3. CASE t # s
      <4>1. stage[t] = "committed"
        BY <1>7, <2>1, <3>3
      <4>2. /\ pool.registrations[who[t]] \subseteq rows.cases
            /\ \A c \in pool.submitted :
                  pool.owner[c] = who[t] => rows.resolver[c] = who[t]
        BY <4>1 DEF DomainInv, CasesInv, CommittedStored
      <4>3. QED
        BY <1>4, <1>6, <3>1, <3>3, <4>2
    <3>4. QED
      BY <3>2, <3>3
  <2>2. QED
    BY <1>1, <2>1 DEF CommittedStored
<1>13. ReceiptsOld'
  <2>1. ASSUME NEW t \in All
        PROVE  /\ receipt'[t].cases \subseteq rows'.cases
               /\ \A c \in Cases : receipt'[t].resolver[c] # Nobody =>
                     rows'.resolver[c] = receipt'[t].resolver[c]
               /\ stage'[t] # "committed" => receipt'[t] = EmptyRows
    <3>1. CASE t = s
      BY <1>7, <3>1
    <3>2. CASE t # s
      <4>1. /\ receipt[t].cases \subseteq rows.cases
            /\ \A c \in Cases : receipt[t].resolver[c] # Nobody =>
                  rows.resolver[c] = receipt[t].resolver[c]
            /\ stage[t] # "committed" => receipt[t] = EmptyRows
        BY DEF DomainInv, CasesInv, ReceiptsOld
      <4>2. receipt'[t] = receipt[t] /\ stage'[t] = stage[t]
        BY <1>7, <3>2
      <4>3. QED
        BY <1>6, <4>1, <4>2
    <3>3. QED
      BY <3>1, <3>2
  <2>2. QED
    BY <2>1 DEF ReceiptsOld
<1>14. KnownOrArriving'
  <2>1. s \in All /\ receipt'[s] = rows'
    BY <1>7
  <2>2. \A c \in rows'.cases : \E t \in Slots : c \in receipt'[t].cases
    BY <1>1, <2>1
  <2>3. QED
    BY <1>1, <1>6, <2>2 DEF DomainInv, CasesInv, KnownOrArriving
<1>15. NoOrphanClaim'
  <2>1. pool.known \subseteq Cases
    BY <1>4 DEF Pool
  <2>2. QED
    BY <1>1, <1>6, <2>1 DEF DomainInv, CasesInv, NoOrphanClaim
<1>16. ResolvedIsNotOffered'
  <2>1. pool.known \subseteq Cases
    BY <1>4 DEF Pool
  <2>2. ASSUME ~failing, NEW c \in pool.known, rows'.resolver[c] # Nobody
        PROVE  c \in pool.submitted /\ pool.owner[c] = rows'.resolver[c]
    <3>1. CASE rows'.resolver[c] = rows.resolver[c]
      <4>1. c \in rows.cases
        BY <2>1, <2>2, <3>1 DEF DomainInv, CasesInv, OwnersExist
      <4>2. QED
        BY <2>2, <3>1, <4>1 DEF DomainInv, CasesInv, ResolvedIsNotOffered, Resolved
    <3>2. CASE rows'.resolver[c] # rows.resolver[c]
      BY <1>6, <2>1, <3>2
    <3>3. QED
      BY <3>1, <3>2
  <2>3. QED
    BY <1>1, <2>2 DEF ResolvedIsNotOffered, Resolved
<1>17. QED
  BY <1>8, <1>9, <1>10, <1>11, <1>12, <1>13, <1>14, <1>15, <1>16 DEF CasesInv

\* The memory takes the rows the transaction returned, and the session is done.
LEMMA ConfirmStep ==
    ASSUME DomainInv, NEW s \in All, Confirm(s)
    PROVE  DataTypes' /\ CasesInv'
<1> DEFINE e == who[s]
           r == receipt[s]
           m == Merged(pool, r)
<1>1. /\ s \in Slots /\ stage[s] = "committed"
      /\ pool' = Confirmed(m, e)
      /\ saved' = saved \cup {e}
      /\ receipt' = [receipt EXCEPT ![s] = EmptyRows]
      /\ who' = [who EXCEPT ![s] = Nobody]
      /\ UNCHANGED <<sessions, rows, reported, failing, used>>
  BY DEF Confirm, Ends, store
<1>2. \E to \in {"none", "again"} : stage' = [stage EXCEPT ![s] = to]
  BY DEF Confirm, Ends
<1>3. /\ e \in Executions /\ e # Nobody /\ e \in used
      /\ \A t \in All : t # s => who[t] # e
      /\ pool \in Pool /\ rows \in Rows
      /\ who \in [All -> Holder] /\ stage \in [All -> Stages]
      /\ Report \in All /\ s # Report
  BY <1>1, AtWork DEF Working
<1>4. receipt \in [All -> Rows] /\ r \in Rows
  BY DEF DomainInv, DataTypes
<1>5. /\ \A t \in All : who'[t] = IF t = s THEN Nobody ELSE who[t]
      /\ \A t \in All : stage'[t] = "committed" => t # s /\ stage[t] = "committed"
      /\ \A t \in All : t # s => stage'[t] = stage[t]
      /\ \A t \in All : receipt'[t] = IF t = s THEN EmptyRows ELSE receipt[t]
  BY <1>1, <1>2, <1>3, <1>4
<1>6. /\ pool.registrations[e] \subseteq rows.cases
      /\ \A c \in pool.submitted : pool.owner[c] = e => rows.resolver[c] = e
  BY <1>1 DEF DomainInv, CasesInv, CommittedStored
<1>7. /\ r.cases \subseteq rows.cases
      /\ \A c \in Resolved(r) : /\ c \in Cases /\ c \in r.cases
                                /\ r.resolver[c] # Nobody
                                /\ rows.resolver[c] = r.resolver[c]
  BY <1>4 DEF DomainInv, CasesInv, ReceiptsOld, Resolved, Rows
<1> HIDE DEF e, r
<1>8. /\ m \in Pool
      /\ m.known = pool.known \cup r.cases
      /\ m.owner = [c \in Cases |-> IF c \in Resolved(r)
                                    THEN r.resolver[c] ELSE pool.owner[c]]
      /\ m.submitted = pool.submitted \cup Resolved(r)
      /\ m.registrations = pool.registrations
      /\ m.saved = pool.saved
  BY <1>3, <1>4, MergedFields
<1> HIDE DEF m
<1>9. /\ pool' \in Pool
      /\ pool'.known = m.known
      /\ pool'.owner = [c \in Cases |-> IF m.owner[c] = e /\ c \notin m.submitted
                                        THEN Nobody ELSE m.owner[c]]
      /\ pool'.submitted = m.submitted
      /\ pool'.registrations = m.registrations
      /\ pool'.saved = m.saved \cup {e}
  BY <1>1, <1>3, <1>8, ConfirmedFields
<1>10. /\ pool'.known = pool.known \cup r.cases
       /\ pool'.submitted = pool.submitted \cup Resolved(r)
       /\ pool'.registrations = pool.registrations
       /\ pool'.saved = pool.saved \cup {e}
  BY <1>8, <1>9
\* A case of the receipt has its resolver, and the others keep their owner or
\* lose the session that ends.
<1>11. \A c \in Cases :
          \/ /\ c \in Resolved(r) /\ pool'.owner[c] = rows.resolver[c]
             /\ rows.resolver[c] # Nobody
          \/ /\ c \notin Resolved(r) /\ pool'.owner[c] = pool.owner[c]
             /\ pool.owner[c] = e => c \in pool.submitted
          \/ /\ c \notin Resolved(r) /\ pool'.owner[c] = Nobody
             /\ pool.owner[c] = e /\ c \notin pool.submitted
  <2>1. \A c \in Cases :
           /\ m.owner[c] = IF c \in Resolved(r) THEN r.resolver[c] ELSE pool.owner[c]
           /\ pool'.owner[c] = IF m.owner[c] = e /\ c \notin m.submitted
                               THEN Nobody ELSE m.owner[c]
    BY <1>8, <1>9
  <2>2. QED
    BY <1>7, <1>8, <2>1
<1>12. DataTypes'
  <2>1. EmptyRows \in Rows
    BY DEF EmptyRows, Rows, Holder
  <2>2. QED
    BY <1>1, <1>3, <1>4, <1>9, <2>1 DEF DomainInv, DataTypes
<1>13. OwnersExist'
  <2>1. \A c \in Cases :
           /\ pool'.owner[c] \in used \cup {Nobody}
           /\ rows.resolver[c] \in used \cup {Nobody}
           /\ rows.resolver[c] # Nobody => c \in pool'.known \cap rows.cases
    BY <1>10, <1>11 DEF DomainInv, CasesInv, OwnersExist
  <2>2. \A c \in Cases :
           /\ pool'.owner[c] # Nobody => c \in pool'.known
           /\ c \in pool'.submitted => pool'.owner[c] # Nobody
    BY <1>7, <1>10, <1>11 DEF DomainInv, CasesInv, OwnersExist
  <2>3. QED
    BY <1>1, <2>1, <2>2 DEF OwnersExist
<1>14. ClaimsRegistered'
  <2>1. \A f \in Executions : \A c \in pool'.registrations[f] :
           c \in pool'.known /\ f \in used' /\ f # who'[Report]
    BY <1>1, <1>3, <1>5, <1>10 DEF DomainInv, CasesInv, ClaimsRegistered
  <2>2. ASSUME NEW t \in All, NEW c \in Cases, who'[t] # Nobody,
               pool'.owner[c] = who'[t]
        PROVE  c \in pool'.registrations[who'[t]]
    <3>1. t # s /\ who'[t] = who[t] /\ who[t] # Nobody
      BY <1>5, <2>2
    <3>2. pool.owner[c] = who[t]
      BY <1>11, <2>2, <3>1 DEF DomainInv, CasesInv, CommittedHeld
    <3>3. QED
      BY <1>10, <3>1, <3>2 DEF DomainInv, CasesInv, ClaimsRegistered
  <2>3. QED
    BY <2>1, <2>2 DEF ClaimsRegistered
<1>15. SavedAgree'
  <2>1. Nobody \notin saved
    BY CasePoolAssumption DEF DomainInv, DataTypes, ControlInv, ControlTypes
  <2>2. pool'.saved = saved'
    BY <1>1, <1>10 DEF DomainInv, CasesInv, SavedAgree
  <2>3. \A t \in All : who'[t] \notin saved'
    BY <1>1, <1>3, <1>5, <2>1 DEF DomainInv, CasesInv, SavedAgree
  <2>4. ASSUME NEW f \in sessions'
        PROVE  f \in saved' \/ \E t \in Slots : who'[t] = f
    <3>1. f \in saved \/ \E t \in Slots : who[t] = f
      BY <1>1, <2>4 DEF DomainInv, CasesInv, SavedAgree
    <3>2. CASE \E t \in Slots : who[t] = f
      <4>1. PICK t \in Slots : who[t] = f
        BY <3>2
      <4>2. t \in All
        BY DEF All
      <4>3. CASE t = s
        BY <1>1, <4>1, <4>3 DEF e
      <4>4. CASE t # s
        BY <1>5, <4>1, <4>2, <4>4
      <4>5. QED
        BY <4>3, <4>4
    <3>3. QED
      BY <1>1, <3>1, <3>2
  <2>5. QED
    BY <2>2, <2>3, <2>4 DEF SavedAgree
<1>16. CommittedHeld'
  <2>1. ASSUME NEW t \in All, NEW c \in Cases, who'[t] # Nobody,
               rows.resolver[c] = who'[t]
        PROVE  stage'[t] = "committed" /\ pool'.owner[c] = who'[t]
                  /\ c \in pool'.submitted
    <3>1. t # s /\ who'[t] = who[t] /\ stage'[t] = stage[t]
      BY <1>5, <2>1
    <3>2. stage[t] = "committed" /\ pool.owner[c] = who[t] /\ c \in pool.submitted
      BY <2>1, <3>1 DEF DomainInv, CasesInv, CommittedHeld
    <3>3. QED
      BY <1>10, <1>11, <2>1, <3>1, <3>2
  <2>2. QED
    BY <1>1, <2>1 DEF CommittedHeld
<1>17. CommittedStored'
  <2>1. ASSUME NEW t \in All, stage'[t] = "committed"
        PROVE  /\ pool'.registrations[who'[t]] \subseteq rows.cases
               /\ \A c \in pool'.submitted :
                     pool'.owner[c] = who'[t] => rows.resolver[c] = who'[t]
    <3>1. t # s /\ who'[t] = who[t] /\ stage[t] = "committed"
      BY <1>5, <2>1
    <3>2. who[t] # Nobody
      BY <3>1 DEF DomainInv, ControlInv, OneExecutionEach, Working
    <3>3. /\ pool.registrations[who[t]] \subseteq rows.cases
          /\ \A c \in pool.submitted :
                pool.owner[c] = who[t] => rows.resolver[c] = who[t]
      BY <3>1 DEF DomainInv, CasesInv, CommittedStored
    <3>4. pool'.submitted \subseteq Cases
      BY <1>9 DEF Pool
    <3>5. QED
      BY <1>10, <1>11, <3>1, <3>2, <3>3, <3>4
  <2>2. QED
    BY <1>1, <2>1 DEF CommittedStored
<1>18. ReceiptsOld'
  <2>1. EmptyRows.cases = {} /\ \A c \in Cases : EmptyRows.resolver[c] = Nobody
    BY DEF EmptyRows
  <2>2. QED
    BY <1>1, <1>5, <2>1 DEF DomainInv, CasesInv, ReceiptsOld
<1>19. KnownOrArriving'
  <2>1. ASSUME ~reported', NEW c \in rows'.cases \ pool'.known
        PROVE  \E t \in Slots : c \in receipt'[t].cases
    <3>1. PICK t \in Slots : c \in receipt[t].cases
      BY <1>1, <1>10, <2>1 DEF DomainInv, CasesInv, KnownOrArriving
    <3>2. t # s /\ t \in All
      BY <1>10, <2>1, <3>1 DEF r, All
    <3>3. QED
      BY <1>5, <3>1, <3>2
  <2>2. ASSUME NEW c \in pool'.known \ rows'.cases
        PROVE  \E f \in Executions \ pool'.saved : c \in pool'.registrations[f]
    <3>1. c \in pool.known \ rows.cases
      BY <1>1, <1>7, <1>10, <2>2
    <3>2. PICK f \in Executions \ pool.saved : c \in pool.registrations[f]
      BY <3>1 DEF DomainInv, CasesInv, KnownOrArriving
    <3>3. QED
      BY <1>6, <1>10, <3>1, <3>2
  <2>3. QED
    BY <2>1, <2>2 DEF KnownOrArriving
<1>20. NoOrphanClaim'
  <2>1. ASSUME NEW c \in pool'.known, pool'.owner[c] # Nobody
        PROVE  \/ \E t \in Slots : who'[t] = pool'.owner[c]
               \/ c \in pool'.submitted /\ rows.resolver[c] = pool'.owner[c]
    <3>1. c \in Cases
      BY <1>9 DEF Pool
    <3>2. CASE c \in Resolved(r)
      BY <1>10, <1>11, <3>1, <3>2
    <3>3. CASE c \notin Resolved(r) /\ pool.owner[c] = e
      BY <1>6, <1>10, <1>11, <2>1, <3>1, <3>3
    <3>4. CASE c \notin Resolved(r) /\ pool.owner[c] # e
      <4>1. pool'.owner[c] = pool.owner[c]
        BY <1>11, <3>1, <3>4
      <4>2. c \in pool.known
        BY <2>1, <3>1, <4>1 DEF DomainInv, CasesInv, OwnersExist
      <4>3. \/ \E t \in Slots : who[t] = pool.owner[c]
            \/ c \in pool.submitted /\ rows.resolver[c] = pool.owner[c]
        BY <2>1, <4>1, <4>2 DEF DomainInv, CasesInv, NoOrphanClaim
      <4>4. CASE \E t \in Slots : who[t] = pool.owner[c]
        <5>1. PICK t \in Slots : who[t] = pool.owner[c]
          BY <4>4
        <5>2. t # s /\ t \in All
          BY <3>4, <5>1 DEF e, All
        <5>3. QED
          BY <1>5, <4>1, <5>1, <5>2
      <4>5. CASE c \in pool.submitted /\ rows.resolver[c] = pool.owner[c]
        BY <1>10, <4>1, <4>5
      <4>6. QED
        BY <4>3, <4>4, <4>5
    <3>5. QED
      BY <3>2, <3>3, <3>4
  <2>2. QED
    BY <1>1, <2>1 DEF NoOrphanClaim
<1>21. ResolvedIsNotOffered'
  <2>1. ASSUME ~failing, NEW c \in Resolved(rows)
        PROVE  c \in pool'.submitted /\ pool'.owner[c] = rows.resolver[c]
    <3>1. c \in Cases /\ rows.resolver[c] # Nobody /\ c \in pool.known
      BY <1>3 DEF Resolved, Rows, DomainInv, CasesInv, OwnersExist
    <3>2. c \in pool.submitted /\ pool.owner[c] = rows.resolver[c]
      BY <2>1, <3>1 DEF DomainInv, CasesInv, ResolvedIsNotOffered
    <3>3. QED
      BY <1>10, <1>11, <3>1, <3>2
  <2>2. QED
    BY <1>1, <2>1 DEF ResolvedIsNotOffered
<1>22. QED
  BY <1>12, <1>13, <1>14, <1>15, <1>16, <1>17, <1>18, <1>19, <1>20, <1>21
     DEF CasesInv

\* The report has no case of its own.
LEMMA ReportOwnsNothing ==
    ASSUME DomainInv, stage[Report] \in Working
    PROVE  /\ \A c \in Cases : pool.owner[c] # who[Report]
           /\ pool.registrations[who[Report]] = {}
<1>1. Report \in All /\ who[Report] \in Executions /\ who[Report] # Nobody
         /\ pool \in Pool
  BY AtWork DEF All
<1>2. pool.registrations[who[Report]] = {}
  BY <1>1 DEF DomainInv, CasesInv, ClaimsRegistered
<1>3. \A c \in Cases : pool.owner[c] # who[Report]
  BY <1>1, <1>2 DEF DomainInv, CasesInv, ClaimsRegistered
<1>4. QED
  BY <1>2, <1>3

LEMMA SaveReportStep ==
    ASSUME DomainInv, SaveReport
    PROVE  /\ DataTypes' /\ CasesInv'
           /\ pool'.known = pool.known /\ pool'.owner = pool.owner
           /\ pool'.submitted = pool.submitted
<1> DEFINE e == who[Report]
<1>1. /\ stage[Report] = "saving"
      /\ reported' = TRUE
      /\ pool' = Confirmed(pool, e)
      /\ saved' = saved \cup {e}
      /\ stage' = [stage EXCEPT ![Report] = "none"]
      /\ who' = [who EXCEPT ![Report] = Nobody]
      /\ UNCHANGED <<sessions, failing, used, receipt>>
  BY DEF SaveReport
<1>2. PICK roots \in SUBSET RootCases : rows' = [rows EXCEPT !.cases = @ \cup roots]
  BY DEF SaveReport
<1>3. /\ e \in Executions /\ e # Nobody /\ e \in used
      /\ \A t \in All : t # Report => who[t] # e
      /\ pool \in Pool /\ rows \in Rows
      /\ who \in [All -> Holder] /\ stage \in [All -> Stages]
      /\ Report \in All /\ Report \notin Slots
  BY <1>1, AtWork DEF Working, All
<1>4. /\ \A c \in Cases : pool.owner[c] # e
      /\ pool.registrations[e] = {}
  BY <1>1, ReportOwnsNothing DEF Working
<1>5. /\ \A t \in All : who'[t] = IF t = Report THEN Nobody ELSE who[t]
      /\ \A t \in All : stage'[t] = "committed" <=> stage[t] = "committed"
  BY <1>1, <1>3
<1> HIDE DEF e
<1>6. /\ pool' \in Pool /\ pool'.known = pool.known
      /\ pool'.owner =
            [c \in Cases |-> IF pool.owner[c] = e /\ c \notin pool.submitted
                             THEN Nobody ELSE pool.owner[c]]
      /\ pool'.submitted = pool.submitted
      /\ pool'.registrations = pool.registrations
      /\ pool'.saved = pool.saved \cup {e}
  BY <1>1, <1>3, ConfirmedFields
<1>7. pool'.owner = pool.owner
  BY <1>3, <1>4, <1>6 DEF Pool
<1>8. /\ rows' \in Rows /\ rows.cases \subseteq rows'.cases
      /\ rows'.resolver = rows.resolver
  BY <1>2, <1>3, DiagnosisAssumption DEF Rows
<1>9. DataTypes'
  BY <1>1, <1>3, <1>6, <1>8 DEF DomainInv, DataTypes
<1>10. OwnersExist'
  BY <1>1, <1>6, <1>7, <1>8 DEF DomainInv, CasesInv, OwnersExist
<1>11. ClaimsRegistered'
  <2>1. \A f \in Executions : f # Nobody
    BY CasePoolAssumption
  <2>2. QED
    BY <1>1, <1>3, <1>5, <1>6, <1>7, <2>1 DEF DomainInv, CasesInv, ClaimsRegistered
<1>12. SavedAgree'
  <2>1. Nobody \notin saved
    BY CasePoolAssumption DEF DomainInv, DataTypes, ControlInv, ControlTypes
  <2>2. \A t \in Slots : who'[t] = who[t]
    BY <1>3, <1>5 DEF All
  <2>3. QED
    BY <1>1, <1>3, <1>5, <1>6, <2>1, <2>2 DEF DomainInv, CasesInv, SavedAgree
<1>13. CommittedHeld'
  BY <1>5, <1>6, <1>7, <1>8 DEF DomainInv, CasesInv, CommittedHeld
<1>14. CommittedStored'
  <2>1. \A t \in All : stage[t] = "committed" => t # Report
    BY <1>1
  <2>2. QED
    BY <1>5, <1>6, <1>7, <1>8, <2>1 DEF DomainInv, CasesInv, CommittedStored
<1>15. ReceiptsOld'
  BY <1>1, <1>5, <1>8 DEF DomainInv, CasesInv, ReceiptsOld
<1>16. KnownOrArriving'
  BY <1>1, <1>4, <1>6, <1>8 DEF DomainInv, CasesInv, KnownOrArriving
<1>17. NoOrphanClaim'
  <2>1. \A t \in Slots : who'[t] = who[t]
    BY <1>3, <1>5 DEF All
  <2>2. QED
    BY <1>6, <1>7, <1>8, <2>1 DEF DomainInv, CasesInv, NoOrphanClaim
<1>18. ResolvedIsNotOffered'
  <2>1. ASSUME ~failing, NEW c \in pool.known, rows.resolver[c] # Nobody
        PROVE  c \in pool.submitted /\ pool.owner[c] = rows.resolver[c]
    <3>1. c \in Cases
      BY <1>3 DEF Pool
    <3>2. c \in rows.cases
      BY <2>1, <3>1 DEF DomainInv, CasesInv, OwnersExist
    <3>3. QED
      BY <2>1, <3>2 DEF DomainInv, CasesInv, ResolvedIsNotOffered, Resolved
  <2>2. QED
    BY <1>1, <1>6, <1>7, <1>8, <2>1 DEF ResolvedIsNotOffered, Resolved
<1>19. QED
  BY <1>6, <1>7, <1>9, <1>10, <1>11, <1>12, <1>13, <1>14, <1>15, <1>16, <1>17,
     <1>18 DEF CasesInv

\* A failing stage writes the registrations of what is not saved.
LEMMA StageFailsStep ==
    ASSUME DomainInv, StageFails
    PROVE  DataTypes' /\ CasesInv' /\ pool'.known \subseteq rows'.cases
<1>1. /\ rows' = [rows EXCEPT !.cases =
                     @ \cup UNION {pool.registrations[e] : e \in Unsaved}]
      /\ UNCHANGED <<pool, sessions, saved, reported, failing, stage, who, used,
                     receipt>>
  BY DEF StageFails, domain
<1>2. pool \in Pool /\ rows \in Rows
  BY DEF DomainInv, DataTypes
<1>3. UNION {pool.registrations[e] : e \in Unsaved} \subseteq pool.known
  BY DEF DomainInv, CasesInv, ClaimsRegistered, Unsaved
<1>4. /\ rows' \in Rows /\ rows'.resolver = rows.resolver
      /\ rows'.cases = rows.cases \cup UNION {pool.registrations[e] : e \in Unsaved}
  <2>1. UNION {pool.registrations[e] : e \in Unsaved} \in SUBSET Cases
    BY <1>2, <1>3 DEF Pool
  <2>2. QED
    BY <1>1, <1>2, <2>1 DEF Rows
<1>5. rows.cases \subseteq rows'.cases /\ rows'.cases \ pool.known \subseteq rows.cases
  BY <1>3, <1>4
<1>6. pool.known \subseteq rows'.cases
  <2>1. ASSUME NEW c \in pool.known \ rows.cases
        PROVE  c \in UNION {pool.registrations[e] : e \in Unsaved}
    <3>1. PICK e \in Executions \ pool.saved : c \in pool.registrations[e]
      BY <2>1 DEF DomainInv, CasesInv, KnownOrArriving
    <3>2. e \in Unsaved
      BY <3>1 DEF Unsaved
    <3>3. QED
      BY <3>1, <3>2
  <2>2. QED
    BY <1>4, <2>1
<1>7. DataTypes'
  BY <1>1, <1>4 DEF DomainInv, DataTypes
<1>8. OwnersExist' /\ ClaimsRegistered' /\ SavedAgree' /\ CommittedHeld'
  BY <1>1, <1>4, <1>5 DEF DomainInv, CasesInv, OwnersExist, ClaimsRegistered,
                          SavedAgree, CommittedHeld
<1>9. CommittedStored' /\ ReceiptsOld'
  BY <1>1, <1>4, <1>5 DEF DomainInv, CasesInv, CommittedStored, ReceiptsOld
<1>10. KnownOrArriving'
  BY <1>1, <1>5, <1>6 DEF DomainInv, CasesInv, KnownOrArriving
<1>11. NoOrphanClaim'
  BY <1>1, <1>4 DEF DomainInv, CasesInv, NoOrphanClaim
<1>12. ResolvedIsNotOffered'
  <2>1. pool.known \subseteq Cases
    BY <1>2 DEF Pool
  <2>2. \A c \in pool.known : rows.resolver[c] # Nobody => c \in rows.cases
    BY <2>1 DEF DomainInv, CasesInv, OwnersExist
  <2>3. QED
    BY <1>1, <1>4, <2>2 DEF DomainInv, CasesInv, ResolvedIsNotOffered, Resolved
<1>13. QED
  BY <1>1, <1>6, <1>7, <1>8, <1>9, <1>10, <1>11, <1>12 DEF CasesInv

\* The pool of a new stage is the store.
LEMMA FreshStart ==
    ASSUME rows' \in Rows, pool' = Merged(EmptyPool, rows'),
           \A c \in Cases : /\ rows'.resolver[c] \in used' \cup {Nobody}
                            /\ rows'.resolver[c] # Nobody => c \in rows'.cases,
           sessions' = {}, saved' = {},
           stage' = [s \in All |-> "none"], who' = [s \in All |-> Nobody],
           receipt' = [s \in All |-> EmptyRows], reported' \in BOOLEAN
    PROVE  DataTypes' /\ CasesInv'
<1>1. /\ pool' \in Pool
      /\ pool'.known = rows'.cases
      /\ pool'.owner = rows'.resolver
      /\ pool'.submitted = Resolved(rows')
      /\ pool'.registrations = [e \in Executions |-> {}]
      /\ pool'.saved = {}
  BY FreshPool
<1>2. /\ EmptyRows \in Rows /\ EmptyRows.cases = {}
      /\ \A c \in Cases : EmptyRows.resolver[c] = Nobody
  BY DEF EmptyRows, Rows, Holder
<1>3. Resolved(rows') = {c \in rows'.cases : rows'.resolver[c] # Nobody}
  BY DEF Resolved
<1>4. DataTypes'
  BY <1>1, <1>2 DEF DataTypes
<1>5. OwnersExist' /\ ClaimsRegistered' /\ SavedAgree' /\ CommittedHeld'
  BY <1>1, <1>3 DEF OwnersExist, ClaimsRegistered, SavedAgree, CommittedHeld
<1>6. CommittedStored' /\ ReceiptsOld' /\ KnownOrArriving'
  BY <1>1, <1>2 DEF CommittedStored, ReceiptsOld, KnownOrArriving
<1>7. NoOrphanClaim' /\ ResolvedIsNotOffered'
  BY <1>1, <1>3 DEF NoOrphanClaim, ResolvedIsNotOffered
<1>8. QED
  BY <1>4, <1>5, <1>6, <1>7 DEF CasesInv

LEMMA ResumeStep ==
    ASSUME DomainInv, Resume
    PROVE  DataTypes' /\ CasesInv'
<1>1. /\ pool' = Merged(EmptyPool, rows')
      /\ sessions' = {} /\ saved' = {} /\ rows' = rows /\ reported' = reported
      /\ stage' = [s \in All |-> "none"] /\ who' = [s \in All |-> Nobody]
      /\ receipt' = [s \in All |-> EmptyRows] /\ used' = used
  BY DEF Resume, store
<1>2. rows' \in Rows /\ reported' \in BOOLEAN
  BY <1>1 DEF DomainInv, DataTypes
<1>3. \A c \in Cases : /\ rows'.resolver[c] \in used' \cup {Nobody}
                       /\ rows'.resolver[c] # Nobody => c \in rows'.cases
  BY <1>1 DEF DomainInv, CasesInv, OwnersExist
<1>4. QED
  BY <1>1, <1>2, <1>3, FreshStart

LEMMA InitCases == Init => DataTypes /\ CasesInv
<1> SUFFICES ASSUME Init PROVE DataTypes /\ CasesInv
  OBVIOUS
<1>1. PICK left \in SUBSET Cases : rows = [EmptyRows EXCEPT !.cases = left]
  BY DEF Init
<1>2. /\ EmptyRows \in Rows /\ EmptyRows.cases = {}
      /\ \A c \in Cases : EmptyRows.resolver[c] = Nobody
  BY DEF EmptyRows, Rows, Holder
<1>3. rows \in Rows /\ \A c \in Cases : rows.resolver[c] = Nobody
  BY <1>1 DEF EmptyRows, Rows, Holder
<1>4. /\ pool = Merged(EmptyPool, rows) /\ sessions = {} /\ saved = {}
      /\ stage = [s \in All |-> "none"] /\ who = [s \in All |-> Nobody]
      /\ receipt = [s \in All |-> EmptyRows] /\ reported = FALSE
  BY DEF Init
<1>5. /\ pool \in Pool
      /\ pool.known = rows.cases
      /\ pool.owner = rows.resolver
      /\ pool.submitted = Resolved(rows)
      /\ pool.registrations = [e \in Executions |-> {}]
      /\ pool.saved = {}
  BY <1>3, <1>4, FreshPool
<1>6. Resolved(rows) = {}
  BY <1>3 DEF Resolved, Rows
<1>7. DataTypes
  BY <1>2, <1>3, <1>4, <1>5 DEF DataTypes
<1>8. OwnersExist /\ ClaimsRegistered /\ SavedAgree /\ CommittedHeld
  BY <1>3, <1>4, <1>5, <1>6 DEF OwnersExist, ClaimsRegistered, SavedAgree, CommittedHeld
<1>9. CommittedStored /\ ReceiptsOld /\ KnownOrArriving
  BY <1>2, <1>4, <1>5 DEF CommittedStored, ReceiptsOld, KnownOrArriving
<1>10. NoOrphanClaim /\ ResolvedIsNotOffered
  <2>1. pool.known \subseteq Cases
    BY <1>5 DEF Pool
  <2>2. QED
    BY <1>3, <1>5, <1>6, <2>1 DEF NoOrphanClaim, ResolvedIsNotOffered
<1>11. QED
  BY <1>7, <1>8, <1>9, <1>10 DEF CasesInv

\* A session that ends without an execution leaves the cases alone.
LEMMA GrantedEnds ==
    ASSUME DomainInv, NEW s \in All, stage[s] = "granted", Ends(s, "none"),
           failing => failing', UNCHANGED <<domain, store, receipt>>
    PROVE  DataTypes' /\ CasesInv'
<1>1. /\ stage' = [stage EXCEPT ![s] = "none"]
      /\ who' = [who EXCEPT ![s] = Nobody]
      /\ UNCHANGED <<pool, sessions, saved, rows, reported, receipt, used>>
  BY DEF Ends, domain, store
<1>2. who[s] = Nobody
  BY DEF DomainInv, ControlInv, OneExecutionEach, Working
<1>3. who' = who
  BY <1>1, <1>2 DEF DomainInv, ControlInv, ControlTypes
<1>4. \A t \in All : stage'[t] = "committed" <=> stage[t] = "committed"
  BY <1>1 DEF DomainInv, ControlInv, ControlTypes
<1>5. QED
  BY <1>1, <1>3, <1>4, RearrangedStep

\* A session whose place changes on the way to its save.
LEMMA Advanced ==
    ASSUME DomainInv, NEW s \in All, stage[s] # "committed",
           NEW to \in Stages \ {"committed"}, stage' = [stage EXCEPT ![s] = to],
           failing => failing',
           UNCHANGED <<domain, store, receipt, used, who>>
    PROVE  DataTypes' /\ CasesInv'
<1>1. \A t \in All : stage'[t] = "committed" <=> stage[t] = "committed"
  BY DEF DomainInv, ControlInv, ControlTypes
<1>2. QED
  BY <1>1, RearrangedStep DEF domain, store

\* A session that ends gives up what it has not saved, and the store is as it
\* was.
LEMMA GivenUp ==
    ASSUME DomainInv, NEW s \in All, stage[s] \in {"running", "saving"},
           NEW to \in {"none", "again"}, Aborted(who[s]), Ends(s, to),
           failing => failing', UNCHANGED <<saved, store, receipt>>
    PROVE  DataTypes' /\ CasesInv'
<1>1. /\ stage' = [stage EXCEPT ![s] = to] /\ who' = [who EXCEPT ![s] = Nobody]
      /\ UNCHANGED <<saved, reported, receipt, used>> /\ rows' = rows
  BY DEF Ends, store
<1>2. rows' \in Rows
  BY <1>1 DEF DomainInv, DataTypes
<1>3. QED
  BY <1>1, <1>2, AbortStep

LEMMA UnacknowledgedStep ==
    ASSUME DomainInv, NEW s \in All, CommitUnacknowledged(s)
    PROVE  DataTypes' /\ CasesInv'
<1>1. /\ stage[s] = "saving"
      /\ MayCommit(rows, who[s], ContributionOf(pool, who[s]))
      /\ rows' = Committed(rows, who[s], ContributionOf(pool, who[s]))
      /\ Aborted(who[s]) /\ Ends(s, "none") /\ failing' = TRUE
      /\ UNCHANGED <<saved, reported, receipt>>
  BY DEF CommitUnacknowledged
<1>2. /\ stage' = [stage EXCEPT ![s] = "none"] /\ who' = [who EXCEPT ![s] = Nobody]
      /\ used' = used
  BY <1>1 DEF Ends
<1>3. /\ rows' \in Rows
      /\ rows'.cases = rows.cases \cup pool.registrations[who[s]]
      /\ pool.registrations[who[s]] \subseteq pool.known
      /\ \A c \in Cases :
           \/ /\ rows'.resolver[c] = rows.resolver[c]
              /\ ~(pool.owner[c] = who[s] /\ c \in pool.submitted)
           \/ /\ rows'.resolver[c] = who[s] /\ rows.resolver[c] = Nobody
              /\ pool.owner[c] = who[s] /\ c \in pool.submitted
              /\ c \in pool.known /\ c \in rows'.cases
  BY <1>1, Written
<1>4. /\ rows.cases \subseteq rows'.cases
      /\ rows'.cases \subseteq rows.cases \cup pool.known
      /\ \A c \in Cases :
            \/ rows'.resolver[c] = rows.resolver[c]
            \/ /\ failing'
               /\ rows'.resolver[c] = who[s]
               /\ rows.resolver[c] = Nobody
               /\ c \in pool.known \cap rows'.cases
  BY <1>1, <1>3
<1>5. QED
  BY <1>1, <1>2, <1>3, <1>4, AbortStep

\* Every step of the stage keeps the cases.
LEMMA CasesStep == DomainInv /\ [Next]_vars => DataTypes' /\ CasesInv'
<1> SUFFICES ASSUME DomainInv, [Next]_vars PROVE DataTypes' /\ CasesInv'
  OBVIOUS
<1>1. CASE Spawn
  <2>1. PICK fresh \in SUBSET {s \in Slots \ (Waiting \cup elected) :
                                stage[s] = "none"} :
           stage' = [s \in All |-> IF s \in fresh THEN "asking" ELSE stage[s]]
    BY <1>1 DEF Spawn
  <2>2. \A t \in All : stage'[t] = "committed" <=> stage[t] = "committed"
    BY <2>1
  <2>3. QED
    BY <1>1, <2>2, RearrangedStep DEF Spawn, domain, store
<1>2. CASE ReportBegins
  <2>1. stage' = [stage EXCEPT ![Report] = "asking"] /\ stage[Report] # "committed"
    BY <1>2 DEF ReportBegins, DomainInv, ControlInv, ReportIsAlone
  <2>2. \A t \in All : stage'[t] = "committed" <=> stage[t] = "committed"
    BY <2>1 DEF DomainInv, ControlInv, ControlTypes
  <2>3. QED
    BY <1>2, <2>2, RearrangedStep DEF ReportBegins, domain, store
<1>3. ASSUME NEW s \in All, Elect(s) PROVE DataTypes' /\ CasesInv'
  BY <1>3, RearrangedStep DEF Elect, domain, store
<1>4. ASSUME NEW s \in All, Call(s) PROVE DataTypes' /\ CasesInv'
  BY <1>4, CallStep
<1>5. ASSUME NEW s \in All, Assign(s) PROVE DataTypes' /\ CasesInv'
  <2>1. UNCHANGED <<domain, store, failing, who, used, receipt>>
    BY <1>5 DEF Assign
  <2>2. CASE Enters(s, "queued", "granted")
    BY <2>1, <2>2, Advanced DEF Enters, Stages
  <2>3. CASE Enters(s, "cancelled", "none")
    BY <2>1, <2>3, Advanced DEF Enters, Stages
  <2>4. CASE Enters(s, "unread", "stranded")
    BY <2>1, <2>4, Advanced DEF Enters, Stages
  <2>5. QED
    BY <1>5, <2>2, <2>3, <2>4 DEF Assign
<1>6. ASSUME NEW s \in All, NothingLeft(s) PROVE DataTypes' /\ CasesInv'
  BY <1>6, GrantedEnds DEF NothingLeft
<1>7. ASSUME NEW s \in All, BeginFails(s) PROVE DataTypes' /\ CasesInv'
  BY <1>7, GrantedEnds DEF BeginFails
<1>8. ASSUME NEW s \in All, NEW e \in Executions, Begin(s, e)
      PROVE  DataTypes' /\ CasesInv'
  BY <1>8, BeginStep
<1>9. ASSUME NEW s \in All, Complete(s) PROVE DataTypes' /\ CasesInv'
  BY <1>9, Advanced DEF Complete, Enters, Stages
<1>10. ASSUME NEW s \in All, SpendRounds(s) PROVE DataTypes' /\ CasesInv'
  BY <1>10, Advanced DEF SpendRounds, Enters, Stages
<1>11. ASSUME NEW s \in All, Retry(s) PROVE DataTypes' /\ CasesInv'
  BY <1>11, GivenUp DEF Retry
<1>12. ASSUME NEW s \in All, Fatal(s) PROVE DataTypes' /\ CasesInv'
  BY <1>12, GivenUp DEF Fatal
<1>13. ASSUME NEW s \in All, Commit(s) PROVE DataTypes' /\ CasesInv'
  BY <1>13, CommitStep
<1>14. ASSUME NEW s \in All, CommitUnacknowledged(s) PROVE DataTypes' /\ CasesInv'
  BY <1>14, UnacknowledgedStep
<1>15. ASSUME NEW s \in All, Confirm(s) PROVE DataTypes' /\ CasesInv'
  BY <1>15, ConfirmStep
<1>16. ASSUME NEW s \in All, StopSession(s) PROVE DataTypes' /\ CasesInv'
  <2>1. UNCHANGED <<store, failing, receipt>>
    BY <1>16 DEF StopSession
  <2>2. ASSUME NEW from \in {"asking", "again", "queued"},
               NEW to \in {"none", "unread", "cancelled"},
               Enters(s, from, to), UNCHANGED <<domain, who, used>>
        PROVE  DataTypes' /\ CasesInv'
    BY <2>1, <2>2, Advanced DEF Enters, Stages
  <2>3. CASE stage[s] = "granted" /\ Ends(s, "none") /\ UNCHANGED domain
    BY <2>1, <2>3, GrantedEnds
  <2>4. CASE stage[s] = "running" /\ Aborted(who[s]) /\ Ends(s, "none")
             /\ UNCHANGED saved
    BY <2>1, <2>4, GivenUp
  <2>5. \/ /\ \E from \in {"asking", "again", "queued"},
                 to \in {"none", "unread", "cancelled"} : Enters(s, from, to)
           /\ UNCHANGED <<domain, who, used>>
        \/ stage[s] = "granted" /\ Ends(s, "none") /\ UNCHANGED domain
        \/ stage[s] = "running" /\ Aborted(who[s]) /\ Ends(s, "none")
             /\ UNCHANGED saved
    BY <1>16 DEF StopSession
  <2>6. QED
    BY <2>2, <2>3, <2>4, <2>5
<1>17. CASE SaveReport
  BY <1>17, SaveReportStep
<1>18. CASE Cancel
  BY <1>18, RearrangedStep DEF Cancel, domain, store
<1>19. CASE StageFails
  BY <1>19, StageFailsStep
<1>20. CASE Resume
  BY <1>20, ResumeStep
<1>21. CASE UNCHANGED vars
  BY <1>21, RearrangedStep DEF vars, domain, store
<1>22. CASE Publish
  BY <1>22, RearrangedStep DEF Publish, domain, store
<1>23. ASSUME NEW s \in All, Ask(s) PROVE DataTypes' /\ CasesInv'
  BY <1>23, Advanced DEF Ask, Stages
<1>24. ASSUME NEW s \in All, Misdirected(s) PROVE DataTypes' /\ CasesInv'
  BY <1>24, RearrangedStep DEF Misdirected, domain, store
<1>25. QED
  BY <1>1, <1>2, <1>3, <1>4, <1>5, <1>6, <1>7, <1>8, <1>9, <1>10, <1>11, <1>12,
     <1>13, <1>14, <1>15, <1>16, <1>17, <1>18, <1>19, <1>20, <1>21, <1>22, <1>23,
     <1>24 DEF Next, Over

\* The pool, the store and the receipts agree in every state.
THEOREM DomainHolds == Spec => []DomainInv
<1>1. Init => DomainInv
  BY InitControl, InitCases DEF DomainInv
<1>2. DomainInv /\ [Next]_vars => DomainInv'
  BY ControlStep, CasesStep DEF DomainInv
<1>3. QED
  BY <1>1, <1>2, PTL DEF Spec

-----------------------------------------------------------------------------
(* The queue of the pool *)

\* An election that is suspended has its seat, and the head it has seen, or one
\* that came before it, is still there to be dropped.
QueueInv ==
    /\ pending \in Seq(All)
    /\ electing \subseteq elected
    /\ electing # {} => pending # <<>>
    /\ closing \in BOOLEAN

LEMMA EnqueuedQueue ==
    ASSUME pending \in Seq(All), NEW s \in All, Enqueued(s)
    PROVE  /\ pending' \in Seq(All)
           /\ pending # <<>> => pending' # <<>>
BY DEF Enqueued

LEMMA QueueStep == QueueInv /\ [Next]_vars => QueueInv'
<1> SUFFICES ASSUME QueueInv, [Next]_vars PROVE QueueInv'
  OBVIOUS
<1> USE DEF QueueInv, queue
<1>1. CASE Spawn \/ ReportBegins \/ SaveReport \/ StageFails \/ UNCHANGED vars
  BY <1>1 DEF Spawn, ReportBegins, SaveReport, StageFails, vars
<1>2. CASE Cancel
  BY <1>2 DEF Cancel
<1>0. CASE Resume
  <2>1. /\ pending' = <<>> /\ electing' = {} /\ elected' = {}
        /\ closing' = FALSE
    BY <1>0 DEF Resume
  <2>2. <<>> \in Seq(All)
    OBVIOUS
  <2>3. QED
    BY ONLY <2>1, <2>2 DEF QueueInv
<1>3. CASE Publish
  BY <1>3 DEF Publish
<1>4. ASSUME NEW s \in All, Ask(s) PROVE QueueInv'
  BY <1>4, EnqueuedQueue DEF Ask
<1>5. ASSUME NEW s \in All, Elect(s) PROVE QueueInv'
  BY <1>5 DEF Elect
<1>6. ASSUME NEW s \in All, Assign(s) \/ Misdirected(s) PROVE QueueInv'
  BY <1>6 DEF Assign, Misdirected
<1>7. ASSUME NEW s \in All,
             NothingLeft(s) \/ BeginFails(s) \/ (\E e \in Executions : Begin(s, e))
             \/ Call(s) \/ Complete(s) \/ SpendRounds(s) \/ Retry(s) \/ Fatal(s)
      PROVE  QueueInv'
  BY <1>7 DEF NothingLeft, BeginFails, Begin, Call, Complete, SpendRounds, Retry,
              Fatal, Ends
<1>8. ASSUME NEW s \in All, Commit(s) \/ CommitUnacknowledged(s) \/ Confirm(s)
      PROVE  QueueInv'
  BY <1>8 DEF Commit, CommitUnacknowledged, Confirm, Ends
<1>9. ASSUME NEW s \in All, StopSession(s) PROVE QueueInv'
  <2>1. CASE UNCHANGED <<pending, electing, closing, elected>>
    BY <2>1
  <2>2. CASE Enqueued(s) /\ UNCHANGED <<electing, closing, elected>>
    BY <2>2, EnqueuedQueue
  <2>3. QED
    BY <1>9, <2>1, <2>2 DEF StopSession, Ends
<1>10. QED
  BY <1>0, <1>1, <1>2, <1>3, <1>4, <1>5, <1>6, <1>7, <1>8, <1>9 DEF Next, Over

\* The queue is in order in every state.
THEOREM QueueHolds == Spec => []QueueInv
<1>1. ASSUME Init PROVE QueueInv
  <2>1. pending = <<>> /\ electing = {} /\ elected = {} /\ closing = FALSE
    BY <1>1 DEF Init
  <2>2. <<>> \in Seq(All)
    OBVIOUS
  <2>3. QED
    BY ONLY <2>1, <2>2 DEF QueueInv
<1>2. QED
  BY <1>1, QueueStep, PTL DEF Spec

-----------------------------------------------------------------------------
(* The turning points of the stage *)

\* Nothing of the cases opens again while the report is written.
LEMMA StillSaved ==
    ASSUME CasesSaved, pool' = pool \/ (/\ pool'.known = pool.known
                                        /\ pool'.owner = pool.owner
                                        /\ pool'.submitted = pool.submitted),
           sessions' \subseteq sessions, saved \subseteq saved'
    PROVE  CasesSaved'
BY DEF CasesSaved, Available, Unsubmitted

\* The report gives up nothing of the cases.
LEMMA ReportAborts ==
    ASSUME DomainInv, stage[Report] \in Working, Aborted(who[Report])
    PROVE  /\ pool'.known = pool.known /\ pool'.owner = pool.owner
           /\ pool'.submitted = pool.submitted /\ sessions' \subseteq sessions
<1>1. Report \in All
  BY DEF All
<1>2. /\ who[Report] \in Executions /\ who[Report] \notin pool.saved /\ pool \in Pool
      /\ \A c \in Cases : pool.owner[c] # who[Report]
  BY <1>1, AtWork, ReportOwnsNothing
<1>3. /\ pool' = Abandoned(pool, who[Report])
      /\ sessions' = sessions \ {who[Report]}
  BY DEF Aborted
<1>4. /\ pool'.known = pool.known
      /\ pool'.owner = [c \in Cases |-> IF pool.owner[c] = who[Report]
                                        THEN Nobody ELSE pool.owner[c]]
      /\ pool'.submitted = {c \in pool.submitted : pool.owner[c] # who[Report]}
  BY <1>2, <1>3, AbandonedFields
<1>5. QED
  BY <1>2, <1>3, <1>4 DEF Pool

\* When no session is left and no case available, nothing is left to save.
LEMMA NothingOpen ==
    ASSUME DomainInv, Active = {}, Available(pool) = {}
    PROVE  CasesSaved
<1>1. \A s \in Slots : who[s] = Nobody
  BY DEF DomainInv, ControlInv, OneExecutionEach, Active, Working, All
<1>2. Unsubmitted(pool) = {}
  BY <1>1 DEF DomainInv, CasesInv, NoOrphanClaim, Unsubmitted
<1>3. sessions \subseteq saved
  <2>1. \A e \in sessions : e # Nobody
    BY CasePoolAssumption DEF DomainInv, DataTypes, ControlInv, ControlTypes
  <2>2. QED
    BY <1>1, <2>1 DEF DomainInv, CasesInv, SavedAgree
<1>4. QED
  BY <1>2, <1>3 DEF CasesSaved

LEMMA TurnsStep == DomainInv /\ TurnsInv /\ [Next]_vars => TurnsInv'
<1> SUFFICES ASSUME DomainInv, TurnsInv, [Next]_vars PROVE TurnsInv'
  OBVIOUS
<1>1. Report \in All /\ \A s \in All : s = Report \/ s \in Slots
  BY DEF All
<1>2. ASSUME NEW s \in All, stage[s] # "none", phase = "reporting"
      PROVE  s = Report
  BY <1>1, <1>2 DEF DomainInv, ControlInv, ReportIsAlone
\* What the step may do to a stage that runs and goes on running.
<1>3. ASSUME Running, phase' = phase, phase = "reporting" => CasesSaved'
      PROVE  TurnsInv'
  BY <1>3 DEF TurnsInv, ReportIsNeverRefused, FoundCasesSurvive, Running
<1>4. ASSUME Running, phase' = phase,
             pool' = pool \/ (/\ pool'.known = pool.known
                              /\ pool'.owner = pool.owner
                              /\ pool'.submitted = pool.submitted),
             sessions' \subseteq sessions, saved \subseteq saved'
      PROVE  TurnsInv'
  BY <1>3, <1>4, StillSaved DEF TurnsInv, ReportIsNeverRefused
<1>5. ASSUME Running, phase' = phase, phase # "reporting" PROVE TurnsInv'
  BY <1>3, <1>5
<1>6. ASSUME NEW s \in All, Running, phase' = phase, stage[s] # "none", s \in Slots
      PROVE  TurnsInv'
  BY <1>2, <1>5, <1>6, DiagnosisAssumption
<1>7. ASSUME NEW s \in All, Running, phase' = phase,
             stage[s] \in {"running", "saving"}, Aborted(who[s]), saved' = saved
      PROVE  TurnsInv'
  <2>1. CASE phase = "reporting"
    <3>1. s = Report
      BY <1>2, <1>7, <2>1
    <3>2. QED
      BY <1>4, <1>7, <3>1, ReportAborts DEF Working
  <2>2. QED
    BY <1>5, <1>7, <2>1
<1>8. CASE Spawn
  BY <1>5, <1>8 DEF Spawn, Running
<1>9. CASE ReportBegins
  <2>1. phase' = "reporting" /\ pool' = pool /\ sessions' = sessions /\ saved' = saved
    BY <1>9 DEF ReportBegins, domain
  <2>2. CasesSaved
    BY <1>9, NothingOpen DEF ReportBegins
  <2>3. CasesSaved'
    BY <2>1, <2>2, StillSaved
  <2>4. QED
    BY <2>1, <2>3 DEF TurnsInv, ReportIsNeverRefused, FoundCasesSurvive
<1>10. ASSUME NEW s \in All, Elect(s) PROVE TurnsInv'
  BY <1>4, <1>10 DEF Elect, domain
<1>11. ASSUME NEW s \in All, Call(s) PROVE TurnsInv'
  BY <1>6, <1>11 DEF Call
<1>12. ASSUME NEW s \in All, Assign(s) PROVE TurnsInv'
  BY <1>4, <1>12 DEF Assign, domain
<1>13. ASSUME NEW s \in All, NothingLeft(s) PROVE TurnsInv'
  BY <1>4, <1>13 DEF NothingLeft, Ends, domain
<1>14. ASSUME NEW s \in All, BeginFails(s) PROVE TurnsInv'
  BY <1>4, <1>14 DEF BeginFails, Ends, domain
<1>15. ASSUME NEW s \in All, NEW e \in Executions, Begin(s, e) PROVE TurnsInv'
  <2>1. /\ Running /\ phase' = phase /\ stage[s] = "granted"
        /\ pool' = Begun(pool, e) /\ saved' = saved
        /\ s = Report => sessions' = sessions
    BY <1>15 DEF Begin, Enters
  <2>2. pool'.known = pool.known /\ pool'.owner = pool.owner
           /\ pool'.submitted = pool.submitted
    BY <2>1, BegunFields DEF DomainInv, DataTypes
  <2>3. CASE s = Report
    BY <1>4, <2>1, <2>2, <2>3
  <2>4. QED
    BY <1>1, <1>6, <2>1, <2>3
<1>16. ASSUME NEW s \in All, Complete(s) PROVE TurnsInv'
  BY <1>4, <1>16 DEF Complete, Enters, domain
<1>17. ASSUME NEW s \in All, SpendRounds(s) PROVE TurnsInv'
  BY <1>4, <1>17 DEF SpendRounds, Enters, domain
<1>18. ASSUME NEW s \in All, Retry(s) PROVE TurnsInv'
  BY <1>7, <1>18 DEF Retry, Ends
<1>19. ASSUME NEW s \in All, Fatal(s) PROVE TurnsInv'
  BY <1>7, <1>19 DEF Fatal, Ends
<1>20. ASSUME NEW s \in All, Commit(s) PROVE TurnsInv'
  BY <1>6, <1>20 DEF Commit, Enters
<1>21. ASSUME NEW s \in All, CommitUnacknowledged(s) PROVE TurnsInv'
  BY <1>6, <1>21 DEF CommitUnacknowledged, Ends
<1>22. ASSUME NEW s \in All, Confirm(s) PROVE TurnsInv'
  <2>1. Running /\ stage[s] = "committed" /\ s \in Slots /\ phase' = phase
    BY <1>22 DEF Confirm, Ends
  <2>2. QED
    BY <1>6, <2>1
<1>23. ASSUME NEW s \in All, StopSession(s) PROVE TurnsInv'
  <2>1. Running /\ phase' = phase
    BY <1>23 DEF StopSession, Ends
  <2>2. CASE UNCHANGED domain
    BY <1>4, <2>1, <2>2 DEF domain
  <2>3. CASE stage[s] = "running" /\ Aborted(who[s]) /\ UNCHANGED saved
    BY <1>7, <2>1, <2>3
  <2>4. QED
    BY <1>23, <2>2, <2>3 DEF StopSession
<1>24. CASE SaveReport
  <2>1. Running /\ phase' \in {phase, "done"}
    BY <1>24 DEF SaveReport
  <2>2. CASE phase' = "done"
    BY <2>2 DEF TurnsInv, ReportIsNeverRefused, FoundCasesSurvive
  <2>3. CASE phase' = phase
    <3>1. /\ pool'.known = pool.known /\ pool'.owner = pool.owner
          /\ pool'.submitted = pool.submitted
      BY <1>24, SaveReportStep
    <3>2. sessions' = sessions /\ saved \subseteq saved'
      BY <1>24 DEF SaveReport
    <3>3. QED
      BY <1>4, <2>1, <2>3, <3>1, <3>2
  <2>4. QED
    BY <2>1, <2>2, <2>3
<1>25. CASE Cancel
  BY <1>4, <1>25 DEF Cancel, domain
<1>26. CASE StageFails
  <2>1. phase' = "failed" /\ pool'.known \subseteq rows'.cases
    BY <1>26, StageFailsStep DEF StageFails
  <2>2. QED
    BY <2>1 DEF TurnsInv, ReportIsNeverRefused, FoundCasesSurvive
<1>27. CASE Resume
  <2>1. phase' = "working"
    BY <1>27 DEF Resume
  <2>2. QED
    BY <2>1 DEF TurnsInv, ReportIsNeverRefused, FoundCasesSurvive
<1>28. CASE UNCHANGED vars
  BY <1>28 DEF vars, domain, store, TurnsInv, ReportIsNeverRefused,
               FoundCasesSurvive, CasesSaved, Available, Unsubmitted
<1>29. CASE Publish
  BY <1>4, <1>29 DEF Publish, domain
<1>30. ASSUME NEW s \in All, Ask(s) \/ Misdirected(s) PROVE TurnsInv'
  BY <1>4, <1>30 DEF Ask, Misdirected, domain
<1>31. QED
  BY <1>8, <1>9, <1>10, <1>11, <1>12, <1>13, <1>14, <1>15, <1>16, <1>17, <1>18,
     <1>19, <1>20, <1>21, <1>22, <1>23, <1>24, <1>25, <1>26, <1>27, <1>28, <1>29,
     <1>30 DEF Next, Over

\* The report finds nothing open and nothing unsaved, and a stage that failed has
\* left every case in the store.
THEOREM TurnsHold == Spec => []TurnsInv
<1>1. Init => TurnsInv
  BY DEF Init, TurnsInv, ReportIsNeverRefused, FoundCasesSurvive
<1>2. DomainInv /\ TurnsInv /\ [Next]_vars => TurnsInv'
  BY TurnsStep
<1>3. QED
  BY <1>1, <1>2, DomainHolds, PTL DEF Spec

-----------------------------------------------------------------------------
(* The properties *)

\* Every variable keeps its type; the bound of the free seats is a matter of
\* their count.
THEOREM DiagnosisTypes == Spec => []TypeOK
<1>1. DomainInv /\ QueueInv => TypeOK
  <2> SUFFICES ASSUME DomainInv, QueueInv PROVE TypeOK
    OBVIOUS
  <2>1. /\ Cardinality(elected) \in Nat /\ Cardinality(Holding) \in Nat
        /\ free \in Nat /\ Seats \in Nat
    BY FS_CardinalityType, DiagnosisAssumption
       DEF DomainInv, ControlInv, ControlTypes, SeatsCount
  <2>2. free + Cardinality(elected) + Cardinality(Holding) = Seats
    BY DEF DomainInv, ControlInv, SeatsCount
  <2>3. free \in 0..Seats
    BY <2>1, <2>2, Less
  <2>4. QED
    BY <2>3 DEF DomainInv, DataTypes, ControlInv, ControlTypes, QueueInv, TypeOK
<1>2. QED
  BY <1>1, DomainHolds, QueueHolds, PTL

\* The session of the report is never refused.  (_run_work,
\* _require_cases_saved)
THEOREM ReportIsAccepted == Spec => []ReportIsNeverRefused
<1>1. TurnsInv => ReportIsNeverRefused
  BY DEF TurnsInv
<1>2. QED
  BY <1>1, TurnsHold, PTL

\* The registrations of a failed stage reach the store.
\* (retain_pending_cases)
THEOREM FoundCasesAreKept == Spec => []FoundCasesSurvive
<1>1. TurnsInv => FoundCasesSurvive
  BY DEF TurnsInv
<1>2. QED
  BY <1>1, TurnsHold, PTL

\* Claims in memory and resolvers in the store agree, on every way a session
\* ends.  (abort_session, save_session)
THEOREM CasesStaySafe == Spec => []CasesAreSafe
<1>1. DomainInv => CasesAreSafe
  <2> SUFFICES ASSUME DomainInv PROVE CasesAreSafe
    OBVIOUS
  <2>1. NoOrphanClaim /\ ResolvedIsNotOffered
    BY DEF DomainInv, CasesInv
  <2>2. SubmissionsNeverRefused
    <3>1. ASSUME ~failing, NEW e, NEW c \in SubmissionsFor(pool, e)
          PROVE  rows.resolver[c] \in {Nobody, e}
      <4>1. c \in pool.known /\ pool.owner[c] = e /\ c \in Cases
        BY <3>1 DEF SubmissionsFor, ClaimsFor, DomainInv, DataTypes, Pool
      <4>2. rows.resolver[c] # Nobody => c \in rows.cases
        BY <4>1 DEF DomainInv, CasesInv, OwnersExist
      <4>3. QED
        BY <2>1, <3>1, <4>1, <4>2 DEF ResolvedIsNotOffered, Resolved
    <3>2. QED
      BY <3>1 DEF SubmissionsNeverRefused, MayCommit, ContributionOf
  <2>3. QED
    BY <2>1, <2>2 DEF CasesAreSafe
<1>2. QED
  BY <1>1, DomainHolds, PTL

\* The report is saved only over cases that are resolved in the store.
\* (_save_report_progress)
THEOREM ReportsReadSavedCases == Spec => ReportReadsSavedCases
<1>1. ASSUME DomainInv, [Next]_vars, ~reported, reported'
      PROVE  rows.cases = Resolved(rows)
  <2>1. SaveReport
    <3>1. ASSUME NEW s \in All, Ask(s) \/ Assign(s) \/ Misdirected(s)
                   \/ NothingLeft(s) \/ BeginFails(s)
                   \/ (\E e \in Executions : Begin(s, e)) \/ Complete(s)
                   \/ SpendRounds(s) \/ Retry(s) \/ Fatal(s)
          PROVE  FALSE
      BY <1>1, <3>1 DEF Ask, Assign, Misdirected, NothingLeft, BeginFails, Begin,
                        Complete, SpendRounds, Retry, Fatal, store
    <3>2. ASSUME NEW s \in All, Commit(s) \/ CommitUnacknowledged(s)
                   \/ Confirm(s) \/ StopSession(s) \/ Elect(s) \/ Call(s)
          PROVE  FALSE
      BY <1>1, <3>2 DEF Commit, CommitUnacknowledged, Confirm, StopSession,
                        Elect, Call, store
    <3>3. ~Spawn /\ ~ReportBegins /\ ~Publish /\ ~Cancel /\ ~StageFails /\ ~Resume
             /\ ~Over /\ ~UNCHANGED vars
      BY <1>1 DEF Spawn, ReportBegins, Publish, Cancel, StageFails, Resume, Over,
                  vars, store
    <3>4. QED
      BY <1>1, <3>1, <3>2, <3>3 DEF Next
  <2>2. Running /\ stage[Report] = "saving" /\ CasesSaved
    BY <2>1 DEF SaveReport
  <2>3. phase = "reporting"
    BY <1>1, <2>2 DEF Running, DomainInv, ControlInv, ReportIsAlone
  <2>4. \A s \in Slots : stage[s] = "none" /\ s \in All
    BY <1>1, <2>3 DEF DomainInv, ControlInv, ReportIsAlone, All
  <2>5. \A s \in Slots : who[s] = Nobody /\ receipt[s] = EmptyRows
    BY <1>1, <2>4 DEF DomainInv, ControlInv, OneExecutionEach, Working,
                      CasesInv, ReceiptsOld
  <2>6. ASSUME NEW c \in rows.cases PROVE c \in Resolved(rows)
    <3>1. c \in pool.known
      BY <1>1, <2>5, <2>6 DEF DomainInv, CasesInv, KnownOrArriving, EmptyRows
    <3>2. c \in pool.submitted
      BY <2>2, <3>1 DEF CasesSaved, Available, Unsubmitted
    <3>3. pool.owner[c] # Nobody
      BY <1>1, <3>1, <3>2 DEF DomainInv, DataTypes, Pool, CasesInv, OwnersExist
    <3>4. rows.resolver[c] = pool.owner[c]
      BY <1>1, <2>5, <3>1, <3>3 DEF DomainInv, CasesInv, NoOrphanClaim
    <3>5. QED
      BY <2>6, <3>3, <3>4 DEF Resolved
  <2>7. QED
    BY <2>6 DEF Resolved
<1>2. DomainInv /\ [Next]_vars =>
         [~reported /\ reported' => rows.cases = Resolved(rows)]_vars
  BY <1>1
<1>3. QED
  BY <1>2, DomainHolds, PTL DEF Spec, ReportReadsSavedCases

=============================================================================
