---------------------------- MODULE AnalysisStages ----------------------------
(***************************************************************************)
(* The six stages of an analysis, their commits in the store, and the      *)
(* checks by which a resumed execution skips a stage.                      *)
(*                                                                         *)
(* A stage saves its results in several transactions; the process may stop *)
(* after each of them, and the execution that resumes the task may run     *)
(* under other settings.  An action is one transaction of a stage.         *)
(*                                                                         *)
(* A task is analysed as a whole, or made by a reanalysis that forces some *)
(* of the stages and leaves the others out; both begin with an empty run,  *)
(* and a resume is an analysis of the whole whatever the task began as.    *)
(*                                                                         *)
(* Abstracted: what the results are, the announcements, the diagnosis      *)
(* before its report.  "steady" and "stale" are not in the code: the       *)
(* properties speak of the history of a task by them.                      *)
(***************************************************************************)
EXTENDS Naturals, FiniteSets

CONSTANTS
    Chapters,         \* the chapters of the book
    Batches,          \* number of batches of paragraphs for LTP
    SettingsInUse,    \* the settings an execution may run under
    MaxExecutions     \* bound on the executions of the task

Settings == [semantic : BOOLEAN, ltp : BOOLEAN, word2vec : BOOLEAN]

ASSUME AnalysisStagesAssumption ==
    /\ Chapters # {} /\ IsFiniteSet(Chapters)
    /\ Batches \in Nat \ {0}
    /\ SettingsInUse # {} /\ SettingsInUse \subseteq Settings
    /\ MaxExecutions \in Nat

VARIABLES
    status,      \* the status of the task
    settings,    \* the settings of the current or last execution
    skip,        \* stages this execution skips, decided when it begins
    at,          \* the transaction it is about to run, or "idle"
    cursor,      \* batches of LTP this execution has saved
    saved,       \* the single results in the store
    annotated,   \* the chapters whose annotation is saved
    eventful,    \* the chapters with an annotation that has an event
    analysed,    \* the batches marked as analysed
    executions,  \* executions so far
    steady,      \* all of them ran all stages, under the same settings
    stale        \* results older than what they are computed from

vars == <<status, settings, skip, at, cursor, saved, annotated, eventful,
          analysed, executions, steady, stale>>

Stages == 1..6   \* preprocess, annotate, linguistic, aggregate, topic, diagnose

PreprocessSteps == {"chapters", "texts", "paragraphs", "metrics", "curves", "vectors"}
LinguisticSteps == {"batch", "mneg", "corrected", "boundary", "word2vec", "pos"}

\* "curves" are those of the metrics as preprocessed, "corrected" those of the
\* metrics after the correction of negations.
Results == PreprocessSteps \cup (LinguisticSteps \ {"batch"})
           \cup {"stats", "topics", "report"}

\* The results that are computed from all of the others.
Digests == {"stats", "report"}

Steps == {"idle", "annotate", "batch", "end"} \cup Results

TypeOK ==
    /\ status \in {"pending", "running", "failed", "completed"}
    /\ settings \in Settings
    /\ skip \subseteq Stages
    /\ at \in Steps
    /\ cursor \in 0..Batches
    /\ saved \subseteq Results
    /\ annotated \subseteq Chapters
    /\ eventful \subseteq Chapters
    /\ analysed \subseteq 1..Batches
    /\ executions \in 0..MaxExecutions
    /\ steady \in BOOLEAN
    /\ stale \subseteq Digests

Init ==
    /\ status = "pending"
    /\ settings \in SettingsInUse
    /\ skip = {}
    /\ at = "idle"
    /\ cursor = 0
    /\ saved = {}
    /\ annotated = {}
    /\ eventful = {}
    /\ analysed = {}
    /\ executions = 0
    /\ steady = TRUE
    /\ stale = {}

-----------------------------------------------------------------------------
(* The checks of a resume. *)

\* Mutant: the rows of the paragraphs alone count.
ParagraphsAreThere(s) == {"texts", "paragraphs"} \subseteq saved

\* Mutant: curves count only as preprocessed, not as corrected.
PreprocessedCurves(s) ==
    /\ {"texts", "paragraphs", "metrics", "curves"} \subseteq saved
    /\ s.semantic => "vectors" \in saved

PreprocessComplete(s) ==
    /\ {"texts", "paragraphs", "metrics"} \subseteq saved
    /\ {"curves", "corrected"} \cap saved # {}
    /\ s.semantic => "vectors" \in saved

AnnotateComplete == "chapters" \in saved /\ annotated = Chapters

LinguisticComplete == "paragraphs" \in saved /\ analysed = 1..Batches

\* Each stage is skipped only when all those before it are.
Skipped(s) ==
    LET preprocess == PreprocessComplete(s)
        annotate   == preprocess /\ AnnotateComplete
        linguistic == annotate /\ (~s.ltp \/ LinguisticComplete)
        aggregate  == linguistic /\ "stats" \in saved
        topic      == aggregate /\ "topics" \in saved
        diagnose   == topic /\ "report" \in saved
    IN  {n \in Stages :
            \/ n = 1 /\ preprocess
            \/ n = 2 /\ annotate
            \/ n = 3 /\ linguistic
            \/ n = 4 /\ aggregate
            \/ n = 5 /\ topic
            \/ n = 6 /\ diagnose}

\* The first transaction of a stage.  A second look at the preprocessing ends
\* it at once; it has been skipped in that case.
First(n, s) ==
    CASE n = 1 -> "chapters"
      [] n = 2 -> "annotate"
      [] n = 3 -> IF s.ltp THEN "batch" ELSE "boundary"
      [] n = 4 -> "stats"
      [] n = 5 -> "topics"
      [] n = 6 -> "report"

\* Where an execution goes that is through with the stages before n.
From(n, skipped, s) ==
    LET left == {m \in n..6 : m \notin skipped}
    IN  IF left = {} THEN "end"
        ELSE First(CHOOSE m \in left : \A k \in left : m <= k, s)

-----------------------------------------------------------------------------
(* The life of an execution. *)

\* The settings are those of the process by now.  The first execution of a
\* task that a reanalysis made leaves out the stages that are not forced,
\* without looking at the store; when none is forced it runs them all.
Begin ==
    /\ status \in {"pending", "failed"}
    /\ executions < MaxExecutions
    /\ executions' = executions + 1
    /\ status' = "running"
    /\ settings' \in SettingsInUse
    /\ \/ skip' = Skipped(settings')
       \/ /\ executions = 0
          /\ \E forced \in SUBSET Stages \ {{}} : skip' = Stages \ forced
    /\ steady' = IF executions = 0 THEN skip' = {}
                 ELSE steady /\ settings' = settings
    /\ at' = From(1, skip', settings')
    /\ cursor' = 0
    /\ UNCHANGED <<saved, annotated, eventful, analysed, stale>>

Execution == <<settings, skip, executions, steady>>

Marks == <<annotated, eventful, analysed>>

\* A crash, a cancellation or an error: what is committed stays.
Interrupt ==
    /\ status = "running"
    /\ status' = "failed"
    /\ at' = "idle"
    /\ UNCHANGED <<Execution, cursor, saved, Marks, stale>>

Finish ==
    /\ at = "end"
    /\ status' = "completed"
    /\ at' = "idle"
    /\ UNCHANGED <<Execution, cursor, saved, Marks, stale>>

\* A transaction that adds results and removes some.
Commits(step, adds, drops, next) ==
    /\ at = step
    /\ at' = next
    /\ saved' = (saved \ drops) \cup adds
    /\ UNCHANGED <<status, Execution>>

\* What the statistics and the report are computed from changes.
Outdates == stale' = Digests \cap saved

-----------------------------------------------------------------------------
(* Preprocessing. *)

\* What goes with the paragraphs: their metrics, features and topics.
OfParagraphs == {"paragraphs", "metrics", "curves", "vectors", "mneg",
                 "corrected", "boundary", "pos", "topics"}

\* Mutant: the events go with their annotations.
ReplaceChapters ==
    /\ Commits("chapters", {"chapters"}, {"texts"} \cup OfParagraphs, "texts")
    /\ annotated' = {}
    /\ eventful' = {}
    /\ analysed' = {}
    /\ Outdates
    /\ UNCHANGED cursor

\* The old chapters are deleted first, with everything that hangs on them, the
\* annotations too.
InsertChapters ==
    /\ eventful = {}
    /\ Commits("chapters", {"chapters"}, {"texts"} \cup OfParagraphs, "texts")
    /\ annotated' = {}
    /\ analysed' = {}
    /\ Outdates
    /\ UNCHANGED <<cursor, eventful>>

\* One event forbids to delete its annotation, and with it to delete any
\* chapter: the stage fails.
ChaptersKept ==
    /\ at = "chapters"
    /\ eventful # {}
    /\ status' = "failed"
    /\ at' = "idle"
    /\ UNCHANGED <<Execution, cursor, saved, Marks, stale>>

InsertTexts ==
    /\ Commits("texts", {"texts"}, {}, "paragraphs")
    /\ UNCHANGED <<cursor, Marks, stale>>

InsertParagraphs ==
    /\ Commits("paragraphs", {"paragraphs"}, OfParagraphs, "metrics")
    /\ analysed' = {}
    /\ Outdates
    /\ UNCHANGED <<cursor, annotated, eventful>>

InsertMetrics ==
    /\ Commits("metrics", {"metrics"}, {"mneg", "boundary"}, "curves")
    /\ analysed' = {}
    /\ Outdates
    /\ UNCHANGED <<cursor, annotated, eventful>>

InsertCurves ==
    /\ Commits("curves", {"curves"}, {"corrected"},
               IF settings.semantic THEN "vectors" ELSE From(2, skip, settings))
    /\ Outdates
    /\ UNCHANGED <<cursor, Marks>>

InsertVectors ==
    /\ Commits("vectors", {"vectors"}, {}, From(2, skip, settings))
    /\ UNCHANGED <<cursor, Marks, stale>>

-----------------------------------------------------------------------------
(* Annotation: chapters in any order, the complete ones left out. *)

\* A work of the chapter that is not its last is saved with events, or the
\* works of an earlier execution that do not fit are discarded.
AnnotatePart(c) ==
    /\ at = "annotate"
    /\ "chapters" \in saved
    /\ c \notin annotated
    /\ eventful' \in {eventful \cup {c}, eventful \ {c}}
    /\ UNCHANGED <<status, Execution, at, cursor, saved, annotated, analysed, stale>>

\* A chapter need not have an event.
Annotate(c) ==
    /\ at = "annotate"
    /\ "chapters" \in saved
    /\ c \notin annotated
    /\ annotated' = annotated \cup {c}
    /\ eventful' \in {eventful, eventful \cup {c}}
    /\ Outdates
    /\ UNCHANGED <<status, Execution, at, cursor, saved, analysed>>

\* A run without chapters is annotated.
AnnotateEnds ==
    /\ "chapters" \in saved => annotated = Chapters
    /\ Commits("annotate", {}, {}, From(3, skip, settings))
    /\ UNCHANGED <<cursor, Marks, stale>>

-----------------------------------------------------------------------------
(* The language stage. *)

\* A run without paragraphs has nothing to analyse.
NoParagraphs ==
    /\ "paragraphs" \notin saved
    /\ Commits(First(3, settings), {}, {}, From(4, skip, settings))
    /\ UNCHANGED <<cursor, Marks, stale>>

\* The first batch of an execution clears the marks of all paragraphs; each
\* writes the sentences LTP has counted into the metrics.
SaveBatch ==
    /\ "paragraphs" \in saved
    /\ cursor < Batches
    /\ Commits("batch", {}, {}, IF cursor + 1 = Batches THEN "mneg" ELSE "batch")
    /\ cursor' = cursor + 1
    /\ analysed' = IF cursor = 0 THEN {1} ELSE analysed \cup {cursor + 1}
    /\ Outdates
    /\ UNCHANGED <<annotated, eventful>>

ApplyMneg ==
    /\ Commits("mneg", {"mneg"}, {}, "corrected")
    /\ Outdates
    /\ UNCHANGED <<cursor, Marks>>

CorrectCurves ==
    /\ Commits("corrected", {"corrected"}, {"curves"}, "boundary")
    /\ Outdates
    /\ UNCHANGED <<cursor, Marks>>

\* Without vectors or with too few labels there is no boundary to save.
ScoreBoundary ==
    /\ "paragraphs" \in saved
    /\ \E adds \in {{}, {"boundary"}} :
        /\ adds # {} => "vectors" \in saved
        /\ Commits("boundary", adds, {},
               IF settings.ltp /\ settings.word2vec
               THEN "word2vec" ELSE From(4, skip, settings))
    /\ UNCHANGED <<cursor, Marks, stale>>

TrainWord2Vec ==
    /\ Commits("word2vec", {"word2vec"}, {}, "pos")
    /\ UNCHANGED <<cursor, Marks, stale>>

InsertPosVectors ==
    /\ Commits("pos", {"pos"}, {}, From(4, skip, settings))
    /\ UNCHANGED <<cursor, Marks, stale>>

-----------------------------------------------------------------------------
(* The stages that save once. *)

Aggregate ==
    /\ AnnotateComplete
    /\ Commits("stats", {"stats"}, {}, From(5, skip, settings))
    /\ stale' = (Digests \cap saved) \ {"stats"}
    /\ UNCHANGED <<cursor, Marks>>

\* A book without a paragraph to train on has no topics.
SaveTopics ==
    /\ \E adds \in {{"topics"}, {}} :
          /\ adds # {} => "paragraphs" \in saved
          /\ Commits("topics", adds, {}, From(6, skip, settings))
    /\ UNCHANGED <<cursor, Marks, stale>>

Diagnose ==
    /\ AnnotateComplete
    /\ Commits("report", {"report"}, {}, "end")
    /\ stale' = stale \ {"report"}
    /\ UNCHANGED <<cursor, Marks>>

-----------------------------------------------------------------------------

Next ==
    \/ Begin \/ Interrupt \/ Finish
    \/ InsertChapters \/ ChaptersKept \/ InsertTexts \/ InsertParagraphs
    \/ InsertMetrics \/ InsertCurves \/ InsertVectors
    \/ (\E c \in Chapters : AnnotatePart(c) \/ Annotate(c)) \/ AnnotateEnds
    \/ NoParagraphs \/ SaveBatch \/ ApplyMneg \/ CorrectCurves \/ ScoreBoundary
    \/ TrainWord2Vec \/ InsertPosVectors
    \/ Aggregate \/ SaveTopics \/ Diagnose

Spec == Init /\ [][Next]_vars

-----------------------------------------------------------------------------
(* Properties. *)

\* The first execution of a reanalysis that forces some of the stages.
Narrowed == executions = 1 /\ skip # {}

\* However often a task was interrupted, whatever it began as and whatever
\* settings it was resumed under, one that is completed by an execution of all
\* stages has everything the checks ask for: the stages it skipped were
\* complete and are so still.  (check_stage_completion_status)
CompletedIsCovered ==
    status = "completed" /\ ~Narrowed =>
        /\ {"chapters", "texts", "paragraphs", "metrics", "stats", "report"}
               \subseteq saved
        /\ {"curves", "corrected"} \cap saved # {}
        /\ settings.semantic => "vectors" \in saved
        /\ settings.ltp => analysed = 1..Batches
        /\ annotated = Chapters

\* The statistics and the report are of the annotations and the counts that are
\* in the store, wherever a task was interrupted, as long as it is resumed
\* under the settings it began with and was not narrowed: then no stage runs
\* again once a later one has saved.  (run_aggregate, run_diagnose and the
\* checks of completion, which look for a result and not for its age)
ResultsAreCurrent == steady => stale = {}

\* What is expensive is never done twice: no interruption loses an annotated
\* chapter or the analysis of a book that is analysed to the end.  Other
\* settings may, and then a single event in the store protects all chapters.
\* (insert_chapters, run_linguistic)
ExpensiveWorkKept ==
    [][/\ steady' \/ eventful # {} => annotated \subseteq annotated'
       /\ steady' /\ analysed = 1..Batches => analysed' = 1..Batches]_vars

-----------------------------------------------------------------------------
(* Stated by the source and not kept. *)

\* What the stages produce under these settings.
Required(s) ==
    {"chapters", "texts", "paragraphs", "metrics", "stats", "report"}
    \cup (IF s.semantic THEN {"vectors"} ELSE {})
    \cup (IF s.ltp THEN {"mneg", "corrected"} ELSE {})
    \cup (IF s.ltp /\ s.word2vec THEN {"word2vec", "pos"} ELSE {})

\* "With LTP enabled the counts of emotions are corrected and the curves
\* computed again": a task that completes with all its stages, under settings
\* that never changed, has everything they produce.
CompletedIsWhole == status = "completed" /\ steady => Required(settings) \subseteq saved
===============================================================================
