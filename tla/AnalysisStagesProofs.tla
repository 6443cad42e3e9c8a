-------------------------- MODULE AnalysisStagesProofs --------------------------
(***************************************************************************)
(* Proofs about AnalysisStages, for any book, any number of batches of     *)
(* LTP, any settings and any number of interruptions and resumptions.      *)
(***************************************************************************)
EXTENDS AnalysisStages, TLAPS

\* Where an execution is that is through with the stages before the next.
AfterPreprocess == Steps \ (PreprocessSteps \cup {"idle"})
AfterAnnotate   == AfterPreprocess \ {"annotate"}
AfterLinguistic == AfterAnnotate \ LinguisticSteps
AfterAggregate  == AfterLinguistic \ {"stats"}

LinguisticDone == settings.ltp => analysed = 1..Batches

\* An execution works exactly as long as the task is running.
WorkingIsRunning == status = "running" <=> at # "idle"

\* Nothing is saved before the first execution.
FreshIsEmpty ==
    executions = 0 =>
        saved = {} /\ annotated = {} /\ analysed = {} /\ stale = {} /\ at = "idle"

\* A stage is skipped because it is complete, and so are the stages before it;
\* the execution is never within a stage it skips.
SkipSound ==
    at # "idle" /\ ~Narrowed =>
        /\ 1 \in skip => PreprocessComplete(settings)
        /\ 2 \in skip => 1 \in skip /\ annotated = Chapters
        /\ 3 \in skip => 2 \in skip /\ LinguisticDone
        /\ 4 \in skip => 3 \in skip /\ "stats" \in saved
        /\ 5 \in skip => 4 \in skip
        /\ 6 \in skip => 5 \in skip /\ "report" \in saved
        /\ at \in PreprocessSteps => 1 \notin skip
        /\ at = "annotate" => 2 \notin skip
        /\ at \in LinguisticSteps => 3 \notin skip
        /\ at = "stats" => 4 \notin skip
        /\ at = "topics" => 5 \notin skip
        /\ at = "report" => 6 \notin skip

\* The stages that are behind the execution are complete.
StagesBehind ==
    ~Narrowed =>
        /\ at \in AfterPreprocess => PreprocessComplete(settings)
        /\ at \in AfterAnnotate => annotated = Chapters
        /\ at \in AfterLinguistic => LinguisticDone
        /\ at \in AfterAggregate => "stats" \in saved
        /\ at = "end" => "report" \in saved

\* Within the preprocessing: what precedes the next transaction is saved, and
\* once its chapters are inserted nothing is annotated.
PreprocessBehind ==
    /\ "texts" \in saved => "chapters" \in saved
    /\ at \in {"texts", "paragraphs", "metrics", "curves", "vectors"} =>
           "chapters" \in saved /\ annotated = {}
    /\ at \in {"paragraphs", "metrics", "curves", "vectors"} => "texts" \in saved
    /\ at \in {"metrics", "curves", "vectors"} => "paragraphs" \in saved
    /\ at \in {"curves", "vectors"} => "metrics" \in saved
    /\ at = "vectors" => "curves" \in saved

\* Within the language stage the marks grow batch by batch.
MarksBehind ==
    /\ at \in PreprocessSteps \cup {"annotate"} => cursor = 0
    /\ at = "batch" => settings.ltp /\ cursor < Batches
                       /\ (cursor # 0 => analysed = 1..cursor)
    /\ at \in {"mneg", "corrected", "boundary", "word2vec", "pos"} => LinguisticDone

\* While all executions are alike, a stage that runs has nothing behind it that
\* a later one has saved.
SteadyOrder ==
    steady =>
        /\ ~Narrowed
        /\ stale = {}
        /\ analysed # {} => annotated = Chapters
        /\ annotated # {} => PreprocessComplete(settings)
        /\ Digests \cap saved # {} =>
              PreprocessComplete(settings) /\ annotated = Chapters
              /\ LinguisticDone /\ "stats" \in saved
        /\ at \in PreprocessSteps => annotated = {}
        /\ at \in PreprocessSteps \cup {"annotate"} \cup LinguisticSteps =>
              Digests \cap saved = {}
        /\ at = "stats" => Digests \cap saved = {}
        /\ at \in {"annotate", "batch"} => analysed # 1..Batches

StageInv ==
    /\ TypeOK
    /\ WorkingIsRunning /\ FreshIsEmpty /\ SkipSound /\ StagesBehind
    /\ PreprocessBehind /\ MarksBehind /\ SteadyOrder
    /\ CompletedIsCovered

-----------------------------------------------------------------------------
(* Where an execution goes. *)

\* It goes to the first stage that is left, or to the end.  (From)
LEMMA FromFirst ==
    ASSUME NEW n \in Stages, NEW skipped, NEW s
    PROVE  \/ /\ \A k \in n..6 : k \in skipped
              /\ From(n, skipped, s) = "end"
           \/ \E m \in n..6 :
                 /\ m \notin skipped
                 /\ \A k \in n..6 : k < m => k \in skipped
                 /\ From(n, skipped, s) = First(m, s)
<1> DEFINE left == {m \in n..6 : m \notin skipped}
           least == CHOOSE m \in left : \A k \in left : m <= k
<1>1. CASE left = {}
    BY <1>1 DEF From
<1>2. CASE left # {}
    <2>1. \E m \in left : \A k \in left : m <= k
        <3> DEFINE lowest(m) == m \in left /\ \A k \in n..6 : k < m => k \notin left
        <3>1. n \in 1..6
            BY DEF Stages
        <3>2. \E m \in 1..6 : lowest(m)
            BY <1>2, <3>1
        <3> QED
            BY <3>1, <3>2
    <2>2. least \in left /\ \A k \in left : least <= k
        BY <2>1
    <2>3. From(n, skipped, s) = First(least, s)
        BY <1>2 DEF From
    <2>4. least \in n..6 /\ least \notin skipped
        BY <2>2
    <2>5. \A k \in n..6 : k < least => k \in skipped
        BY <2>2, <2>4 DEF Stages
    <2> QED
        BY <2>3, <2>4, <2>5
<1> QED
    BY <1>1, <1>2

\* After a stage that is not skipped none is, since each stage is skipped only
\* when those before it are.  (check_stage_completion_status)
LEMMA FromNext ==
    ASSUME NEW n \in 2..6, NEW skipped, NEW s,
           \A k \in 2..6 : k \in skipped => k - 1 \in skipped,
           n - 1 \notin skipped
    PROVE  From(n, skipped, s) = First(n, s)
<1>1. n \in Stages /\ n \notin skipped
    BY DEF Stages
<1>2. \/ /\ \A k \in n..6 : k \in skipped
         /\ From(n, skipped, s) = "end"
      \/ \E m \in n..6 :
            /\ m \notin skipped
            /\ \A k \in n..6 : k < m => k \in skipped
            /\ From(n, skipped, s) = First(m, s)
    BY <1>1, FromFirst
<1>3. n \in n..6
    OBVIOUS
<1>4. PICK m \in n..6 : /\ \A k \in n..6 : k < m => k \in skipped
                        /\ From(n, skipped, s) = First(m, s)
    BY <1>1, <1>2, <1>3
<1>5. m = n
    BY <1>1, <1>3, <1>4
<1> QED
    BY <1>4, <1>5

\* The stages an execution skips are the first ones.
LEMMA SkipsPrefix ==
    ASSUME SkipSound, at # "idle", ~Narrowed
    PROVE  \A k \in 2..6 : k \in skip => k - 1 \in skip
BY DEF SkipSound

\* The next transaction of an execution that is through with a stage.
LEMMA Onwards ==
    ASSUME SkipSound, at # "idle", ~Narrowed
    PROVE  /\ 1 \notin skip => From(2, skip, settings) = "annotate"
           /\ 2 \notin skip => From(3, skip, settings)
                                   = IF settings.ltp THEN "batch" ELSE "boundary"
           /\ 3 \notin skip => From(4, skip, settings) = "stats"
           /\ 4 \notin skip => From(5, skip, settings) = "topics"
           /\ 5 \notin skip => From(6, skip, settings) = "report"
<1>1. \A k \in 2..6 : k \in skip => k - 1 \in skip
    BY SkipsPrefix
<1>2. \A n \in 2..6 : n - 1 \notin skip =>
                     From(n, skip, settings) = First(n, settings)
    BY <1>1, FromNext
<1>3. /\ First(2, settings) = "annotate"
      /\ First(3, settings) = IF settings.ltp THEN "batch" ELSE "boundary"
      /\ First(4, settings) = "stats"
      /\ First(5, settings) = "topics"
      /\ First(6, settings) = "report"
    BY DEF First
<1> QED
    BY <1>2, <1>3

\* Wherever it goes, it goes to the beginning of a later stage.
LEMMA FromRange ==
    ASSUME NEW n \in 1..6, NEW skipped, NEW s \in Settings
    PROVE  LET next == From(n, skipped, s)
           IN  /\ next \in {"chapters", "annotate", "batch", "boundary", "stats",
                            "topics", "report", "end"}
               /\ next = "chapters" => n = 1
               /\ next = "annotate" => n \in 1..2
               /\ next = "batch" => s.ltp /\ n \in 1..3
               /\ next = "boundary" => ~s.ltp /\ n \in 1..3
<1> DEFINE next == From(n, skipped, s)
<1>1. next = "end" \/ \E m \in n..6 : next = First(m, s)
    BY FromFirst DEF Stages
<1>2. ASSUME NEW m \in n..6, next = First(m, s)
      PROVE  \/ m = 1 /\ next = "chapters"
             \/ m = 2 /\ next = "annotate"
             \/ m = 3 /\ next = (IF s.ltp THEN "batch" ELSE "boundary")
             \/ m = 4 /\ next = "stats"
             \/ m = 5 /\ next = "topics"
             \/ m = 6 /\ next = "report"
    <2>1. m \in 1..6
        OBVIOUS
    <2> HIDE DEF next
    <2> QED
        BY <1>2, <2>1 DEF First
<1> HIDE DEF next
<1>3. next = "end" \/ \E m \in n..6 :
             \/ m = 1 /\ next = "chapters"
             \/ m = 2 /\ next = "annotate"
             \/ m = 3 /\ next = (IF s.ltp THEN "batch" ELSE "boundary")
             \/ m = 4 /\ next = "stats"
             \/ m = 5 /\ next = "topics"
             \/ m = 6 /\ next = "report"
    BY <1>1, <1>2
<1>4. /\ next \in {"chapters", "annotate", "batch", "boundary", "stats",
                   "topics", "report", "end"}
      /\ next = "chapters" => n = 1
      /\ next = "annotate" => n \in 1..2
      /\ next = "batch" => s.ltp /\ n \in 1..3
      /\ next = "boundary" => ~s.ltp /\ n \in 1..3
    BY <1>3
<1> QED
    BY <1>4 DEF next

\* Where an execution may go after each stage, whatever it leaves out.
LEMMA Ranges ==
    ASSUME settings \in Settings
    PROVE  /\ From(2, skip, settings) \in {"annotate", "batch", "boundary", "stats",
                                           "topics", "report", "end"}
           /\ From(3, skip, settings) \in {"batch", "boundary", "stats", "topics",
                                           "report", "end"}
           /\ \A n \in 2..3 : /\ From(n, skip, settings) = "batch" => settings.ltp
                              /\ From(n, skip, settings) = "boundary" => ~settings.ltp
           /\ \A n \in 4..6 : From(n, skip, settings) \in {"stats", "topics", "report",
                                                           "end"}
<1>1. \A n \in 1..6 :
          LET next == From(n, skip, settings)
          IN  /\ next \in {"chapters", "annotate", "batch", "boundary", "stats",
                           "topics", "report", "end"}
              /\ next = "chapters" => n = 1
              /\ next = "annotate" => n \in 1..2
              /\ next = "batch" => settings.ltp /\ n \in 1..3
              /\ next = "boundary" => ~settings.ltp /\ n \in 1..3
    BY FromRange
<1>2. \A n \in 2..6 : n \in 1..6 /\ n # 1 /\ (n # 2 => n \notin 1..2)
    OBVIOUS
<1>3. \A n \in 4..6 : n \in 2..6 /\ n # 2 /\ n \notin 1..3
    OBVIOUS
<1> QED
    BY <1>1, <1>2, <1>3

-----------------------------------------------------------------------------
(* The invariant. *)

LEMMA StageInit == Init => StageInv
<1> SUFFICES ASSUME Init
             PROVE  StageInv
    OBVIOUS
<1> USE DEF Init
<1>1. TypeOK
    BY AnalysisStagesAssumption DEF TypeOK, Steps, Results, Settings
<1>2. WorkingIsRunning /\ FreshIsEmpty /\ CompletedIsCovered
    BY DEF WorkingIsRunning, FreshIsEmpty, CompletedIsCovered
<1>3. SkipSound /\ StagesBehind
    BY DEF SkipSound, StagesBehind, Steps, Results, PreprocessSteps, LinguisticSteps,
           AfterPreprocess, AfterAnnotate, AfterLinguistic, AfterAggregate
<1>4. PreprocessBehind /\ MarksBehind
    BY DEF PreprocessBehind, MarksBehind, PreprocessSteps
<1>5. SteadyOrder
    BY DEF SteadyOrder, Narrowed, Digests, PreprocessSteps, LinguisticSteps
<1> QED
    BY <1>1, <1>2, <1>3, <1>4, <1>5 DEF StageInv

\* A stage is skipped if it is complete and so are those before it.
LEMMA SkippedMeaning ==
    ASSUME NEW s
    PROVE  /\ 1 \in Skipped(s) <=> PreprocessComplete(s)
           /\ 2 \in Skipped(s) <=> 1 \in Skipped(s) /\ AnnotateComplete
           /\ 3 \in Skipped(s) <=> 2 \in Skipped(s)
                                   /\ (~s.ltp \/ LinguisticComplete)
           /\ 4 \in Skipped(s) <=> 3 \in Skipped(s) /\ "stats" \in saved
           /\ 5 \in Skipped(s) <=> 4 \in Skipped(s) /\ "topics" \in saved
           /\ 6 \in Skipped(s) <=> 5 \in Skipped(s) /\ "report" \in saved
           /\ Skipped(s) \subseteq Stages
BY DEF Skipped, Stages


\* Where an execution is that has just begun, by the stages it leaves out.
FirstLeft(skipped, s, step) ==
    /\ step \in {"chapters", "annotate", "batch", "boundary", "stats", "topics",
                 "report", "end"}
    /\ step = "chapters" => 1 \notin skipped
    /\ step = "annotate" => 1 \in skipped /\ 2 \notin skipped
    /\ step = "batch" => 2 \in skipped /\ 3 \notin skipped /\ s.ltp
    /\ step = "boundary" => 2 \in skipped /\ 3 \notin skipped /\ ~s.ltp
    /\ step = "stats" => 3 \in skipped /\ 4 \notin skipped
    /\ step = "topics" => 4 \in skipped /\ 5 \notin skipped
    /\ step = "report" => 5 \in skipped /\ 6 \notin skipped
    /\ step = "end" => 6 \in skipped

LEMMA FirstLeftMeaning ==
    ASSUME NEW skipped, NEW s, NEW m \in 1..6,
           m \notin skipped,
           \A k \in 1..6 : k < m => k \in skipped
    PROVE  FirstLeft(skipped, s, First(m, s))
<1>1. CASE m = 1
    BY <1>1 DEF First, FirstLeft
<1>2. CASE m = 2
    BY <1>2 DEF First, FirstLeft
<1>3. CASE m = 3
    BY <1>3 DEF First, FirstLeft
<1>4. CASE m = 4
    BY <1>4 DEF First, FirstLeft
<1>5. CASE m = 5
    BY <1>5 DEF First, FirstLeft
<1>6. CASE m = 6
    BY <1>6 DEF First, FirstLeft
<1> QED
    BY <1>1, <1>2, <1>3, <1>4, <1>5, <1>6

\* It begins at the first stage that it does not skip.  (run_analysis)
LEMMA BeginsAtFirstLeft ==
    ASSUME NEW skipped, NEW s
    PROVE  FirstLeft(skipped, s, From(1, skipped, s))
<1>1. CASE /\ \A k \in 1..6 : k \in skipped
           /\ From(1, skipped, s) = "end"
    <2>1. 6 \in skipped
        BY <1>1
    <2> QED
        BY <1>1, <2>1 DEF FirstLeft
<1>2. CASE \E m \in 1..6 : /\ m \notin skipped
                           /\ \A k \in 1..6 : k < m => k \in skipped
                           /\ From(1, skipped, s) = First(m, s)
    <2>1. PICK m \in 1..6 : /\ m \notin skipped
                            /\ \A k \in 1..6 : k < m => k \in skipped
                            /\ From(1, skipped, s) = First(m, s)
        BY <1>2
    <2>2. FirstLeft(skipped, s, First(m, s))
        BY <2>1, FirstLeftMeaning
    <2> QED
        BY <2>1, <2>2
<1> QED
    BY <1>1, <1>2, FromFirst DEF Stages

\* An execution begins at the first stage that is not complete, or, the first
\* one of a reanalysis, at the first that is forced.
LEMMA BeginStep ==
    ASSUME StageInv, Begin
    PROVE  StageInv'
<1>1. /\ saved' = saved /\ annotated' = annotated /\ analysed' = analysed
      /\ eventful' = eventful /\ stale' = stale
      /\ status' = "running" /\ cursor' = 0
      /\ settings' \in Settings /\ executions' \in 1..MaxExecutions
      /\ executions' = executions + 1 /\ executions \in Nat
    <2>1. executions \in 0..MaxExecutions /\ executions < MaxExecutions
          /\ executions' = executions + 1
        BY DEF Begin, StageInv, TypeOK
    <2> QED
        BY <2>1, AnalysisStagesAssumption DEF Begin
<1>2. FirstLeft(skip', settings', at')
    BY BeginsAtFirstLeft DEF Begin
<1>3. skip' \subseteq Stages
    BY SkippedMeaning DEF Begin
<1>4. ~Narrowed' \/ executions = 0
    BY <1>1 DEF Narrowed
<1>5. ASSUME ~Narrowed'
      PROVE  skip' = Skipped(settings')
    <2>1. CASE executions = 0
        <3>1. skip' = {}
            BY <1>1, <1>5, <2>1 DEF Narrowed
        <3>2. ~PreprocessComplete(settings')
            BY <2>1 DEF StageInv, FreshIsEmpty, PreprocessComplete
        <3>3. Skipped(settings') = {}
            BY <3>2 DEF Skipped
        <3> QED
            BY <3>1, <3>3
    <2>2. CASE executions # 0
        BY <2>2 DEF Begin
    <2> QED
        BY <2>1, <2>2
<1>6. ASSUME ~Narrowed'
      PROVE  /\ 1 \in skip' <=> PreprocessComplete(settings)'
             /\ 2 \in skip' <=> 1 \in skip' /\ "chapters" \in saved
                                /\ annotated = Chapters
             /\ 3 \in skip' <=> 2 \in skip' /\ (~settings'.ltp \/ LinguisticComplete)
             /\ 4 \in skip' <=> 3 \in skip' /\ "stats" \in saved
             /\ 5 \in skip' <=> 4 \in skip' /\ "topics" \in saved
             /\ 6 \in skip' <=> 5 \in skip' /\ "report" \in saved
    <2>1. skip' = Skipped(settings')
        BY <1>5, <1>6
    <2>2. PreprocessComplete(settings)' <=> PreprocessComplete(settings')
        BY <1>1 DEF PreprocessComplete
    <2> QED
        BY <2>1, <2>2, SkippedMeaning DEF AnnotateComplete
<1>7. LinguisticDone' <=> (~settings'.ltp \/ analysed = 1..Batches)
    BY <1>1 DEF LinguisticDone
<1>8. LinguisticComplete <=> "paragraphs" \in saved /\ analysed = 1..Batches
    BY DEF LinguisticComplete
<1>9. ~Narrowed' /\ 1 \in skip' => "paragraphs" \in saved /\ "chapters" \in saved
    BY <1>1, <1>6 DEF PreprocessComplete, StageInv, PreprocessBehind
<1>10. TypeOK' /\ WorkingIsRunning' /\ FreshIsEmpty'
    <2>1. steady' \in BOOLEAN
        BY DEF Begin, StageInv, TypeOK
    <2> QED
        BY <1>1, <1>2, <1>3, <2>1, AnalysisStagesAssumption
        DEF StageInv, TypeOK, WorkingIsRunning, FreshIsEmpty, FirstLeft, Steps,
            Results, PreprocessSteps, LinguisticSteps
<1>11. SkipSound'
    BY <1>1, <1>2, <1>6, <1>7, <1>8
    DEF SkipSound, FirstLeft, PreprocessSteps, LinguisticSteps
<1>12. StagesBehind'
    BY <1>1, <1>2, <1>6, <1>7, <1>8
    DEF StagesBehind, FirstLeft, AfterPreprocess, AfterAnnotate, AfterLinguistic,
        AfterAggregate, Steps, PreprocessSteps, LinguisticSteps
<1>13. PreprocessBehind'
    BY <1>1, <1>2 DEF StageInv, PreprocessBehind, FirstLeft
<1>14. MarksBehind'
    BY <1>1, <1>2, <1>7, AnalysisStagesAssumption
    DEF MarksBehind, FirstLeft, PreprocessSteps
<1>15. CompletedIsCovered'
    BY <1>1 DEF CompletedIsCovered
<1>16. SteadyOrder'
    <2> SUFFICES ASSUME steady'
                 PROVE  SteadyOrder'
        BY DEF SteadyOrder
    <2>1. ~Narrowed'
        <3>1. CASE executions = 0
            BY <3>1 DEF Begin, Narrowed
        <3>2. CASE executions # 0
            BY <1>1, <3>2 DEF Narrowed
        <3> QED
            BY <3>1, <3>2
    <2>2. 1 \in 1..Batches
        BY AnalysisStagesAssumption
    <2>3. CASE executions = 0
        <3>1. /\ saved = {} /\ annotated = {} /\ analysed = {} /\ stale = {}
              /\ skip' = {}
            BY <2>3 DEF StageInv, FreshIsEmpty, Begin
        <3> QED
            BY <1>1, <1>2, <2>1, <2>2, <3>1
            DEF SteadyOrder, FirstLeft, Digests, PreprocessSteps
    <2>4. CASE executions # 0
        <3>1. steady /\ settings' = settings
            BY <2>4 DEF Begin
        <3>2. /\ PreprocessComplete(settings)' <=> PreprocessComplete(settings)
              /\ LinguisticDone' <=> LinguisticDone
            BY <1>1, <3>1 DEF PreprocessComplete, LinguisticDone
        <3>3. /\ stale = {}
              /\ analysed # {} => annotated = Chapters
              /\ annotated # {} => PreprocessComplete(settings)
              /\ Digests \cap saved # {} =>
                    PreprocessComplete(settings) /\ annotated = Chapters
                    /\ LinguisticDone /\ "stats" \in saved
            BY <3>1 DEF StageInv, SteadyOrder
        <3>4. at' = "chapters" => annotated' = {}
            BY <1>1, <1>2, <1>6, <2>1, <3>2, <3>3 DEF FirstLeft
        <3>5. Digests \cap saved # {} => 3 \in skip' /\ 4 \in skip'
            <4>1. Digests \cap saved # {} => PreprocessComplete(settings)'
                BY <3>2, <3>3
            <4> QED
                BY <1>1, <1>6, <1>7, <1>8, <1>9, <2>1, <3>1, <3>2, <3>3, <4>1
        <3>6. at' \in PreprocessSteps \cup {"annotate", "stats"} \cup LinguisticSteps
                 => Digests \cap saved' = {}
            <4>1. 3 \in skip' => 1 \in skip' /\ 2 \in skip'
                BY <1>6, <2>1
            <4> QED
                BY <1>1, <1>2, <3>5, <4>1 DEF FirstLeft, PreprocessSteps, LinguisticSteps
        <3>7. at' \in {"annotate", "batch"} => analysed' # 1..Batches
            <4>1. at' = "annotate" => annotated # Chapters
                BY <1>2, <1>6, <1>9, <2>1 DEF FirstLeft
            <4>2. at' = "batch" => ~LinguisticComplete /\ 1 \in skip'
                BY <1>2, <1>6, <2>1 DEF FirstLeft
            <4> QED
                BY <1>1, <1>8, <1>9, <2>1, <2>2, <3>3, <4>1, <4>2
        <3> QED
            BY <1>1, <1>2, <2>1, <3>2, <3>3, <3>4, <3>6, <3>7
            DEF SteadyOrder, FirstLeft, PreprocessSteps
    <2> QED
        BY <2>3, <2>4
<1> QED
    BY <1>10, <1>11, <1>12, <1>13, <1>14, <1>15, <1>16 DEF StageInv

LEMMA StageNext == StageInv /\ [Next]_vars => StageInv'
<1> SUFFICES ASSUME StageInv, [Next]_vars
             PROVE  StageInv'
    OBVIOUS
<1>0. 1 \in 1..Batches /\ Batches \in Nat \ {0} /\ 0 < Batches /\ Chapters # {}
    BY AnalysisStagesAssumption
<1> USE AnalysisStagesAssumption
<1> USE DEF StageInv, TypeOK, WorkingIsRunning, FreshIsEmpty, StagesBehind, SkipSound,
            PreprocessBehind, MarksBehind, SteadyOrder, CompletedIsCovered,
            PreprocessComplete, LinguisticDone, Execution, Marks, Commits, Stages,
            Steps, Results, PreprocessSteps, LinguisticSteps, AfterPreprocess,
            AfterAnnotate, AfterLinguistic, AfterAggregate, Digests, Outdates
<1>1. CASE InsertChapters
    <2>0. Narrowed' <=> Narrowed
        BY <1>1 DEF InsertChapters, Narrowed
    <2>1. TypeOK' /\ WorkingIsRunning' /\ FreshIsEmpty'
        BY <1>1, <2>0, SMTT(30) DEF InsertChapters, OfParagraphs
    <2>2. PreprocessBehind'
        BY <1>1, <2>0, SMTT(30) DEF InsertChapters, OfParagraphs
    <2>3. MarksBehind'
        BY <1>1, <2>0, <1>0, SMTT(30) DEF InsertChapters, OfParagraphs
    <2>4. SkipSound'
        BY <1>1, <2>0, SMTT(30) DEF InsertChapters, OfParagraphs
    <2>5. StagesBehind'
        BY <1>1, <2>0, SMTT(30) DEF InsertChapters, OfParagraphs
    <2>6. CompletedIsCovered'
        BY <1>1, <2>0, SMTT(30) DEF InsertChapters, OfParagraphs
    <2>7. SteadyOrder'
        BY <1>1, <2>0, <1>0, SMTT(30) DEF InsertChapters, OfParagraphs
    <2> QED
        BY <2>1, <2>2, <2>3, <2>4, <2>5, <2>6, <2>7
<1>2. CASE ChaptersKept
    <2>0. Narrowed' <=> Narrowed
        BY <1>2 DEF ChaptersKept, Narrowed
    <2>1. TypeOK' /\ WorkingIsRunning' /\ FreshIsEmpty'
        BY <1>2, <2>0, SMTT(30) DEF ChaptersKept
    <2>2. PreprocessBehind'
        BY <1>2, <2>0, SMTT(30) DEF ChaptersKept
    <2>3. MarksBehind'
        BY <1>2, <2>0, <1>0, SMTT(30) DEF ChaptersKept
    <2>4. SkipSound'
        BY <1>2, <2>0, SMTT(30) DEF ChaptersKept
    <2>5. StagesBehind'
        BY <1>2, <2>0, SMTT(30) DEF ChaptersKept
    <2>6. CompletedIsCovered'
        BY <1>2, <2>0, SMTT(30) DEF ChaptersKept
    <2>7. SteadyOrder'
        BY <1>2, <2>0, <1>0, SMTT(30) DEF ChaptersKept
    <2> QED
        BY <2>1, <2>2, <2>3, <2>4, <2>5, <2>6, <2>7
<1>3. CASE InsertTexts
    <2>0. Narrowed' <=> Narrowed
        BY <1>3 DEF InsertTexts, Narrowed
    <2>1. TypeOK' /\ WorkingIsRunning' /\ FreshIsEmpty'
        BY <1>3, <2>0, SMTT(30) DEF InsertTexts
    <2>2. PreprocessBehind'
        BY <1>3, <2>0, SMTT(30) DEF InsertTexts
    <2>3. MarksBehind'
        BY <1>3, <2>0, <1>0, SMTT(30) DEF InsertTexts
    <2>4. SkipSound'
        BY <1>3, <2>0, SMTT(30) DEF InsertTexts
    <2>5. StagesBehind'
        BY <1>3, <2>0, SMTT(30) DEF InsertTexts
    <2>6. CompletedIsCovered'
        BY <1>3, <2>0, SMTT(30) DEF InsertTexts
    <2>7. SteadyOrder'
        BY <1>3, <2>0, <1>0, SMTT(30) DEF InsertTexts
    <2> QED
        BY <2>1, <2>2, <2>3, <2>4, <2>5, <2>6, <2>7
<1>4. CASE InsertParagraphs
    <2>0. Narrowed' <=> Narrowed
        BY <1>4 DEF InsertParagraphs, Narrowed
    <2>1. TypeOK' /\ WorkingIsRunning' /\ FreshIsEmpty'
        BY <1>4, <2>0, SMTT(30) DEF InsertParagraphs, OfParagraphs
    <2>2. PreprocessBehind'
        BY <1>4, <2>0, SMTT(30) DEF InsertParagraphs, OfParagraphs
    <2>3. MarksBehind'
        BY <1>4, <2>0, <1>0, SMTT(30) DEF InsertParagraphs, OfParagraphs
    <2>4. SkipSound'
        BY <1>4, <2>0, SMTT(30) DEF InsertParagraphs, OfParagraphs
    <2>5. StagesBehind'
        BY <1>4, <2>0, SMTT(30) DEF InsertParagraphs, OfParagraphs
    <2>6. CompletedIsCovered'
        BY <1>4, <2>0, SMTT(30) DEF InsertParagraphs, OfParagraphs
    <2>7. SteadyOrder'
        BY <1>4, <2>0, <1>0, SMTT(30) DEF InsertParagraphs, OfParagraphs
    <2> QED
        BY <2>1, <2>2, <2>3, <2>4, <2>5, <2>6, <2>7
<1>5. CASE InsertMetrics
    <2>0. Narrowed' <=> Narrowed
        BY <1>5 DEF InsertMetrics, Narrowed
    <2>1. TypeOK' /\ WorkingIsRunning' /\ FreshIsEmpty'
        BY <1>5, <2>0, SMTT(30) DEF InsertMetrics
    <2>2. PreprocessBehind'
        BY <1>5, <2>0, SMTT(30) DEF InsertMetrics
    <2>3. MarksBehind'
        BY <1>5, <2>0, <1>0, SMTT(30) DEF InsertMetrics
    <2>4. SkipSound'
        BY <1>5, <2>0, SMTT(30) DEF InsertMetrics
    <2>5. StagesBehind'
        BY <1>5, <2>0, SMTT(30) DEF InsertMetrics
    <2>6. CompletedIsCovered'
        BY <1>5, <2>0, SMTT(30) DEF InsertMetrics
    <2>7. SteadyOrder'
        BY <1>5, <2>0, <1>0, SMTT(30) DEF InsertMetrics
    <2> QED
        BY <2>1, <2>2, <2>3, <2>4, <2>5, <2>6, <2>7
<1>6. CASE InsertCurves
    <2>0. Narrowed' <=> Narrowed
        BY <1>6 DEF InsertCurves, Narrowed
    <2>1. TypeOK' /\ WorkingIsRunning' /\ FreshIsEmpty'
        BY <1>6, <2>0, Ranges, SMTT(30) DEF InsertCurves
    <2>2. PreprocessBehind'
        BY <1>6, <2>0, Ranges, SMTT(30) DEF InsertCurves
    <2>3. MarksBehind'
        BY <1>6, <2>0, <1>0, Ranges, SMTT(30) DEF InsertCurves
    <2>4. SkipSound'
        BY <1>6, <2>0, Onwards, SMTT(30) DEF InsertCurves
    <2>5. StagesBehind'
        BY <1>6, <2>0, Onwards, SMTT(30) DEF InsertCurves
    <2>6. CompletedIsCovered'
        BY <1>6, <2>0, Onwards, SMTT(30) DEF InsertCurves
    <2>7. SteadyOrder'
        <3>1. at' \in {"vectors", "annotate"} \/ (Narrowed /\ at' # "chapters")
            BY <1>6, Onwards, Ranges DEF InsertCurves
        <3>2. /\ at = "curves" /\ annotated' = annotated /\ analysed' = analysed
              /\ steady' = steady /\ settings' = settings
              /\ saved' = (saved \ {"corrected"}) \cup {"curves"}
              /\ stale' = Digests \cap saved
            BY <1>6 DEF InsertCurves
        <3>3. steady => /\ ~Narrowed /\ annotated = {} /\ analysed = {}
                        /\ {"stats", "report"} \cap saved = {}
            BY <1>0, <3>2
        <3> QED
            BY <1>0, <2>0, <3>1, <3>2, <3>3
    <2> QED
        BY <2>1, <2>2, <2>3, <2>4, <2>5, <2>6, <2>7
<1>7. CASE InsertVectors
    <2>0. Narrowed' <=> Narrowed
        BY <1>7 DEF InsertVectors, Narrowed
    <2>1. TypeOK' /\ WorkingIsRunning' /\ FreshIsEmpty'
        BY <1>7, <2>0, Ranges, SMTT(30) DEF InsertVectors
    <2>2. PreprocessBehind'
        BY <1>7, <2>0, Ranges, SMTT(30) DEF InsertVectors
    <2>3. MarksBehind'
        BY <1>7, <2>0, <1>0, Ranges, SMTT(30) DEF InsertVectors
    <2>4. SkipSound'
        BY <1>7, <2>0, Onwards, SMTT(30) DEF InsertVectors
    <2>5. StagesBehind'
        BY <1>7, <2>0, Onwards, SMTT(30) DEF InsertVectors
    <2>6. CompletedIsCovered'
        BY <1>7, <2>0, Onwards, SMTT(30) DEF InsertVectors
    <2>7. SteadyOrder'
        <3>1. at' = "annotate" \/ Narrowed
            BY <1>7, Onwards DEF InsertVectors
        <3>2. /\ at = "vectors" /\ annotated' = annotated /\ analysed' = analysed
              /\ steady' = steady /\ settings' = settings /\ stale' = stale
              /\ saved' = saved \cup {"vectors"}
            BY <1>7 DEF InsertVectors
        <3>3. steady => /\ ~Narrowed /\ annotated = {} /\ analysed = {}
                        /\ {"stats", "report"} \cap saved = {}
            BY <1>0, <3>2
        <3> QED
            BY <1>0, <2>0, <3>1, <3>2, <3>3
    <2> QED
        BY <2>1, <2>2, <2>3, <2>4, <2>5, <2>6, <2>7
<1>8. CASE AnnotateEnds
    <2>0. Narrowed' <=> Narrowed
        BY <1>8 DEF AnnotateEnds, Narrowed
    <2>1. TypeOK' /\ WorkingIsRunning' /\ FreshIsEmpty'
        BY <1>8, <2>0, Ranges, SMTT(30) DEF AnnotateEnds
    <2>2. PreprocessBehind'
        BY <1>8, <2>0, Ranges, SMTT(30) DEF AnnotateEnds
    <2>3. MarksBehind'
        BY <1>8, <2>0, <1>0, Ranges, SMTT(30) DEF AnnotateEnds
    <2>4. SkipSound'
        BY <1>8, <2>0, Onwards, SMTT(30) DEF AnnotateEnds
    <2>5. StagesBehind'
        BY <1>8, <2>0, Onwards, SMTT(30) DEF AnnotateEnds
    <2>6. CompletedIsCovered'
        BY <1>8, <2>0, Onwards, SMTT(30) DEF AnnotateEnds
    <2>7. SteadyOrder'
        BY <1>8, <2>0, Onwards, <1>0, SMTT(30) DEF AnnotateEnds
    <2> QED
        BY <2>1, <2>2, <2>3, <2>4, <2>5, <2>6, <2>7
<1>9. CASE NoParagraphs
    <2>0. Narrowed' <=> Narrowed
        BY <1>9 DEF NoParagraphs, Narrowed
    <2>1. TypeOK' /\ WorkingIsRunning' /\ FreshIsEmpty'
        BY <1>9, <2>0, Ranges, SMTT(30) DEF NoParagraphs, First
    <2>2. PreprocessBehind'
        BY <1>9, <2>0, Ranges, SMTT(30) DEF NoParagraphs, First
    <2>3. MarksBehind'
        BY <1>9, <2>0, <1>0, Ranges, SMTT(30) DEF NoParagraphs, First
    <2>4. SkipSound'
        BY <1>9, <2>0, Onwards, SMTT(30) DEF NoParagraphs, First
    <2>5. StagesBehind'
        BY <1>9, <2>0, Onwards, SMTT(30) DEF NoParagraphs, First
    <2>6. CompletedIsCovered'
        BY <1>9, <2>0, Onwards, SMTT(30) DEF NoParagraphs, First
    <2>7. SteadyOrder'
        BY <1>9, <2>0, Onwards, <1>0, SMTT(30) DEF NoParagraphs, First
    <2> QED
        BY <2>1, <2>2, <2>3, <2>4, <2>5, <2>6, <2>7
<1>10. CASE SaveBatch
    <2>0. Narrowed' <=> Narrowed
        BY <1>10 DEF SaveBatch, Narrowed
    <2>1. TypeOK' /\ WorkingIsRunning' /\ FreshIsEmpty'
        BY <1>10, <2>0, SMTT(30) DEF SaveBatch
    <2>2. PreprocessBehind'
        BY <1>10, <2>0, SMTT(30) DEF SaveBatch
    <2>3. MarksBehind'
        <3>1. analysed' = 1..cursor' /\ cursor' \in 1..Batches
            <4>1. /\ cursor \in Nat /\ cursor < Batches /\ cursor' = cursor + 1
                  /\ analysed' = IF cursor = 0 THEN {1} ELSE analysed \cup {cursor + 1}
                  /\ cursor # 0 => analysed = 1..cursor
                BY <1>10, <1>0 DEF SaveBatch
            <4>2. CASE cursor = 0
                BY <1>0, <4>1, <4>2
            <4>3. CASE cursor # 0
                <5>1. 1..(cursor + 1) = (1..cursor) \cup {cursor + 1}
                    BY <4>1
                <5> QED
                    BY <1>0, <4>1, <4>3, <5>1
            <4> QED
                BY <4>2, <4>3
        <3>2. settings'.ltp
            BY <1>10 DEF SaveBatch
        <3>3. CASE at' = "batch" /\ cursor' < Batches
            BY <3>1, <3>2, <3>3
        <3>4. CASE at' = "mneg" /\ cursor' = Batches
            BY <3>1, <3>2, <3>4
        <3> QED
            BY <1>0, <1>10, <3>3, <3>4 DEF SaveBatch
    <2>4. SkipSound'
        BY <1>10, <2>0, SMTT(30) DEF SaveBatch
    <2>5. StagesBehind'
        BY <1>10, <2>0, SMTT(30) DEF SaveBatch
    <2>6. CompletedIsCovered'
        BY <1>10, <2>0, SMTT(30) DEF SaveBatch
    <2>7. SteadyOrder'
        <3>1. /\ at = "batch" /\ at' \in {"batch", "mneg"} /\ saved' = saved
              /\ annotated' = annotated /\ steady' = steady /\ settings' = settings
              /\ stale' = Digests \cap saved /\ cursor' = cursor + 1
              /\ at' = "batch" => cursor' < Batches
            BY <1>10, <1>0 DEF SaveBatch
        <3>2. at' = "batch" => analysed' = 1..cursor'
            BY <1>0, <2>3, <3>1
        <3>3. at' = "batch" => analysed' # 1..Batches
            <4>1. Batches \in 1..Batches
                  /\ (Batches \notin 1..cursor' \/ at' # "batch")
                BY <1>0, <3>1
            <4> QED
                BY <1>0, <3>2, <4>1
        <3>4. steady => /\ ~Narrowed /\ stale' = {} /\ annotated = Chapters
                        /\ {"stats", "report"} \cap saved = {}
            BY <3>1
        <3> QED
            BY <1>0, <2>0, <3>1, <3>3, <3>4
    <2> QED
        BY <2>1, <2>2, <2>3, <2>4, <2>5, <2>6, <2>7
<1>11. CASE ApplyMneg
    <2>0. Narrowed' <=> Narrowed
        BY <1>11 DEF ApplyMneg, Narrowed
    <2>1. TypeOK' /\ WorkingIsRunning' /\ FreshIsEmpty'
        BY <1>11, <2>0, SMTT(30) DEF ApplyMneg
    <2>2. PreprocessBehind'
        BY <1>11, <2>0, SMTT(30) DEF ApplyMneg
    <2>3. MarksBehind'
        BY <1>11, <2>0, <1>0, SMTT(30) DEF ApplyMneg
    <2>4. SkipSound'
        BY <1>11, <2>0, SMTT(30) DEF ApplyMneg
    <2>5. StagesBehind'
        BY <1>11, <2>0, SMTT(30) DEF ApplyMneg
    <2>6. CompletedIsCovered'
        BY <1>11, <2>0, SMTT(30) DEF ApplyMneg
    <2>7. SteadyOrder'
        BY <1>11, <2>0, <1>0, SMTT(30) DEF ApplyMneg
    <2> QED
        BY <2>1, <2>2, <2>3, <2>4, <2>5, <2>6, <2>7
<1>12. CASE CorrectCurves
    <2>0. Narrowed' <=> Narrowed
        BY <1>12 DEF CorrectCurves, Narrowed
    <2>1. TypeOK' /\ WorkingIsRunning' /\ FreshIsEmpty'
        BY <1>12, <2>0, SMTT(30) DEF CorrectCurves
    <2>2. PreprocessBehind'
        BY <1>12, <2>0, SMTT(30) DEF CorrectCurves
    <2>3. MarksBehind'
        BY <1>12, <2>0, <1>0, SMTT(30) DEF CorrectCurves
    <2>4. SkipSound'
        BY <1>12, <2>0, SMTT(30) DEF CorrectCurves
    <2>5. StagesBehind'
        BY <1>12, <2>0, SMTT(30) DEF CorrectCurves
    <2>6. CompletedIsCovered'
        BY <1>12, <2>0, SMTT(30) DEF CorrectCurves
    <2>7. SteadyOrder'
        BY <1>12, <2>0, <1>0, SMTT(30) DEF CorrectCurves
    <2> QED
        BY <2>1, <2>2, <2>3, <2>4, <2>5, <2>6, <2>7
<1>13. CASE ScoreBoundary
    <2>0. Narrowed' <=> Narrowed
        BY <1>13 DEF ScoreBoundary, Narrowed
    <2>1. TypeOK' /\ WorkingIsRunning' /\ FreshIsEmpty'
        <3>1. at' \in {"word2vec", "stats", "topics", "report", "end"}
            BY <1>13, Ranges DEF ScoreBoundary
        <3>2. PICK adds \in {{}, {"boundary"}} : saved' = saved \cup adds
            BY <1>13 DEF ScoreBoundary
        <3>3. at = "boundary" /\ executions # 0
            BY <1>13 DEF ScoreBoundary
        <3> QED
            BY <1>13, <3>1, <3>2, <3>3 DEF ScoreBoundary
    <2>2. PreprocessBehind'
        BY <1>13, <2>0, Ranges, SMTT(30) DEF ScoreBoundary
    <2>3. MarksBehind'
        BY <1>13, <2>0, <1>0, Ranges, SMTT(30) DEF ScoreBoundary
    <2>4. SkipSound'
        BY <1>13, <2>0, Onwards, SMTT(30) DEF ScoreBoundary
    <2>5. StagesBehind'
        BY <1>13, <2>0, Onwards, SMTT(30) DEF ScoreBoundary
    <2>6. CompletedIsCovered'
        BY <1>13, <2>0, Onwards, SMTT(30) DEF ScoreBoundary
    <2>7. SteadyOrder'
        BY <1>13, <2>0, Onwards, <1>0, SMTT(30) DEF ScoreBoundary
    <2> QED
        BY <2>1, <2>2, <2>3, <2>4, <2>5, <2>6, <2>7
<1>14. CASE TrainWord2Vec
    <2>0. Narrowed' <=> Narrowed
        BY <1>14 DEF TrainWord2Vec, Narrowed
    <2>1. TypeOK' /\ WorkingIsRunning' /\ FreshIsEmpty'
        BY <1>14, <2>0, SMTT(30) DEF TrainWord2Vec
    <2>2. PreprocessBehind'
        BY <1>14, <2>0, SMTT(30) DEF TrainWord2Vec
    <2>3. MarksBehind'
        BY <1>14, <2>0, <1>0, SMTT(30) DEF TrainWord2Vec
    <2>4. SkipSound'
        BY <1>14, <2>0, SMTT(30) DEF TrainWord2Vec
    <2>5. StagesBehind'
        BY <1>14, <2>0, SMTT(30) DEF TrainWord2Vec
    <2>6. CompletedIsCovered'
        BY <1>14, <2>0, SMTT(30) DEF TrainWord2Vec
    <2>7. SteadyOrder'
        BY <1>14, <2>0, <1>0, SMTT(30) DEF TrainWord2Vec
    <2> QED
        BY <2>1, <2>2, <2>3, <2>4, <2>5, <2>6, <2>7
<1>15. CASE InsertPosVectors
    <2>0. Narrowed' <=> Narrowed
        BY <1>15 DEF InsertPosVectors, Narrowed
    <2>1. TypeOK' /\ WorkingIsRunning' /\ FreshIsEmpty'
        BY <1>15, <2>0, Ranges, SMTT(30) DEF InsertPosVectors
    <2>2. PreprocessBehind'
        BY <1>15, <2>0, Ranges, SMTT(30) DEF InsertPosVectors
    <2>3. MarksBehind'
        BY <1>15, <2>0, <1>0, Ranges, SMTT(30) DEF InsertPosVectors
    <2>4. SkipSound'
        BY <1>15, <2>0, Onwards, SMTT(30) DEF InsertPosVectors
    <2>5. StagesBehind'
        BY <1>15, <2>0, Onwards, SMTT(30) DEF InsertPosVectors
    <2>6. CompletedIsCovered'
        BY <1>15, <2>0, Onwards, SMTT(30) DEF InsertPosVectors
    <2>7. SteadyOrder'
        BY <1>15, <2>0, Onwards, <1>0, SMTT(30) DEF InsertPosVectors
    <2> QED
        BY <2>1, <2>2, <2>3, <2>4, <2>5, <2>6, <2>7
<1>16. CASE Aggregate
    <2>0. Narrowed' <=> Narrowed
        BY <1>16 DEF Aggregate, Narrowed
    <2>1. TypeOK' /\ WorkingIsRunning' /\ FreshIsEmpty'
        BY <1>16, <2>0, Ranges, SMTT(30) DEF Aggregate, AnnotateComplete
    <2>2. PreprocessBehind'
        BY <1>16, <2>0, Ranges, SMTT(30) DEF Aggregate, AnnotateComplete
    <2>3. MarksBehind'
        BY <1>16, <2>0, <1>0, Ranges, SMTT(30) DEF Aggregate, AnnotateComplete
    <2>4. SkipSound'
        BY <1>16, <2>0, Onwards, SMTT(30) DEF Aggregate, AnnotateComplete
    <2>5. StagesBehind'
        BY <1>16, <2>0, Onwards, SMTT(30) DEF Aggregate, AnnotateComplete
    <2>6. CompletedIsCovered'
        BY <1>16, <2>0, Onwards, SMTT(30) DEF Aggregate, AnnotateComplete
    <2>7. SteadyOrder'
        BY <1>16, <2>0, Onwards, <1>0, SMTT(30) DEF Aggregate, AnnotateComplete
    <2> QED
        BY <2>1, <2>2, <2>3, <2>4, <2>5, <2>6, <2>7
<1>17. CASE SaveTopics
    <2>0. Narrowed' <=> Narrowed
        BY <1>17 DEF SaveTopics, Narrowed
    <2>1. TypeOK' /\ WorkingIsRunning' /\ FreshIsEmpty'
        BY <1>17, <2>0, Ranges, SMTT(30) DEF SaveTopics
    <2>2. PreprocessBehind'
        BY <1>17, <2>0, Ranges, SMTT(30) DEF SaveTopics
    <2>3. MarksBehind'
        BY <1>17, <2>0, <1>0, Ranges, SMTT(30) DEF SaveTopics
    <2>4. SkipSound'
        BY <1>17, <2>0, Onwards, SMTT(30) DEF SaveTopics
    <2>5. StagesBehind'
        BY <1>17, <2>0, Onwards, SMTT(30) DEF SaveTopics
    <2>6. CompletedIsCovered'
        BY <1>17, <2>0, Onwards, SMTT(30) DEF SaveTopics
    <2>7. SteadyOrder'
        BY <1>17, <2>0, Onwards, <1>0, SMTT(30) DEF SaveTopics
    <2> QED
        BY <2>1, <2>2, <2>3, <2>4, <2>5, <2>6, <2>7
<1>18. CASE Diagnose
    <2>0. Narrowed' <=> Narrowed
        BY <1>18 DEF Diagnose, Narrowed
    <2>1. TypeOK' /\ WorkingIsRunning' /\ FreshIsEmpty'
        BY <1>18, <2>0, SMTT(30) DEF Diagnose, AnnotateComplete
    <2>2. PreprocessBehind'
        BY <1>18, <2>0, SMTT(30) DEF Diagnose, AnnotateComplete
    <2>3. MarksBehind'
        BY <1>18, <2>0, <1>0, SMTT(30) DEF Diagnose, AnnotateComplete
    <2>4. SkipSound'
        BY <1>18, <2>0, SMTT(30) DEF Diagnose, AnnotateComplete
    <2>5. StagesBehind'
        BY <1>18, <2>0, SMTT(30) DEF Diagnose, AnnotateComplete
    <2>6. CompletedIsCovered'
        BY <1>18, <2>0, SMTT(30) DEF Diagnose, AnnotateComplete
    <2>7. SteadyOrder'
        BY <1>18, <2>0, <1>0, SMTT(30) DEF Diagnose, AnnotateComplete
    <2> QED
        BY <2>1, <2>2, <2>3, <2>4, <2>5, <2>6, <2>7
<1>19. CASE Interrupt
    <2>0. Narrowed' <=> Narrowed
        BY <1>19 DEF Interrupt, Narrowed
    <2>1. TypeOK' /\ WorkingIsRunning' /\ FreshIsEmpty'
        BY <1>19, <2>0, SMTT(30) DEF Interrupt
    <2>2. PreprocessBehind'
        BY <1>19, <2>0, SMTT(30) DEF Interrupt
    <2>3. MarksBehind'
        BY <1>19, <2>0, <1>0, SMTT(30) DEF Interrupt
    <2>4. SkipSound'
        BY <1>19, <2>0, SMTT(30) DEF Interrupt
    <2>5. StagesBehind'
        BY <1>19, <2>0, SMTT(30) DEF Interrupt
    <2>6. CompletedIsCovered'
        BY <1>19, <2>0, SMTT(30) DEF Interrupt
    <2>7. SteadyOrder'
        BY <1>19, <2>0, <1>0, SMTT(30) DEF Interrupt
    <2> QED
        BY <2>1, <2>2, <2>3, <2>4, <2>5, <2>6, <2>7
<1>20. CASE Finish
    <2>0. Narrowed' <=> Narrowed
        BY <1>20 DEF Finish, Narrowed
    <2>1. TypeOK' /\ WorkingIsRunning' /\ FreshIsEmpty'
        BY <1>20, <2>0, SMTT(30) DEF Finish
    <2>2. PreprocessBehind'
        BY <1>20, <2>0, SMTT(30) DEF Finish
    <2>3. MarksBehind'
        BY <1>20, <2>0, <1>0, SMTT(30) DEF Finish
    <2>4. SkipSound'
        BY <1>20, <2>0, SMTT(30) DEF Finish
    <2>5. StagesBehind'
        BY <1>20, <2>0, SMTT(30) DEF Finish
    <2>6. CompletedIsCovered'
        BY <1>20, <2>0, SMTT(30) DEF Finish
    <2>7. SteadyOrder'
        BY <1>20, <2>0, <1>0, SMTT(30) DEF Finish
    <2> QED
        BY <2>1, <2>2, <2>3, <2>4, <2>5, <2>6, <2>7
<1>21. CASE \E c \in Chapters : AnnotatePart(c)
    <2>0. Narrowed' <=> Narrowed
        BY <1>21 DEF AnnotatePart, Narrowed
    <2>1. TypeOK' /\ WorkingIsRunning' /\ FreshIsEmpty'
        BY <1>21, <2>0, SMTT(30) DEF AnnotatePart
    <2>2. PreprocessBehind'
        BY <1>21, <2>0, SMTT(30) DEF AnnotatePart
    <2>3. MarksBehind'
        BY <1>21, <2>0, <1>0, SMTT(30) DEF AnnotatePart
    <2>4. SkipSound'
        BY <1>21, <2>0, SMTT(30) DEF AnnotatePart
    <2>5. StagesBehind'
        BY <1>21, <2>0, SMTT(30) DEF AnnotatePart
    <2>6. CompletedIsCovered'
        BY <1>21, <2>0, SMTT(30) DEF AnnotatePart
    <2>7. SteadyOrder'
        BY <1>21, <2>0, <1>0, SMTT(30) DEF AnnotatePart
    <2> QED
        BY <2>1, <2>2, <2>3, <2>4, <2>5, <2>6, <2>7
<1>22. CASE \E c \in Chapters : Annotate(c)
    <2>0. Narrowed' <=> Narrowed
        BY <1>22 DEF Annotate, Narrowed
    <2>1. TypeOK' /\ WorkingIsRunning' /\ FreshIsEmpty'
        BY <1>22, <2>0, SMTT(30) DEF Annotate
    <2>2. PreprocessBehind'
        BY <1>22, <2>0, SMTT(30) DEF Annotate
    <2>3. MarksBehind'
        BY <1>22, <2>0, <1>0, SMTT(30) DEF Annotate
    <2>4. SkipSound'
        BY <1>22, <2>0, SMTT(30) DEF Annotate
    <2>5. StagesBehind'
        BY <1>22, <2>0, SMTT(30) DEF Annotate
    <2>6. CompletedIsCovered'
        BY <1>22, <2>0, SMTT(30) DEF Annotate
    <2>7. SteadyOrder'
        BY <1>22, <2>0, <1>0, SMTT(30) DEF Annotate
    <2> QED
        BY <2>1, <2>2, <2>3, <2>4, <2>5, <2>6, <2>7
<1>23. CASE UNCHANGED vars
    BY <1>23 DEF vars, Narrowed
<1>24. CASE Begin
    BY <1>24, BeginStep
<1> QED
    BY <1>1, <1>2, <1>3, <1>4, <1>5, <1>6, <1>7, <1>8, <1>9, <1>10, <1>11, <1>12,
       <1>13, <1>14, <1>15, <1>16, <1>17, <1>18, <1>19, <1>20, <1>21, <1>22, <1>23,
       <1>24 DEF Next

-----------------------------------------------------------------------------
(* The theorems. *)

\* The invariant holds in every behaviour.
THEOREM StagesSound == Spec => []StageInv
BY StageInit, StageNext, PTL DEF Spec

\* The variables have their types.
THEOREM StageTypes == Spec => []TypeOK
<1>1. StageInv => TypeOK
    BY DEF StageInv
<1> QED
    BY StagesSound, <1>1, PTL

\* Whatever it skipped and however often it was interrupted, a task completed by
\* an execution of all stages has everything the checks of a resume ask for.
\* (check_stage_completion_status)
THEOREM CompletedCovered == Spec => []CompletedIsCovered
<1>1. StageInv => CompletedIsCovered
    BY DEF StageInv
<1> QED
    BY StagesSound, <1>1, PTL

\* Interruptions alone never leave statistics or a report that are older than
\* what they are computed from.  (run_aggregate, run_diagnose)
THEOREM ResultsCurrent == Spec => []ResultsAreCurrent
<1>1. StageInv => ResultsAreCurrent
    BY DEF StageInv, SteadyOrder, ResultsAreCurrent
<1> QED
    BY StagesSound, <1>1, PTL

\* No interruption loses an annotated chapter or the marks of a book that is
\* analysed to the end, and with an event in the store no other settings lose a
\* chapter.  (insert_chapters, run_linguistic)
THEOREM ExpensiveKept == Spec => ExpensiveWorkKept
<1> DEFINE Kept == /\ steady' \/ eventful # {} => annotated \subseteq annotated'
                   /\ steady' /\ analysed = 1..Batches => analysed' = 1..Batches
<1>1. StageInv /\ [Next]_vars => [Kept]_vars
    <2> SUFFICES ASSUME StageInv, Next
                 PROVE  Kept
        OBVIOUS
    <2>1. 1..Batches # {} /\ Chapters # {}
        <3>1. 1 \in 1..Batches
            BY AnalysisStagesAssumption
        <3> QED
            BY <3>1, AnalysisStagesAssumption
    <2>2. steady /\ at \in PreprocessSteps => annotated = {} /\ analysed = {}
        BY <2>1 DEF StageInv, SteadyOrder
    <2>3. CASE InsertChapters \/ InsertParagraphs \/ InsertMetrics
        \* Unless the settings have changed, nothing is annotated there, hence
        \* nothing analysed.
        <3>1. steady' = steady /\ at \in PreprocessSteps
            BY <2>3 DEF InsertChapters, InsertParagraphs, InsertMetrics, Commits,
                        Execution, PreprocessSteps
        <3>2. eventful # {} => annotated \subseteq annotated'
            BY <2>3 DEF InsertChapters, InsertParagraphs, InsertMetrics
        <3> QED
            BY <2>1, <2>2, <3>1, <3>2
    <2>4. CASE SaveBatch
        BY <2>4 DEF SaveBatch, Commits, Execution, StageInv, SteadyOrder
    <2>5. CASE ScoreBoundary \/ SaveTopics
        BY <2>5 DEF ScoreBoundary, SaveTopics, Marks
    <2>6. CASE \E c \in Chapters : AnnotatePart(c) \/ Annotate(c)
        BY <2>6 DEF AnnotatePart, Annotate
    <2>7. CASE \/ Begin \/ Interrupt \/ Finish \/ ChaptersKept \/ InsertTexts
               \/ InsertCurves \/ InsertVectors \/ AnnotateEnds \/ NoParagraphs
               \/ ApplyMneg \/ CorrectCurves \/ TrainWord2Vec \/ InsertPosVectors
               \/ Aggregate \/ Diagnose
        BY <2>7 DEF Begin, Interrupt, Finish, ChaptersKept, InsertTexts, InsertCurves,
                    InsertVectors, AnnotateEnds, NoParagraphs, ApplyMneg,
                    CorrectCurves, TrainWord2Vec, InsertPosVectors, Aggregate,
                    Diagnose, Marks
    <2> QED
        BY <2>3, <2>4, <2>5, <2>6, <2>7 DEF Next
<1> QED
    BY StagesSound, <1>1, PTL DEF Spec, ExpensiveWorkKept
================================================================================
