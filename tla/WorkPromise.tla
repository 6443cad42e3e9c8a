---------------------------- MODULE WorkPromise ----------------------------
(***************************************************************************)
(* What the queue of chapter works promises the workflow that runs it: the *)
(* works of a run are saved one by one, each once and for good; a run      *)
(* reports success only when all of its works are saved, and once it has   *)
(* reported, in either way, it saves nothing more.  A run may also be      *)
(* given up with its attempts under way: what they save is then kept.      *)
(***************************************************************************)
CONSTANTS Runs, Works, RunOf

VARIABLES
    saved,   \* the works whose result is committed
    report   \* run -> "none", "returned", "raised" or "abandoned"

vars == <<saved, report>>

Init ==
    /\ saved = {}
    /\ report = [r \in Runs |-> "none"]

Save(w) ==
    /\ w \notin saved
    /\ report[RunOf[w]] \in {"none", "abandoned"}
    /\ saved' = saved \cup {w}
    /\ UNCHANGED report

Return(r) ==
    /\ report[r] = "none"
    /\ \A w \in Works : RunOf[w] = r => w \in saved
    /\ report' = [report EXCEPT ![r] = "returned"]
    /\ UNCHANGED saved

Fail(r) ==
    /\ report[r] = "none"
    /\ report' = [report EXCEPT ![r] = "raised"]
    /\ UNCHANGED saved

Abandon(r) ==
    /\ report[r] = "none"
    /\ report' = [report EXCEPT ![r] = "abandoned"]
    /\ UNCHANGED saved

Next ==
    \/ \E w \in Works : Save(w)
    \/ \E r \in Runs : Return(r) \/ Fail(r) \/ Abandon(r)

Spec == Init /\ [][Next]_vars
=============================================================================
