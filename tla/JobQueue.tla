------------------------------ MODULE JobQueue ------------------------------
(***************************************************************************)
(* What the job manager promises, without its threads and signals: a       *)
(* single server that takes jobs in the order they were submitted, runs    *)
(* one at a time, runs no job twice, and reports the end of every run once *)
(* and in the same order.  A job may be dropped instead of being run.      *)
(***************************************************************************)
EXTENDS Naturals, Sequences

CONSTANT Jobs

VARIABLES
    order,   \* the submitted jobs, first in first
    stage    \* how far each job has come

vars == <<order, stage>>

Stages == {"new", "waiting", "active", "ended", "done"}

\* Every job submitted before the i-th is past the given stages.
Earlier(i, stages) == \A k \in 1..(i - 1) : stage[order[k]] \notin stages

Init == order = <<>> /\ stage = [j \in Jobs |-> "new"]

Submit(j) ==
    /\ stage[j] = "new"
    /\ order' = Append(order, j)
    /\ stage' = [stage EXCEPT ![j] = "waiting"]

Move(i, from, to) ==
    /\ stage[order[i]] = from
    /\ stage' = [stage EXCEPT ![order[i]] = to]
    /\ UNCHANGED order

Begin(i) == Earlier(i, {"waiting", "active"}) /\ Move(i, "waiting", "active")
Drop(i)  == Earlier(i, {"waiting", "active"}) /\ Move(i, "waiting", "done")
End(i)   == Move(i, "active", "ended")

\* The end of a run is reported; its report may come with one more submission.
Report(i) == Earlier(i, {"waiting", "active", "ended"}) /\ Move(i, "ended", "done")

ReportAndSubmit(i, j) ==
    /\ Earlier(i, {"waiting", "active", "ended"})
    /\ stage[order[i]] = "ended" /\ stage[j] = "new"
    /\ order' = Append(order, j)
    /\ stage' = [stage EXCEPT ![order[i]] = "done", ![j] = "waiting"]

Next ==
    \/ \E j \in Jobs : Submit(j)
    \/ \E i \in 1..Len(order) :
         \/ Begin(i) \/ Drop(i) \/ End(i) \/ Report(i)
         \/ \E j \in Jobs : ReportAndSubmit(i, j)

Spec == Init /\ [][Next]_vars
=============================================================================
