------------------------------ MODULE JobBatch ------------------------------
(***************************************************************************)
(* What IoScheduler::run promises its caller: every job of the batch runs  *)
(* exactly once before run returns, none runs outside a call, and run      *)
(* returns true exactly when no job failed.                                *)
(***************************************************************************)
EXTENDS Naturals

CONSTANT MaxJobs

VARIABLES running,  \* a call of run is in progress
          size,     \* number of jobs of the latest call
          bad,      \* its jobs that fail
          times,    \* how often each job ran
          result    \* what the latest call that returned has returned

bvars == <<running, size, bad, times, result>>

Jobs == 0 .. MaxJobs - 1

Init ==
    /\ running = FALSE /\ size = 0 /\ bad = {} /\ result = TRUE
    /\ times = [i \in Jobs |-> 0]

Start ==
    /\ ~running /\ running' = TRUE
    /\ size' \in 1 .. MaxJobs
    /\ bad' \in SUBSET (0 .. size' - 1)
    /\ times' = [i \in Jobs |-> 0]
    /\ UNCHANGED result

Do(i) ==
    /\ running /\ i < size /\ times[i] = 0
    /\ times' = [times EXCEPT ![i] = 1]
    /\ UNCHANGED <<running, size, bad, result>>

Return ==
    /\ running /\ \A i \in 0 .. size - 1 : times[i] = 1
    /\ running' = FALSE
    /\ result' = (bad = {})
    /\ UNCHANGED <<size, bad, times>>

\* A call without jobs returns true at once.
Empty == ~running /\ result' = TRUE /\ UNCHANGED <<running, size, bad, times>>

Next == Start \/ (\E i \in Jobs : Do(i)) \/ Return \/ Empty

Spec == Init /\ [][Next]_bvars
=============================================================================
