----------------------------- MODULE IoScheduler -----------------------------
(***************************************************************************)
(* The lane pool of core/src/features/streaming/io_scheduler.cpp: an owner *)
(* thread that calls run, again and again, and finally the destructor; and *)
(* the worker threads.  Every step is one stretch of a thread between two  *)
(* points where it can lose the mutex or be overtaken.  The condition      *)
(* variables are explicit: a thread that waits moves on only when it is    *)
(* notified or wakes spuriously.                                           *)
(***************************************************************************)
EXTENDS Integers, FiniteSets

CONSTANTS Lanes,        \* worker threads
          MaxJobs,      \* bound on the size of a batch
          MaxSpurious   \* bound on spurious wakeups

ASSUME LaneAssumption ==
    /\ IsFiniteSet(Lanes) /\ Lanes # {} /\ "free" \notin Lanes
    /\ MaxJobs \in Nat \ {0}
    /\ MaxSpurious \in Nat

VARIABLES fn,           \* fn_: the jobs for which the function returns false
          count,        \* count_
          next,         \* next_
          pending,      \* pending_
          failed,       \* failed_
          shutdown,     \* shutdown_
          mu,           \* holder of mu_
          opc, result,  \* the owner and what run returned
          wpc, idx, ok, \* the workers: claimed job, its result
          ran,          \* how often each job of the batch was called
          spurious      \* spurious wakeups so far

batch  == <<fn, count, next, pending, failed>>
owner  == <<opc, result>>
worker == <<wpc, idx, ok>>
vars   == <<batch, shutdown, mu, owner, worker, ran, spurious>>

Jobs == 0 .. MaxJobs - 1

Init ==
    /\ fn = {} /\ count = 0 /\ next = 0 /\ pending = 0
    /\ failed = FALSE /\ shutdown = FALSE /\ mu = "free"
    /\ opc = "idle" /\ result = TRUE
    /\ wpc = [w \in Lanes |-> "lock"]
    /\ idx = [w \in Lanes |-> 0] /\ ok = [w \in Lanes |-> FALSE]
    /\ ran = [i \in Jobs |-> 0] /\ spurious = 0

-----------------------------------------------------------------------------
(* The owner: run and the destructor.                                      *)

RunEmpty ==
    /\ opc = "idle"
    /\ result' = TRUE
    /\ UNCHANGED <<batch, shutdown, mu, opc, worker, ran, spurious>>

\* Mutant: the batch starts with one job already counted off.
PublishShort(n, bad) ==
    /\ opc = "idle" /\ mu = "free"
    /\ fn' = bad /\ count' = n /\ next' = 0 /\ pending' = n - 1 /\ failed' = FALSE
    /\ ran' = [i \in Jobs |-> 0]
    /\ opc' = "notify"
    /\ UNCHANGED <<shutdown, mu, result, worker, spurious>>

\* run installs the batch under the lock.
Publish(n, bad) ==
    /\ opc = "idle" /\ mu = "free"
    /\ fn' = bad /\ count' = n /\ next' = 0 /\ pending' = n /\ failed' = FALSE
    /\ ran' = [i \in Jobs |-> 0]
    /\ opc' = "notify"
    /\ UNCHANGED <<shutdown, mu, result, worker, spurious>>

\* cv_work_.notify_all
WakeAll == [w \in Lanes |-> IF wpc[w] = "asleep" THEN "lock" ELSE wpc[w]]

\* run notifies after it has released the lock.
Notify ==
    /\ opc = "notify"
    /\ wpc' = WakeAll
    /\ opc' = "enter"
    /\ UNCHANGED <<batch, shutdown, mu, result, idx, ok, ran, spurious>>

\* run takes the lock for cv_done_.wait, or again when it was woken.
Wait ==
    /\ opc = "enter" /\ mu = "free" /\ pending # 0
    /\ opc' = "waiting"
    /\ UNCHANGED <<batch, shutdown, mu, result, worker, ran, spurious>>

RunReturn ==
    /\ opc = "enter" /\ mu = "free" /\ pending = 0
    /\ opc' = "idle"
    /\ result' = ~failed
    /\ UNCHANGED <<batch, shutdown, mu, worker, ran, spurious>>

Shutdown ==
    /\ opc = "idle" /\ mu = "free"
    /\ shutdown' = TRUE
    /\ opc' = "stop"
    /\ UNCHANGED <<batch, mu, result, worker, ran, spurious>>

\* Mutant: the destructor joins without waking the workers.
StopQuietly ==
    /\ opc = "stop"
    /\ opc' = "join"
    /\ UNCHANGED <<batch, shutdown, mu, result, worker, ran, spurious>>

NotifyStop ==
    /\ opc = "stop"
    /\ wpc' = WakeAll
    /\ opc' = "join"
    /\ UNCHANGED <<batch, shutdown, mu, result, idx, ok, ran, spurious>>

Join ==
    /\ opc = "join" /\ \A w \in Lanes : wpc[w] = "exited"
    /\ opc' = "gone"
    /\ UNCHANGED <<batch, shutdown, mu, result, worker, ran, spurious>>

-----------------------------------------------------------------------------
(* A worker: worker_loop.                                                  *)

\* It starts, or cv_work_.wait returns to its predicate.
Lock(w) ==
    /\ wpc[w] = "lock" /\ mu = "free"
    /\ mu' = w
    /\ wpc' = [wpc EXCEPT ![w] = "loop"]
    /\ UNCHANGED <<batch, shutdown, owner, idx, ok, ran, spurious>>

Sleep(w) ==
    /\ wpc[w] = "loop" /\ ~shutdown /\ next >= count
    /\ mu' = "free"
    /\ wpc' = [wpc EXCEPT ![w] = "asleep"]
    /\ UNCHANGED <<batch, shutdown, owner, idx, ok, ran, spurious>>

Exit(w) ==
    /\ wpc[w] = "loop" /\ shutdown
    /\ mu' = "free"
    /\ wpc' = [wpc EXCEPT ![w] = "exited"]
    /\ UNCHANGED <<batch, shutdown, owner, idx, ok, ran, spurious>>

\* Mutant: the index is taken after the increment.
ClaimAfterIncrement(w) ==
    /\ wpc[w] = "loop" /\ ~shutdown /\ next < count
    /\ idx' = [idx EXCEPT ![w] = next + 1]
    /\ next' = next + 1
    /\ mu' = "free"
    /\ wpc' = [wpc EXCEPT ![w] = "call"]
    /\ UNCHANGED <<fn, count, pending, failed, shutdown, owner, ok, ran, spurious>>

Claim(w) ==
    /\ wpc[w] = "loop" /\ ~shutdown /\ next < count
    /\ idx' = [idx EXCEPT ![w] = next]
    /\ next' = next + 1
    /\ mu' = "free"
    /\ wpc' = [wpc EXCEPT ![w] = "call"]
    /\ UNCHANGED <<fn, count, pending, failed, shutdown, owner, ok, ran, spurious>>

\* fn_(i) runs without the lock; a job that throws counts as failed.
Call(w) ==
    /\ wpc[w] = "call"
    /\ ok' = [ok EXCEPT ![w] = idx[w] \notin fn]
    /\ ran' = [ran EXCEPT ![idx[w]] = @ + 1]
    /\ wpc' = [wpc EXCEPT ![w] = "finish"]
    /\ UNCHANGED <<batch, shutdown, mu, owner, idx, spurious>>

\* Mutant: the last worker tests the count before it decrements it.
FinishTestsEarly(w) ==
    /\ wpc[w] = "finish" /\ mu = "free"
    /\ mu' = w
    /\ failed' = (failed \/ ~ok[w])
    /\ pending' = pending - 1
    /\ opc' = IF pending = 0 /\ opc = "waiting" THEN "enter" ELSE opc
    /\ wpc' = [wpc EXCEPT ![w] = "loop"]
    /\ UNCHANGED <<fn, count, next, shutdown, result, idx, ok, ran, spurious>>

\* Mutant: a later success overwrites an earlier failure.
FinishOverwrites(w) ==
    /\ wpc[w] = "finish" /\ mu = "free"
    /\ mu' = w
    /\ failed' = ~ok[w]
    /\ pending' = pending - 1
    /\ opc' = IF pending = 1 /\ opc = "waiting" THEN "enter" ELSE opc
    /\ wpc' = [wpc EXCEPT ![w] = "loop"]
    /\ UNCHANGED <<fn, count, next, shutdown, result, idx, ok, ran, spurious>>

\* The worker takes the lock, records the outcome and goes on looping with it.
Finish(w) ==
    /\ wpc[w] = "finish" /\ mu = "free"
    /\ mu' = w
    /\ failed' = (failed \/ ~ok[w])
    /\ pending' = pending - 1
    /\ opc' = IF pending = 1 /\ opc = "waiting" THEN "enter" ELSE opc
    /\ wpc' = [wpc EXCEPT ![w] = "loop"]
    /\ UNCHANGED <<fn, count, next, shutdown, result, idx, ok, ran, spurious>>

-----------------------------------------------------------------------------
(* Spurious wakeups of either condition variable.                          *)

SpuriousWork(w) ==
    /\ spurious < MaxSpurious /\ wpc[w] = "asleep"
    /\ wpc' = [wpc EXCEPT ![w] = "lock"]
    /\ spurious' = spurious + 1
    /\ UNCHANGED <<batch, shutdown, mu, owner, idx, ok, ran>>

SpuriousDone ==
    /\ spurious < MaxSpurious /\ opc = "waiting"
    /\ opc' = "enter"
    /\ spurious' = spurious + 1
    /\ UNCHANGED <<batch, shutdown, mu, result, worker, ran>>

-----------------------------------------------------------------------------
WorkerStep(w) ==
    Lock(w) \/ Sleep(w) \/ Exit(w) \/ Claim(w) \/ Call(w) \/ Finish(w)

\* What the owner does once it has called run or the destructor.
OwnerStep == Notify \/ Wait \/ RunReturn \/ NotifyStop \/ Join

\* The destructor has returned.
Gone == opc = "gone" /\ UNCHANGED vars

Next ==
    \/ RunEmpty
    \/ \E n \in 1 .. MaxJobs : \E bad \in SUBSET (0 .. n - 1) : Publish(n, bad)
    \/ Shutdown
    \/ OwnerStep
    \/ \E w \in Lanes : WorkerStep(w) \/ SpuriousWork(w)
    \/ SpuriousDone
    \/ Gone

Spec == Init /\ [][Next]_vars

\* The threads run and jobs return; the owner is not obliged to call run.
FairSpec ==
    /\ Spec
    /\ WF_vars(OwnerStep)
    /\ \A w \in Lanes : WF_vars(WorkerStep(w))

-----------------------------------------------------------------------------
(* Properties.                                                             *)

Busy == {w \in Lanes : wpc[w] \in {"call", "finish"}}

\* Every variable has its type; a claimed index is that of a job (worker_loop
\* tests next_ < count_ before it claims).
TypeOK ==
    /\ fn \subseteq Jobs /\ count \in 0 .. MaxJobs /\ next \in 0 .. MaxJobs
    /\ pending \in Int /\ failed \in BOOLEAN /\ shutdown \in BOOLEAN
    /\ mu \in Lanes \cup {"free"}
    /\ opc \in {"idle", "notify", "enter", "waiting", "stop", "join", "gone"}
    /\ result \in BOOLEAN
    /\ wpc \in [Lanes -> {"lock", "loop", "asleep", "call", "finish", "exited"}]
    /\ idx \in [Lanes -> Jobs] /\ ok \in [Lanes -> BOOLEAN]
    /\ ran \in [Jobs -> Nat] /\ spurious \in 0 .. MaxSpurious

\* pending_ is exactly the unclaimed jobs plus the claimed ones that have not
\* reported: it cannot reach 0 while a lane still works, nor stay above 0 when
\* all have reported.
PendingCounts ==
    /\ next <= count
    /\ pending = (count - next) + Cardinality(Busy)

\* While a lane may call fn_ (which captures the caller's locals by reference
\* and is overwritten by the next run), run has not returned.
CallerOutlivesJobs ==
    (pending # 0 \/ Busy # {}) => opc \in {"notify", "enter", "waiting"}

\* Every job runs exactly once per call, the call returns after all of them
\* and returns false iff one failed, whatever the lanes do.
Batch == INSTANCE JobBatch WITH
            running <- opc \in {"notify", "enter", "waiting"},
            size <- count, bad <- fn, times <- ran
ImplementsBatch == Batch!Spec

\* A call of run returns: no wakeup of the caller or of the lanes is lost.
RunReturns == (opc = "notify") ~> (opc = "idle")

\* The destructor returns: every lane sees shutdown_ and exits.
DestructorReturns == (opc = "stop") ~> (opc = "gone")
=============================================================================
